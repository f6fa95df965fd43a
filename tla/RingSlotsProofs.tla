--------------------------- MODULE RingSlotsProofs ---------------------------
(***************************************************************************)
(* Proofs about RingSlots, for every ring, page size, list of extents and  *)
(* set of commands: where persist_circular places the entries of a batch,  *)
(* and what follows for the live entries and for the requests that name    *)
(* them.  The inductive invariants are RecordInv, which holds always, and  *)
(* RingInv, which the situations of Situation alone can break.             *)
(***************************************************************************)
EXTENDS RingSlots, FiniteSetTheorems, WellFoundedInduction, TLAPS

-----------------------------------------------------------------------------
(* The invariants *)

RecordSet == [start : 0..RingSize, num : 1..RingSize]

(* A record is of an entry of the log, has its size and lies in the ring. *)
Records ==
    /\ DOMAIN slotMap \subseteq 1..LastIndex
    /\ slotMap \in [DOMAIN slotMap -> RecordSet]
    /\ \A i \in DOMAIN slotMap : /\ slotMap[i].num = sizes[i]
                                 /\ slotMap[i].start + slotMap[i].num <= RingSize

RecordInv ==
    /\ leading \in BOOLEAN
    /\ sizes \in Seq(1..RingSize)
    /\ headSlot \in Nat /\ gcUpTo \in Nat /\ minMatch \in 0..LastIndex
    /\ elections \in Nat /\ copied \in Nat
    /\ tailSlot \in 0..RingSize
    /\ Records
    /\ device \in [Slot -> 0..LastIndex]

(* A live entry lies before the tail, or after it and not at it. *)
AroundTail ==
    \A i \in DOMAIN slotMap : \/ slotMap[i].start + slotMap[i].num <= tailSlot
                              \/ slotMap[i].start > tailSlot

(* Every slot of a live entry holds it. *)
Intact == \A i \in DOMAIN slotMap : \A s \in SlotsOf(slotMap[i]) : device[s] = i

(* What head_slot stands for: no live entry begins before it, unless the   *)
(* tail has wrapped and the entry lies before the tail.  It need not be    *)
(* where the oldest entry begins: after a wrap from an empty ring it is    *)
(* stale, and further from the tail's way than it could be.                *)
HeadFits(map, head, tail) ==
    /\ DOMAIN map = {} => head = tail
    /\ \/ /\ head <= tail
          /\ \A i \in DOMAIN map :
                head <= map[i].start /\ map[i].start + map[i].num <= tail
       \/ /\ tail < head
          /\ \A i \in DOMAIN map :
                head <= map[i].start \/ map[i].start + map[i].num <= tail

RingInv ==
    /\ RecordInv
    /\ AroundTail
    /\ Intact
    /\ leading => HeadFits(slotMap, headSlot, tailSlot)

-----------------------------------------------------------------------------
(* Least elements, induction and recursive functions *)

(* A set of natural numbers has a least element. *)
LEMMA LeastExists ==
    ASSUME NEW S \in SUBSET Nat, S # {}
    PROVE  \E x \in S : \A y \in S : x <= y
<1>. DEFINE T == {0..x : x \in S}
            R == StrictSubsetOrdering(Nat)
<1>1. IsWellFoundedOn(R, FiniteSubsetsOf(Nat))
  BY FS_StrictSubsetOrderingWellFounded
<1>2. T \subseteq FiniteSubsetsOf(Nat) /\ T # {}
  <2>1. \A x \in S : 0..x \subseteq Nat /\ IsFiniteSet(0..x)
    BY FS_Interval
  <2>. QED  BY <2>1 DEF FiniteSubsetsOf
<1>3. \E u \in T : \A v \in T : ~(<<v, u>> \in R)
  <2>. HIDE DEF T, R
  <2>. QED  BY <1>1, <1>2, WFMin
<1>4. PICK x \in S : \A v \in T : ~(<<v, 0..x>> \in R)
  BY <1>3
<1>5. ASSUME NEW y \in S, ~(x <= y)
      PROVE  FALSE
  <2>1. x \in Nat /\ y \in Nat /\ y < x
    BY <1>5
  <2>2. 0..y \subseteq 0..x /\ x \in 0..x /\ x \notin 0..y
    BY <2>1
  <2>3. 0..y \in SUBSET Nat /\ 0..x \in SUBSET Nat /\ 0..y # 0..x
    BY <2>1, <2>2
  <2>4. <<0..y, 0..x>> \in R
    BY <2>2, <2>3 DEF StrictSubsetOrdering
  <2>. QED  BY <1>4, <2>4
<1>. QED  BY <1>5

(* Min is the least element. *)
LEMMA MinIs ==
    ASSUME NEW S \in SUBSET Nat, S # {}
    PROVE  Min(S) \in S /\ \A y \in S : Min(S) <= y
BY LeastExists DEF Min

(* Max is the greatest element of a bounded set. *)
LEMMA MaxIs ==
    ASSUME NEW n \in Nat, NEW S \in SUBSET (0..n), S # {}
    PROVE  Max(S) \in S /\ \A y \in S : y <= Max(S)
<1>. DEFINE T == {n - x : x \in S}
<1>1. T \in SUBSET Nat /\ T # {}
  <2>1. \A x \in S : n - x \in Nat
    OBVIOUS
  <2>. QED  BY <2>1
<1>2. PICK z \in T : \A y \in T : z <= y
  <2>. HIDE DEF T
  <2>. QED  BY <1>1, LeastExists
<1>3. PICK x \in S : z = n - x
  OBVIOUS
<1>4. ASSUME NEW y \in S
      PROVE  x >= y
  <2>1. n - y \in T
    OBVIOUS
  <2>2. n - x <= n - y
    BY <1>2, <1>3, <2>1
  <2>. QED  BY <2>2
<1>5. Max(S) \in S /\ \A y \in S : Max(S) >= y
  BY <1>4 DEF Max
<1>. QED  BY <1>5


(* Induction up to n, for a set. *)
LEMMA Climb ==
    ASSUME NEW n \in Nat, NEW P, 0 \in P,
           \A j \in 1..n : j - 1 \in P => j \in P
    PROVE  \A j \in 0..n : j \in P
<1>. DEFINE Bad == {j \in 0..n : j \notin P}
<1>. SUFFICES ASSUME Bad # {} PROVE FALSE
  OBVIOUS
<1>1. PICK j \in Bad : \A y \in Bad : j <= y
  <2>1. Bad \in SUBSET Nat
    OBVIOUS
  <2>. HIDE DEF Bad
  <2>. QED  BY <2>1, LeastExists
<1>2. j \in 0..n /\ j \notin P
  OBVIOUS
<1>3. j # 0
  BY <1>2
<1>4. j \in 1..n /\ j - 1 \in 0..n
  BY <1>2, <1>3
<1>5. j - 1 \notin Bad
  BY <1>1, <1>4
<1>6. j - 1 \in P
  BY <1>4, <1>5
<1>. QED  BY <1>2, <1>4, <1>6

(* f begins with a, and step j of g leads from one value to the next as    *)
(* long as the values are in X.                                            *)
Steps(n, X) == [1..n -> [X -> X]]
Runs(f, n, X, a, g) ==
    f[0] = a /\ \A j \in 1..n : f[j - 1] \in X => f[j] = g[j][f[j - 1]]

(* There is such a function. *)
LEMMA Iteration ==
    ASSUME NEW n \in Nat, NEW X, NEW a \in X, NEW g \in Steps(n, X)
    PROVE  \E f \in [0..n -> X] : Runs(f, n, X, a, g)
<1>0. g \in [1..n -> [X -> X]]
  BY DEF Steps
<1>. DEFINE Has(m) == \E f \in [0..m -> X] :
                          f[0] = a /\ \A j \in 1..m : f[j] = g[j][f[j - 1]]
            P == {m \in 0..n : Has(m)}
<1>1. 0 \in P
  <2>. DEFINE f == [k \in 0..0 |-> a]
  <2>1. f \in [0..0 -> X] /\ f[0] = a /\ \A j \in 1..0 : f[j] = g[j][f[j - 1]]
    OBVIOUS
  <2>2. Has(0)
    BY <2>1
  <2>. QED  BY <2>2
<1>2. ASSUME NEW m \in 1..n, m - 1 \in P
      PROVE  m \in P
  <2>1. PICK f \in [0..m - 1 -> X] :
             f[0] = a /\ \A j \in 1..m - 1 : f[j] = g[j][f[j - 1]]
    BY <1>2
  <2>2. m - 1 \in 0..m - 1 /\ 0 \in 0..m - 1
    OBVIOUS
  <2>3. f[m - 1] \in X /\ g[m] \in [X -> X]
    BY <1>0, <2>2
  <2>4. PICK v \in X : v = g[m][f[m - 1]]
    BY <2>3
  <2>. DEFINE h == [k \in 0..m |-> IF k = m THEN v ELSE f[k]]
  <2>5. \A k \in 0..m - 1 : h[k] = f[k] /\ f[k] \in X
    OBVIOUS
  <2>6. h[m] = v
    OBVIOUS
  <2>7. h \in [0..m -> X]
    OBVIOUS
  <2>. HIDE DEF h
  <2>8. h[0] = a
    BY <2>1, <2>2, <2>5
  <2>9. ASSUME NEW j \in 1..m
        PROVE  h[j] = g[j][h[j - 1]]
    <3>1. j - 1 \in 0..m - 1
      OBVIOUS
    <3>2. h[j - 1] = f[j - 1]
      BY <2>5, <3>1
    <3>3. CASE j = m
      BY <2>4, <2>6, <3>2, <3>3
    <3>4. CASE j # m
      <4>1. j \in 1..m - 1 /\ j \in 0..m - 1
        BY <3>4
      <4>2. h[j] = f[j] /\ f[j] = g[j][f[j - 1]]
        BY <2>1, <2>5, <4>1
      <4>. QED  BY <3>2, <4>2
    <3>. QED  BY <3>3, <3>4
  <2>10. Has(m)
    BY <2>7, <2>8, <2>9
  <2>. HIDE DEF Has
  <2>. QED  BY <2>10
<1>3. n \in P
  <2>. HIDE DEF P
  <2>1. \A j \in 0..n : j \in P
    BY <1>1, <1>2, Climb
  <2>. QED  BY <2>1
<1>. QED  BY <1>3 DEF Runs

(* Whatever is defined that way has its values in the set. *)
LEMMA IterationType ==
    ASSUME NEW n \in Nat, NEW X, NEW a \in X, NEW g \in Steps(n, X), NEW t,
           Runs(t, n, X, a, g)
    PROVE  \A j \in 0..n : t[j] \in X
<1>. DEFINE P == {j \in 0..n : t[j] \in X}
<1>1. 0 \in P
  BY DEF Runs
<1>2. ASSUME NEW j \in 1..n, j - 1 \in P
      PROVE  j \in P
  <2>1. t[j - 1] \in X /\ g[j] \in [X -> X]
    BY <1>2 DEF Steps
  <2>2. t[j] \in X
    BY <2>1 DEF Runs
  <2>. QED  BY <2>2
<1>3. \A j \in 0..n : j \in P
  <2>. HIDE DEF P
  <2>. QED  BY <1>1, <1>2, Climb
<1>. QED  BY <1>3

(* A sequence is a function, and an element of it. *)
LEMMA SeqIs ==
    ASSUME NEW S, NEW s \in Seq(S)
    PROVE  s \in [1..Len(s) -> S]
OBVIOUS

LEMMA ElementIs ==
    ASSUME NEW S, NEW s \in Seq(S), NEW k \in 1..Len(s)
    PROVE  s[k] \in S
OBVIOUS

-----------------------------------------------------------------------------
(* Where the entries of a batch go *)

(* There are slots left in the extent of a slot, none past the ring's end. *)
LEMMA RemainingIs ==
    ASSUME NEW s \in Slot
    PROVE  /\ RemainingAt(s) \in Nat \ {0}
           /\ s + RemainingAt(s) <= RingSize
           /\ s + RemainingAt(s) \in ExtentStart \cup {RingSize}
           /\ ExtentStart = {} => RemainingAt(s) = RingSize - s
<1>. DEFINE B == {b \in ExtentStart \cup {RingSize} : b > s}
<1>1. RingSize \in Nat \ {0} /\ ExtentStart \subseteq 1..RingSize - 1
  BY RingSlotsAssumptions
<1>2. s \in Nat /\ s < RingSize
  BY <1>1 DEF Slot
<1>3. B \in SUBSET Nat /\ RingSize \in B
  <2>1. \A b \in ExtentStart \cup {RingSize} : b \in Nat
    BY <1>1
  <2>2. RingSize > s
    BY <1>1, <1>2
  <2>. QED  BY <2>1, <2>2
<1>4. \A b \in B : b > s
  OBVIOUS
<1>5. ExtentStart = {} => B = {RingSize}
  BY <1>1, <1>2
<1>6. RemainingAt(s) = Min(B) - s
  BY DEF RemainingAt
<1>. HIDE DEF B
<1>7. Min(B) \in B /\ \A y \in B : Min(B) <= y
  BY <1>3, MinIs
<1>8. PICK m \in Nat : m = Min(B) /\ m > s /\ m <= RingSize
  BY <1>3, <1>4, <1>7
<1>9. ExtentStart = {} => m = RingSize
  BY <1>5, <1>7, <1>8
<1>10. m \in ExtentStart \cup {RingSize}
  BY <1>7, <1>8 DEF B
<1>11. RemainingAt(s) = m - s /\ s + (m - s) = m
  BY <1>2, <1>6, <1>8
<1>12. s + RemainingAt(s) \in ExtentStart \cup {RingSize}
  BY <1>10, <1>11
<1>. QED  BY <1>1, <1>2, <1>6, <1>8, <1>9, <1>12

(* persist_circular places an entry inside the ring, and inside an extent  *)
(* if the extents are long enough.                                         *)
LEMMA StartIs ==
    ASSUME NEW tail \in 0..RingSize, NEW n \in 1..RingSize
    PROVE  /\ StartSlot(tail, n) \in Nat
           /\ StartSlot(tail, n) + n <= RingSize
           /\ (\A b \in ExtentStart \cup {0} : n <= RemainingAt(b)) =>
                 n <= RemainingAt(StartSlot(tail, n))
<1>1. RingSize \in Nat \ {0}
  BY RingSlotsAssumptions
<1>2. PICK s \in Nat : s = (IF tail + n > RingSize THEN 0 ELSE tail) /\ s + n <= RingSize
  BY <1>1
<1>3. s \in Slot /\ s < RingSize
  BY <1>1, <1>2 DEF Slot
<1>4. PICK r \in Nat \ {0} : /\ r = RemainingAt(s)
                             /\ s + r <= RingSize
                             /\ s + r \in ExtentStart \cup {RingSize}
  BY <1>3, RemainingIs
<1>5. StartSlot(tail, n) = IF s < RingSize /\ r < n
                           THEN IF s + r + n > RingSize THEN 0 ELSE s + r
                           ELSE s
  BY <1>2, <1>4 DEF StartSlot
<1>6. StartSlot(tail, n) \in Nat /\ StartSlot(tail, n) + n <= RingSize
  BY <1>1, <1>2, <1>4, <1>5
<1>7. ASSUME \A b \in ExtentStart \cup {0} : n <= RemainingAt(b)
      PROVE  n <= RemainingAt(StartSlot(tail, n))
  <2>1. CASE ~(r < n)
    BY <1>4, <1>5, <2>1
  <2>2. CASE r < n /\ s + r + n > RingSize
    BY <1>3, <1>5, <1>7, <2>2
  <2>3. CASE r < n /\ ~(s + r + n > RingSize)
    <3>1. StartSlot(tail, n) = s + r
      BY <1>3, <1>5, <2>3
    <3>2. s + r # RingSize
      BY <1>1, <1>4, <2>3
    <3>. QED  BY <1>4, <1>7, <3>1, <3>2
  <2>. QED  BY <2>1, <2>2, <2>3
<1>. QED  BY <1>6, <1>7

(* The tail after each entry of a batch. *)
LEMMA TailIs ==
    ASSUME NEW batch \in Seq(1..RingSize), tailSlot \in 0..RingSize
    PROVE  /\ TailAfter(batch) \in [0..Len(batch) -> 0..RingSize]
           /\ TailAfter(batch)[0] = tailSlot
           /\ \A k \in 1..Len(batch) :
                 TailAfter(batch)[k]
                 = StartSlot(TailAfter(batch)[k - 1], batch[k]) + batch[k]
<1>. DEFINE Step(f, k) == IF k = 0 THEN tailSlot
                          ELSE StartSlot(f[k - 1], batch[k]) + batch[k]
            X == 0..RingSize
<1>. PICK n \in Nat : n = Len(batch)
  OBVIOUS
<1>. DEFINE g == [k \in 1..n |-> [x \in X |-> StartSlot(x, batch[k]) + batch[k]]]
<1>1. \A k \in 1..n : batch[k] \in 1..RingSize
  BY ElementIs
<1>2. ASSUME NEW k \in 1..n, NEW x \in X
      PROVE  StartSlot(x, batch[k]) + batch[k] \in X
  <2>1. RingSize \in Nat
    BY RingSlotsAssumptions
  <2>. PICK m \in 1..RingSize : m = batch[k]
    BY <1>1
  <2>2. StartSlot(x, m) \in Nat /\ StartSlot(x, m) + m <= RingSize
    BY StartIs
  <2>. QED  BY <2>1, <2>2
<1>3. g \in Steps(n, X)
  <2>. HIDE DEF X
  <2>. QED  BY <1>2 DEF Steps
<1>4. \A k \in 1..n, x \in X : g[k][x] = StartSlot(x, batch[k]) + batch[k]
  OBVIOUS
<1>. HIDE DEF g
<1>. HIDE DEF X
<1>5. tailSlot \in X
  BY DEF X
<1>6. PICK f \in [0..n -> X] : Runs(f, n, X, tailSlot, g)
  BY <1>3, <1>5, Iteration, Zenon
<1>7. f = [k \in 0..n |-> Step(f, k)]
  <2>1. ASSUME NEW k \in 0..n
        PROVE  f[k] = Step(f, k)
    <3>1. CASE k = 0
      BY <1>6, <3>1 DEF Runs
    <3>2. CASE k # 0
      <4>1. k \in 1..n /\ k - 1 \in 0..n
        BY <3>2
      <4>2. f[k - 1] \in X /\ f[k] = g[k][f[k - 1]]
        BY <1>6, <4>1 DEF Runs
      <4>3. f[k] = StartSlot(f[k - 1], batch[k]) + batch[k]
        BY <1>4, <4>1, <4>2
      <4>. QED  BY <3>2, <4>3
    <3>. QED  BY <3>1, <3>2
  <2>. HIDE DEF Step
  <2>. QED  BY <2>1
<1>8. \E h : h = [k \in 0..Len(batch) |-> IF k = 0 THEN tailSlot
                               ELSE StartSlot(h[k - 1], batch[k]) + batch[k]]
  BY <1>7
<1>. PICK t : t = TailAfter(batch)
  OBVIOUS
<1>9. t = [k \in 0..n |-> Step(t, k)]
  BY <1>8 DEF TailAfter
<1>10. t[0] = tailSlot
  BY <1>9
<1>11. ASSUME NEW k \in 1..n
       PROVE  t[k] = StartSlot(t[k - 1], batch[k]) + batch[k]
  <2>1. k \in 0..n /\ k # 0
    OBVIOUS
  <2>2. t[k] = Step(t, k)
    <3>. HIDE DEF Step
    <3>. QED  BY <1>9, <2>1
  <2>. QED  BY <2>1, <2>2
<1>12. Runs(t, n, X, tailSlot, g)
  BY <1>4, <1>10, <1>11 DEF Runs
<1>13. \A k \in 0..n : t[k] \in X
  BY <1>3, <1>5, <1>12, IterationType, Zenon
<1>14. t \in [0..n -> X]
  <2>. HIDE DEF Step
  <2>. QED  BY <1>9, <1>13
<1>. QED  BY <1>10, <1>11, <1>14 DEF X

(* The slots of the first k entries from next on. *)
LEMMA SumIs ==
    ASSUME NEW slots \in Seq(Nat), NEW next \in 1..Len(slots) + 1
    PROVE  /\ Sums(slots, next) \in [0..Len(slots) - next + 1 -> Nat]
           /\ Sums(slots, next)[0] = 0
           /\ \A k \in 1..Len(slots) - next + 1 :
                 Sums(slots, next)[k] = Sums(slots, next)[k - 1] + slots[next + k - 1]
<1>. DEFINE Step(f, k) == IF k = 0 THEN 0 ELSE f[k - 1] + slots[next + k - 1]
<1>. PICK m \in Nat : m = Len(slots) - next + 1
  OBVIOUS
<1>. DEFINE g == [k \in 1..m |-> [x \in Nat |-> x + slots[next + k - 1]]]
<1>1. ASSUME NEW k \in 1..m
      PROVE  slots[next + k - 1] \in Nat
  <2>1. next + k - 1 \in 1..Len(slots)
    OBVIOUS
  <2>. QED  BY <2>1, ElementIs
<1>2. g \in Steps(m, Nat)
  <2>1. \A k \in 1..m : [x \in Nat |-> x + slots[next + k - 1]] \in [Nat -> Nat]
    BY <1>1
  <2>. QED  BY <2>1 DEF Steps
<1>3. \A k \in 1..m, x \in Nat : g[k][x] = x + slots[next + k - 1]
  OBVIOUS
<1>. HIDE DEF g
<1>4. PICK f \in [0..m -> Nat] : Runs(f, m, Nat, 0, g)
  BY <1>2, Iteration
<1>5. f = [k \in 0..m |-> Step(f, k)]
  <2>1. ASSUME NEW k \in 0..m
        PROVE  f[k] = Step(f, k)
    <3>1. CASE k = 0
      BY <1>4, <3>1 DEF Runs
    <3>2. CASE k # 0
      <4>1. k \in 1..m /\ k - 1 \in 0..m
        BY <3>2
      <4>2. f[k - 1] \in Nat /\ f[k] = g[k][f[k - 1]]
        BY <1>4, <4>1 DEF Runs
      <4>3. f[k] = f[k - 1] + slots[next + k - 1]
        BY <1>3, <4>1, <4>2
      <4>. QED  BY <3>2, <4>3
    <3>. QED  BY <3>1, <3>2
  <2>. HIDE DEF Step
  <2>. QED  BY <2>1
<1>6. \E h : h = [k \in 0..Len(slots) - next + 1 |->
                     IF k = 0 THEN 0 ELSE h[k - 1] + slots[next + k - 1]]
  BY <1>5
<1>. PICK s : s = Sums(slots, next)
  OBVIOUS
<1>7. s = [k \in 0..m |-> Step(s, k)]
  BY <1>6 DEF Sums
<1>8. s[0] = 0
  BY <1>7
<1>9. ASSUME NEW k \in 1..m
      PROVE  s[k] = s[k - 1] + slots[next + k - 1]
  <2>1. k \in 0..m /\ k # 0
    OBVIOUS
  <2>2. s[k] = Step(s, k)
    <3>. HIDE DEF Step
    <3>. QED  BY <1>7, <2>1
  <2>. QED  BY <2>1, <2>2
<1>10. Runs(s, m, Nat, 0, g)
  BY <1>3, <1>8, <1>9 DEF Runs
<1>11. \A k \in 0..m : s[k] \in Nat
  BY <1>2, <1>10, IterationType
<1>12. s \in [0..m -> Nat]
  <2>. HIDE DEF Step
  <2>. QED  BY <1>7, <1>11
<1>. QED  BY <1>8, <1>9, <1>12

(* More entries take no fewer slots. *)
LEMMA SumsGrow ==
    ASSUME NEW m \in Nat, NEW s \in [0..m -> Nat], NEW a \in [1..m -> Nat],
           \A k \in 1..m : s[k] = s[k - 1] + a[k]
    PROVE  \A j \in 0..m, k \in 0..m : j <= k => s[j] <= s[k]
<1>. SUFFICES ASSUME NEW j \in 0..m
              PROVE  \A k \in 0..m : j <= k => s[j] <= s[k]
  OBVIOUS
<1>. DEFINE P == {k \in 0..m : j <= k => s[j] <= s[k]}
<1>1. 0 \in P
  <2>1. j <= 0 => j = 0
    OBVIOUS
  <2>2. 0 \in 0..m /\ s[0] \in Nat
    OBVIOUS
  <2>. QED  BY <2>1, <2>2
<1>2. ASSUME NEW k \in 1..m, k - 1 \in P
      PROVE  k \in P
  <2>1. k - 1 \in 0..m /\ k \in 0..m
    OBVIOUS
  <2>2. PICK x \in Nat, y \in Nat : x = s[k - 1] /\ y = s[j]
    BY <2>1
  <2>3. PICK d \in Nat : d = a[k]
    OBVIOUS
  <2>4. s[k] = x + d
    BY <2>2, <2>3
  <2>5. j <= k - 1 => y <= x
    BY <1>2, <2>2
  <2>6. CASE j = k
    BY <2>1, <2>2, <2>6
  <2>7. CASE j # k
    <3>1. j <= k => j <= k - 1
      BY <2>7
    <3>2. j <= k => y <= x + d
      BY <2>5, <3>1
    <3>. QED  BY <2>1, <2>2, <2>4, <3>2
  <2>. QED  BY <2>6, <2>7
<1>3. \A k \in 0..m : k \in P
  <2>. HIDE DEF P
  <2>. QED  BY <1>1, <1>2, Climb
<1>. QED  BY <1>3

(* The slots of a record of a batch's entry: they end at the tail after    *)
(* it.                                                                     *)
LEMMA NewRecordIs ==
    ASSUME NEW batch \in Seq(1..RingSize), tailSlot \in 0..RingSize,
           NEW k \in 1..Len(batch)
    PROVE  /\ NewRecords(batch)[k] \in RecordSet
           /\ NewRecords(batch)[k].start = StartSlot(TailAfter(batch)[k - 1], batch[k])
           /\ NewRecords(batch)[k].num = batch[k]
           /\ NewRecords(batch)[k].start + NewRecords(batch)[k].num = TailAfter(batch)[k]
           /\ TailAfter(batch)[k] \in 0..RingSize
           /\ TailAfter(batch)[k - 1] \in 0..RingSize
<1>1. NewRecords(batch)[k] = [start |-> StartSlot(TailAfter(batch)[k - 1], batch[k]),
                              num |-> batch[k]]
  BY DEF NewRecords
<1>2. PICK m \in 1..RingSize : m = batch[k]
  BY ElementIs
<1>3. k - 1 \in 0..Len(batch) /\ k \in 0..Len(batch)
  OBVIOUS
<1>4. PICK t : t = TailAfter(batch)
  OBVIOUS
<1>5. t \in [0..Len(batch) -> 0..RingSize] /\ t[k] = StartSlot(t[k - 1], batch[k]) + batch[k]
  BY <1>4, TailIs
<1>6. PICK x \in 0..RingSize : x = t[k - 1]
  BY <1>3, <1>5
<1>7. t[k] \in 0..RingSize
  BY <1>3, <1>5
<1>8. PICK st \in Nat : st = StartSlot(x, m) /\ st + m <= RingSize
  BY StartIs
<1>9. RingSize \in Nat
  BY RingSlotsAssumptions
<1>10. NewRecords(batch)[k] = [start |-> st, num |-> m]
  BY <1>1, <1>2, <1>4, <1>6, <1>8
<1>11. [start |-> st, num |-> m] \in RecordSet
  BY <1>8, <1>9 DEF RecordSet
<1>12. t[k] = st + m
  BY <1>2, <1>5, <1>6, <1>8
<1>. QED  BY <1>2, <1>4, <1>6, <1>7, <1>8, <1>10, <1>11, <1>12

(* A batch behind a log. *)
LEMMA Joined ==
    ASSUME NEW S, NEW s \in Seq(S), NEW b \in Seq(S)
    PROVE  /\ s \o b \in Seq(S)
           /\ Len(s \o b) = Len(s) + Len(b)
           /\ \A i \in 1..Len(s) : (s \o b)[i] = s[i]
           /\ \A i \in 1..Len(b) : (s \o b)[Len(s) + i] = b[i]
OBVIOUS

(* What persist_circular makes of a slot: it keeps its entry unless the    *)
(* batch writes to it, and the last entry written to it stays.             *)
LEMMA WrittenIs ==
    ASSUME NEW batch \in Seq(1..RingSize), NEW s \in Slot
    PROVE  /\ (\A k \in 1..Len(batch) : s \notin SlotsOf(NewRecords(batch)[k])) =>
                 Placed(batch).dev[s] = device[s]
           /\ \A k \in 1..Len(batch) :
                 /\ s \in SlotsOf(NewRecords(batch)[k])
                 /\ \A j \in k + 1..Len(batch) : s \notin SlotsOf(NewRecords(batch)[j])
                 => Placed(batch).dev[s] = LastIndex + k
           /\ \/ Placed(batch).dev[s] = device[s]
              \/ \E k \in 1..Len(batch) : Placed(batch).dev[s] = LastIndex + k
<1>. PICK n \in Nat : n = Len(batch)
  OBVIOUS
<1>. PICK new : new = NewRecords(batch)
  OBVIOUS
<1>. DEFINE W == {k \in 1..n : s \in SlotsOf(new[k])}
<1>1. Placed(batch).dev[s] = IF W = {} THEN device[s] ELSE LastIndex + Max(W)
  BY DEF Placed
<1>2. W \in SUBSET (0..n) /\ W \in SUBSET (1..n)
  OBVIOUS
<1>3. \A k \in 1..n : k \in W <=> s \in SlotsOf(new[k])
  OBVIOUS
<1>. HIDE DEF W
<1>4. W # {} => Max(W) \in W /\ \A y \in W : y <= Max(W)
  BY <1>2, MaxIs
<1>5. (\A k \in 1..n : s \notin SlotsOf(new[k])) => Placed(batch).dev[s] = device[s]
  BY <1>1, <1>2, <1>3
<1>6. ASSUME NEW k \in 1..n, s \in SlotsOf(new[k]),
             \A j \in k + 1..n : s \notin SlotsOf(new[j])
      PROVE  Placed(batch).dev[s] = LastIndex + k
  <2>1. k \in W
    BY <1>3, <1>6
  <2>2. PICK m \in 1..n : m = Max(W) /\ m \in W /\ k <= m
    BY <1>2, <1>4, <2>1
  <2>3. m \notin k + 1..n
    BY <1>3, <1>6, <2>2
  <2>4. m = k
    BY <2>2, <2>3
  <2>. QED  BY <1>1, <2>1, <2>2, <2>4
<1>7. \/ Placed(batch).dev[s] = device[s]
      \/ \E k \in 1..n : Placed(batch).dev[s] = LastIndex + k
  BY <1>1, <1>2, <1>4
<1>. QED  BY <1>5, <1>6, <1>7

(* The log and the map after a batch. *)
LEMMA PlacedIs ==
    ASSUME NEW batch \in Seq(1..RingSize), sizes \in Seq(1..RingSize),
           tailSlot \in 0..RingSize
    PROVE  /\ Placed(batch).tail = TailAfter(batch)[Len(batch)]
           /\ Placed(batch).tail \in 0..RingSize
           /\ Placed(batch).sizes = sizes \o batch
           /\ DOMAIN Placed(batch).map
              = DOMAIN slotMap \cup (LastIndex + 1..LastIndex + Len(batch))
           /\ \A i \in DOMAIN slotMap : i <= LastIndex => Placed(batch).map[i] = slotMap[i]
           /\ \A k \in 1..Len(batch) :
                 Placed(batch).map[LastIndex + k] = NewRecords(batch)[k]
           /\ DOMAIN Placed(batch).dev = Slot
<1>. PICK n \in Nat : n = Len(batch)
  OBVIOUS
<1>. PICK L \in Nat : L = LastIndex
  BY DEF LastIndex
<1>. PICK new : new = NewRecords(batch)
  OBVIOUS
<1>1. Placed(batch).tail = TailAfter(batch)[n] /\ Placed(batch).sizes = sizes \o batch
  BY DEF Placed
<1>2. TailAfter(batch)[n] \in 0..RingSize
  <2>1. TailAfter(batch) \in [0..n -> 0..RingSize]
    BY TailIs
  <2>. QED  BY <2>1
<1>. DEFINE M == [i \in DOMAIN slotMap \cup (L + 1..L + n) |->
                     IF i > L THEN new[i - L] ELSE slotMap[i]]
<1>3. Placed(batch).map = M
  BY DEF Placed
<1>4. DOMAIN M = DOMAIN slotMap \cup (L + 1..L + n)
  OBVIOUS
<1>5. ASSUME NEW i \in DOMAIN slotMap, i <= L
      PROVE  M[i] = slotMap[i]
  <2>1. ~(i > L) => M[i] = slotMap[i]
    OBVIOUS
  <2>. QED  BY <1>5, <2>1
<1>6. ASSUME NEW k \in 1..n
      PROVE  M[L + k] = new[k]
  <2>1. L + k \in L + 1..L + n /\ L + k > L /\ (L + k) - L = k
    OBVIOUS
  <2>. QED  BY <2>1
<1>7. DOMAIN Placed(batch).dev = Slot
  BY DEF Placed
<1>. HIDE DEF M
<1>. QED  BY <1>1, <1>2, <1>3, <1>4, <1>5, <1>6, <1>7

-----------------------------------------------------------------------------
(* Every record is of an entry and lies in the ring *)

(* One record. *)
LEMMA RecordIs ==
    ASSUME RecordInv, NEW i \in DOMAIN slotMap
    PROVE  /\ i \in 1..LastIndex /\ i \in Nat /\ LastIndex \in Nat
           /\ slotMap[i] \in RecordSet
           /\ slotMap[i].start \in Nat /\ slotMap[i].num \in 1..RingSize
           /\ slotMap[i].num \in Nat /\ slotMap[i].num = sizes[i]
           /\ slotMap[i].start + slotMap[i].num <= RingSize
<1>1. LastIndex \in Nat
  BY DEF RecordInv, LastIndex
<1>2. i \in 1..LastIndex
  BY DEF RecordInv, Records
<1>3. slotMap[i] \in RecordSet
  BY DEF RecordInv, Records
<1>4. RingSize \in Nat
  BY RingSlotsAssumptions
<1>5. slotMap[i].start \in Nat /\ slotMap[i].num \in 1..RingSize
  BY <1>3, <1>4 DEF RecordSet
<1>6. slotMap[i].num = sizes[i] /\ slotMap[i].start + slotMap[i].num <= RingSize
  BY DEF RecordInv, Records
<1>. QED  BY <1>1, <1>2, <1>3, <1>4, <1>5, <1>6

(* recompute_head_slot: the start of a record, or the tail. *)
LEMMA HeadIs ==
    ASSUME NEW map, NEW tail \in Nat, \A i \in DOMAIN map : map[i].start \in Nat
    PROVE  /\ RecomputeHead(map, tail) \in Nat
           /\ DOMAIN map # {} =>
                 \E i \in DOMAIN map : map[i].start = RecomputeHead(map, tail)
           /\ \A i \in DOMAIN map : map[i].start >= tail =>
                 RecomputeHead(map, tail) >= tail /\ map[i].start >= RecomputeHead(map, tail)
           /\ (\A i \in DOMAIN map : map[i].start < tail) =>
                 \A i \in DOMAIN map : map[i].start >= RecomputeHead(map, tail)
<1>. DEFINE starts == {map[i].start : i \in DOMAIN map}
            ahead == {s \in starts : s >= tail}
<1>1. RecomputeHead(map, tail) = IF starts = {} THEN tail
                                 ELSE IF ahead # {} THEN Min(ahead) ELSE Min(starts)
  BY DEF RecomputeHead
<1>2. starts \in SUBSET Nat /\ ahead \in SUBSET Nat /\ ahead \subseteq starts
  OBVIOUS
<1>3. \A i \in DOMAIN map : /\ map[i].start \in starts
                            /\ map[i].start >= tail => map[i].start \in ahead
  OBVIOUS
<1>4. \A s \in ahead : s >= tail
  OBVIOUS
<1>5. (\A i \in DOMAIN map : map[i].start < tail) => ahead = {}
  <2>1. ASSUME \A i \in DOMAIN map : map[i].start < tail, NEW s \in ahead
        PROVE  FALSE
    <3>1. PICK i \in DOMAIN map : s = map[i].start
      OBVIOUS
    <3>. QED  BY <2>1, <3>1
  <2>. HIDE DEF ahead
  <2>. QED  BY <2>1
<1>. HIDE DEF starts, ahead
<1>6. starts # {} => Min(starts) \in starts /\ \A y \in starts : Min(starts) <= y
  BY <1>2, MinIs
<1>7. ahead # {} => Min(ahead) \in ahead /\ \A y \in ahead : Min(ahead) <= y
  BY <1>2, MinIs
<1>8. RecomputeHead(map, tail) \in Nat
  BY <1>1, <1>2, <1>6, <1>7
<1>9. ASSUME NEW i \in DOMAIN map, map[i].start >= tail
      PROVE  RecomputeHead(map, tail) >= tail /\ map[i].start >= RecomputeHead(map, tail)
  <2>1. map[i].start \in ahead /\ ahead # {} /\ starts # {}
    BY <1>2, <1>3, <1>9
  <2>2. RecomputeHead(map, tail) = Min(ahead)
    BY <1>1, <2>1
  <2>3. RecomputeHead(map, tail) >= tail
    BY <1>4, <1>7, <2>1, <2>2
  <2>4. RecomputeHead(map, tail) <= map[i].start
    BY <1>7, <2>1, <2>2
  <2>. QED  BY <1>8, <2>3, <2>4
<1>10. ASSUME \A i \in DOMAIN map : map[i].start < tail, NEW i \in DOMAIN map
       PROVE  map[i].start >= RecomputeHead(map, tail)
  <2>1. map[i].start \in starts /\ starts # {} /\ ahead = {}
    BY <1>3, <1>5, <1>10
  <2>2. RecomputeHead(map, tail) = Min(starts)
    BY <1>1, <2>1
  <2>3. RecomputeHead(map, tail) <= map[i].start
    BY <1>6, <2>1, <2>2
  <2>. QED  BY <1>8, <2>3
<1>11. ASSUME DOMAIN map # {}
       PROVE  \E i \in DOMAIN map : map[i].start = RecomputeHead(map, tail)
  <2>1. starts # {}
    BY <1>3, <1>11
  <2>2. RecomputeHead(map, tail) \in starts
    BY <1>1, <1>2, <1>6, <1>7, <2>1
  <2>. QED  BY <2>2 DEF starts
<1>. QED  BY <1>8, <1>9, <1>10, <1>11

(* The ring after persist_circular, record by record. *)
LEMMA WriteIs ==
    ASSUME RecordInv, NEW batch \in Seq(1..RingSize), WriteBatch(batch)
    PROVE  /\ LastIndex' = LastIndex + Len(batch)
           /\ tailSlot' = TailAfter(batch)[Len(batch)]
           /\ DOMAIN slotMap' = DOMAIN slotMap \cup (LastIndex + 1..LastIndex + Len(batch))
           /\ \A i \in DOMAIN slotMap : slotMap'[i] = slotMap[i]
           /\ \A k \in 1..Len(batch) : slotMap'[LastIndex + k] = NewRecords(batch)[k]
           /\ \A i \in DOMAIN slotMap' :
                 i \in DOMAIN slotMap \/ \E k \in 1..Len(batch) : i = LastIndex + k
           /\ device' = Placed(batch).dev
<1>. PICK n \in Nat : n = Len(batch)
  OBVIOUS
<1>. PICK L \in Nat : L = LastIndex
  BY DEF RecordInv, LastIndex
<1>1. sizes \in Seq(1..RingSize) /\ tailSlot \in 0..RingSize
  BY DEF RecordInv
<1>2. /\ sizes' = sizes \o batch /\ tailSlot' = TailAfter(batch)[n]
      /\ slotMap' = Placed(batch).map /\ device' = Placed(batch).dev
  BY <1>1, PlacedIs DEF WriteBatch
<1>3. LastIndex' = L + n
  BY <1>1, <1>2, Joined DEF LastIndex
<1>4. /\ DOMAIN slotMap' = DOMAIN slotMap \cup (L + 1..L + n)
      /\ \A i \in DOMAIN slotMap : i <= L => slotMap'[i] = slotMap[i]
      /\ \A k \in 1..n : slotMap'[L + k] = NewRecords(batch)[k]
  BY <1>1, <1>2, PlacedIs
<1>5. \A i \in DOMAIN slotMap : slotMap'[i] = slotMap[i]
  <2>1. \A i \in DOMAIN slotMap : i \in 1..L
    BY RecordIs
  <2>. QED  BY <1>4, <2>1
<1>6. ASSUME NEW i \in DOMAIN slotMap', i \notin DOMAIN slotMap
      PROVE  \E k \in 1..n : i = L + k
  <2>1. i \in L + 1..L + n
    BY <1>4, <1>6
  <2>2. i - L \in 1..n /\ i = L + (i - L)
    BY <2>1
  <2>. QED  BY <2>2
<1>. QED  BY <1>2, <1>3, <1>4, <1>5, <1>6

(* persist_circular keeps what the records are. *)
LEMMA WriteKeepsRecords ==
    ASSUME RecordInv, NEW batch \in Seq(1..RingSize), WriteBatch(batch)
    PROVE  /\ sizes' \in Seq(1..RingSize)
           /\ LastIndex' = LastIndex + Len(batch)
           /\ tailSlot' \in 0..RingSize
           /\ Records'
           /\ device' \in [Slot -> 0..LastIndex']
<1>. PICK n \in Nat : n = Len(batch)
  OBVIOUS
<1>. PICK L \in Nat : L = LastIndex
  BY DEF RecordInv, LastIndex
<1>0. RingSize \in Nat
  BY RingSlotsAssumptions
<1>1. sizes \in Seq(1..RingSize) /\ tailSlot \in 0..RingSize
  BY DEF RecordInv
<1>2. /\ sizes' = sizes \o batch /\ tailSlot' = Placed(batch).tail
      /\ slotMap' = Placed(batch).map /\ device' = Placed(batch).dev
  BY <1>1, PlacedIs DEF WriteBatch
<1>3. /\ sizes' \in Seq(1..RingSize)
      /\ \A i \in 1..L : sizes'[i] = sizes[i]
      /\ \A k \in 1..n : sizes'[L + k] = batch[k]
  BY <1>1, <1>2, Joined DEF LastIndex
<1>4. LastIndex' = L + n
  BY WriteIs
<1>5. tailSlot' \in 0..RingSize
  BY <1>1, <1>2, PlacedIs
<1>6. /\ DOMAIN slotMap' = DOMAIN slotMap \cup (L + 1..L + n)
      /\ \A k \in 1..n : slotMap'[L + k] = NewRecords(batch)[k]
      /\ \A i \in DOMAIN slotMap' : i \in DOMAIN slotMap \/ \E k \in 1..n : i = L + k
  BY WriteIs
<1>7. \A i \in DOMAIN slotMap : /\ i \in 1..L /\ slotMap'[i] = slotMap[i]
                                /\ slotMap[i] \in RecordSet
                                /\ slotMap[i].num = sizes[i]
                                /\ slotMap[i].start + slotMap[i].num <= RingSize
  BY WriteIs, RecordIs
<1>8. DOMAIN slotMap' \subseteq 1..L + n
  BY <1>6, <1>7
<1>9. ASSUME NEW i \in DOMAIN slotMap'
      PROVE  /\ slotMap'[i] \in RecordSet
             /\ slotMap'[i].num = sizes'[i]
             /\ slotMap'[i].start + slotMap'[i].num <= RingSize
  <2>1. CASE i \in DOMAIN slotMap
    BY <1>3, <1>7, <2>1
  <2>2. CASE i \notin DOMAIN slotMap
    <3>2. PICK k \in 1..n : i = L + k
      BY <1>6, <2>2
    <3>3. slotMap'[i] = NewRecords(batch)[k] /\ sizes'[i] = batch[k]
      BY <1>3, <1>6, <3>2
    <3>4. /\ NewRecords(batch)[k] \in RecordSet /\ NewRecords(batch)[k].num = batch[k]
          /\ NewRecords(batch)[k].start + NewRecords(batch)[k].num \in 0..RingSize
      BY <1>1, NewRecordIs
    <3>. QED  BY <1>0, <3>3, <3>4
  <2>. QED  BY <2>1, <2>2
<1>10. slotMap' \in [DOMAIN slotMap' -> RecordSet]
  <2>1. slotMap' = [i \in DOMAIN slotMap' |-> slotMap'[i]]
    <3>1. Placed(batch).map = [i \in DOMAIN Placed(batch).map |-> Placed(batch).map[i]]
      BY DEF Placed
    <3>. QED  BY <1>2, <3>1
  <2>. QED  BY <1>9, <2>1
<1>11. Records'
  BY <1>4, <1>8, <1>9, <1>10 DEF Records
<1>12. device' \in [Slot -> 0..L + n]
  <2>1. device \in [Slot -> 0..L]
    BY DEF RecordInv
  <2>2. ASSUME NEW s \in Slot
        PROVE  device'[s] \in 0..L + n
    <3>1. \/ device'[s] = device[s]
          \/ \E k \in 1..n : device'[s] = L + k
      BY <1>2, WrittenIs
    <3>2. device[s] \in 0..L
      BY <2>1
    <3>. QED  BY <3>1, <3>2
  <2>3. device' = [s \in Slot |-> device'[s]]
    <3>1. Placed(batch).dev = [s \in Slot |-> Placed(batch).dev[s]]
      BY DEF Placed
    <3>. QED  BY <1>2, <3>1
  <2>. QED  BY <2>2, <2>3
<1>. QED  BY <1>3, <1>4, <1>5, <1>11, <1>12

(* become_leader's no-op is a batch. *)
LEMMA NoopIs == /\ <<1>> \in Seq(1..RingSize) /\ <<1>> \in Seq(1..PageSlots)
                /\ Len(<<1>>) = 1 /\ <<1>>[1] = 1
<1>1. 1 \in 1..RingSize /\ 1 \in 1..PageSlots
  BY RingSlotsAssumptions
<1>. QED  BY <1>1

(* A batch of an apply() is one too. *)
LEMMA BatchIs ==
    ASSUME NEW batch \in Batches
    PROVE  batch \in Seq(1..RingSize) /\ Len(batch) \in Nat
BY RingSlotsAssumptions

(* The start slots are numbers. *)
LEMMA StartsAre ==
    ASSUME RecordInv
    PROVE  /\ \A i \in DOMAIN slotMap : slotMap[i].start \in Nat
           /\ tailSlot \in Nat
           /\ RecomputeHead(slotMap, tailSlot) \in Nat
<1>1. \A i \in DOMAIN slotMap : slotMap[i].start \in Nat
  BY RecordIs
<1>2. tailSlot \in Nat
  BY RingSlotsAssumptions DEF RecordInv
<1>. QED  BY <1>1, <1>2, HeadIs

(* What do_slot_gc leaves of the map. *)
LEMMA UnfreedIs ==
    ASSUME RecordInv, NEW D, D = {j \in DOMAIN slotMap : j <= gcUpTo \/ j > minMatch}
    PROVE  /\ DOMAIN Unfreed = D /\ D \subseteq DOMAIN slotMap
           /\ \A i \in D : Unfreed[i] = slotMap[i]
           /\ Unfreed \in [D -> RecordSet]
<1>1. Unfreed = [i \in D |-> slotMap[i]] /\ D \subseteq DOMAIN slotMap
  BY DEF Unfreed
<1>2. \A i \in D : slotMap[i] \in RecordSet
  BY <1>1, RecordIs
<1>. QED  BY <1>1, <1>2

(* Every action keeps RecordInv. *)
LEMMA RecordStep ==
    ASSUME RecordInv, [Next]_vars
    PROVE  RecordInv'
<1>. USE DEF RecordInv
<1>1. CASE BecomeLeader
  <2>1. WriteBatch(<<1>>) /\ <<1>> \in Seq(1..RingSize)
    BY <1>1, NoopIs DEF BecomeLeader
  <2>2. /\ sizes' \in Seq(1..RingSize) /\ tailSlot' \in 0..RingSize
        /\ Records' /\ device' \in [Slot -> 0..LastIndex'] /\ LastIndex' = LastIndex + 1
    BY <2>1, NoopIs, WriteKeepsRecords
  <2>3. headSlot' \in Nat
    BY <1>1, StartsAre DEF BecomeLeader
  <2>4. LastIndex \in Nat
    BY DEF LastIndex
  <2>5. /\ leading' \in BOOLEAN /\ gcUpTo' \in Nat /\ minMatch' \in 0..LastIndex'
        /\ elections' \in Nat /\ copied' \in Nat
    BY <1>1, <2>2, <2>4 DEF BecomeLeader
  <2>. QED  BY <2>2, <2>3, <2>5
<1>2. CASE StepDown
  BY <1>2 DEF StepDown, Records, LastIndex
<1>3. ASSUME NEW batch \in Batches, Apply(batch)
      PROVE  RecordInv'
  <2>1. WriteBatch(batch) /\ batch \in Seq(1..RingSize)
    BY <1>3, BatchIs DEF Apply
  <2>2. /\ sizes' \in Seq(1..RingSize) /\ tailSlot' \in 0..RingSize
        /\ Records' /\ device' \in [Slot -> 0..LastIndex']
        /\ LastIndex' = LastIndex + Len(batch)
    BY <2>1, WriteKeepsRecords
  <2>3. LastIndex \in Nat /\ Len(batch) \in Nat
    BY BatchIs DEF LastIndex
  <2>4. minMatch' \in 0..LastIndex'
    BY <1>3, <2>2, <2>3 DEF Apply
  <2>5. /\ leading' \in BOOLEAN /\ gcUpTo' \in Nat /\ headSlot' \in Nat
        /\ elections' \in Nat /\ copied' \in Nat
    BY <1>3 DEF Apply
  <2>. QED  BY <2>2, <2>4, <2>5
<1>4. ASSUME NEW s \in Slot, NEW n \in 1..RingSize, FollowerAppend(s, n)
      PROVE  RecordInv'
  <2>0. RingSize \in Nat \ {0} /\ s \in Nat
    BY RingSlotsAssumptions DEF Slot
  <2>. PICK L \in Nat : L = LastIndex
    BY DEF LastIndex
  <2>1. /\ sizes' \in Seq(1..RingSize) /\ Len(sizes') = L + 1
        /\ \A i \in 1..L : sizes'[i] = sizes[i]
    BY <1>4 DEF FollowerAppend, LastIndex
  <2>2. LastIndex' = L + 1
    BY <2>1 DEF LastIndex
  <2>3. tailSlot' \in 0..RingSize
    BY <1>4, <2>0 DEF FollowerAppend, CopyTail
  <2>4. slotMap' = slotMap
    BY <1>4 DEF FollowerAppend
  <2>5. Records'
    <3>1. DOMAIN slotMap \subseteq 1..L + 1
      BY RecordIs
    <3>2. \A i \in DOMAIN slotMap : /\ slotMap[i].num = sizes'[i]
                                    /\ slotMap[i].start + slotMap[i].num <= RingSize
      BY <2>1, RecordIs
    <3>3. slotMap \in [DOMAIN slotMap -> RecordSet]
      BY DEF Records
    <3>. QED  BY <2>2, <2>4, <3>1, <3>2, <3>3 DEF Records
  <2>6. device' \in [Slot -> 0..L + 1]
    <3>1. device' = [t \in Slot |-> IF t \in s..s + n - 1 THEN L + 1 ELSE device[t]]
      BY <1>4 DEF FollowerAppend
    <3>2. \A t \in Slot : device[t] \in 0..L + 1
      OBVIOUS
    <3>. QED  BY <3>1, <3>2
  <2>7. minMatch' \in 0..L + 1
    BY <1>4 DEF FollowerAppend
  <2>8. /\ leading' \in BOOLEAN /\ gcUpTo' \in Nat /\ headSlot' \in Nat
        /\ elections' \in Nat /\ copied' \in Nat
    BY <1>4 DEF FollowerAppend
  <2>. QED  BY <2>1, <2>2, <2>3, <2>5, <2>6, <2>7, <2>8
<1>5. ASSUME NEW m \in 1..LastIndex, Confirm(m)
      PROVE  RecordInv'
  <2>1. LastIndex' = LastIndex /\ Records'
    BY <1>5 DEF Confirm, LastIndex, Records
  <2>2. m \in 0..LastIndex
    BY DEF LastIndex
  <2>. QED  BY <1>5, <2>1, <2>2 DEF Confirm
<1>6. CASE DoSlotGc
  <2>1. LastIndex' = LastIndex /\ sizes' = sizes /\ slotMap' = Unfreed
    BY <1>6 DEF DoSlotGc, LastIndex
  <2>2. PICK D : D = {j \in DOMAIN slotMap : j <= gcUpTo \/ j > minMatch}
    OBVIOUS
  <2>3. /\ DOMAIN slotMap' = D /\ D \subseteq DOMAIN slotMap
        /\ \A i \in D : slotMap'[i] = slotMap[i]
        /\ slotMap' \in [D -> RecordSet]
    BY <2>1, <2>2, UnfreedIs
  <2>4. \A i \in D : /\ i \in 1..LastIndex /\ slotMap'[i].start \in Nat
                     /\ slotMap'[i].num = sizes[i]
                     /\ slotMap'[i].start + slotMap'[i].num <= RingSize
    BY <2>3, RecordIs
  <2>5. Records'
    BY <2>1, <2>3, <2>4 DEF Records
  <2>6. headSlot' \in Nat
    <3>1. RecomputeHead(slotMap', tailSlot) \in Nat
      BY <2>3, <2>4, StartsAre, HeadIs
    <3>. QED  BY <1>6, <3>1 DEF DoSlotGc
  <2>7. gcUpTo' \in Nat
    BY <1>6 DEF DoSlotGc, LastIndex
  <2>. QED  BY <1>6, <2>1, <2>5, <2>6, <2>7 DEF DoSlotGc
<1>7. CASE UNCHANGED vars
  BY <1>7 DEF vars, Records, LastIndex
<1>. QED  BY <1>1, <1>2, <1>3, <1>4, <1>5, <1>6, <1>7 DEF Next

(* The ring is empty at first. *)
LEMMA RecordInit ==
    ASSUME Init
    PROVE  RecordInv
<1>1. RingSize \in Nat
  BY RingSlotsAssumptions
<1>2. sizes = <<>> /\ LastIndex = 0 /\ sizes \in Seq(1..RingSize)
  BY DEF Init, LastIndex
<1>3. DOMAIN slotMap = {} /\ slotMap \in [DOMAIN slotMap -> RecordSet]
  BY DEF Init
<1>4. Records
  BY <1>3 DEF Records
<1>5. device \in [Slot -> 0..LastIndex]
  BY <1>2 DEF Init
<1>6. tailSlot \in 0..RingSize /\ minMatch \in 0..LastIndex
  BY <1>1, <1>2 DEF Init
<1>. QED  BY <1>2, <1>4, <1>5, <1>6 DEF Init, RecordInv

(* Records and header keep their types, and every record lies inside the   *)
(* ring and is of an entry of the log (persist_circular, do_slot_gc).      *)
THEOREM TypeInvariant == Spec => []TypeOK
<1>1. Init => RecordInv
  BY RecordInit
<1>2. RecordInv => TypeOK
  <2>. SUFFICES ASSUME RecordInv PROVE TypeOK
    OBVIOUS
  <2>1. \A i \in DOMAIN slotMap :
           slotMap[i].num > 0 /\ slotMap[i].start + slotMap[i].num <= RingSize
    BY RecordIs
  <2>2. DOMAIN slotMap \subseteq 1..LastIndex
    BY DEF RecordInv, Records
  <2>3. minMatch \in Nat
    BY DEF RecordInv, LastIndex
  <2>. QED  BY <2>1, <2>2, <2>3 DEF RecordInv, TypeOK
<1>3. RecordInv /\ [Next]_vars => RecordInv'
  BY RecordStep
<1>. QED  BY <1>1, <1>2, <1>3, PTL DEF Spec

-----------------------------------------------------------------------------
(* The entries that one request carries *)

(* Rounding up to a page leaves no slot out, and never gives less than a   *)
(* page.                                                                   *)
LEMMA AlignUpCovers ==
    ASSUME NEW n \in Nat
    PROVE  AlignUp(n) \in Nat /\ n <= AlignUp(n) /\ (n # 0 => PageSlots <= AlignUp(n))
<1>1. PageSlots \in Nat \ {0}
  BY RingSlotsAssumptions
<1>. PICK a \in Nat : a = n + PageSlots - 1
  BY <1>1
<1>. PICK q \in Nat : q = a \div PageSlots
  BY <1>1
<1>2. q * PageSlots <= a /\ a < q * PageSlots + PageSlots
  BY <1>1
<1>3. AlignUp(n) = q * PageSlots
  BY <1>1 DEF AlignUp
<1>4. PICK p \in Nat : p = q * PageSlots
  BY <1>1
<1>5. p <= a /\ a < p + PageSlots /\ AlignUp(n) = p
  BY <1>2, <1>3, <1>4
<1>6. n # 0 => q # 0
  <2>1. q = 0 => p = 0
    BY <1>1, <1>4
  <2>. QED  BY <1>1, <1>5, <2>1
<1>7. q # 0 => PageSlots <= p
  BY <1>1, <1>4
<1>. QED  BY <1>1, <1>5, <1>6, <1>7

(* F counts the slots of the m entries from next on. *)
Counted(next, m, F) ==
    /\ m \in Nat \ {0} /\ m = LastIndex - next + 1
    /\ F \in [0..m -> Nat] /\ F = Sums(sizes, next)
    /\ F[0] = 0 /\ F[1] = slotMap[next].num
    /\ \A k \in 1..m : F[k] = F[k - 1] + sizes[next + k - 1]
    /\ \A j \in 0..m, k \in 0..m : j <= k => F[j] <= F[k]

(* The sums of slots from an entry with a record on. *)
LEMMA SlotsFromIs ==
    ASSUME RecordInv, NEW next \in DOMAIN slotMap
    PROVE  \E m, F : Counted(next, m, F)
<1>. PICK L \in Nat : L = LastIndex
  BY RecordIs
<1>1. next \in 1..L /\ slotMap[next].num = sizes[next] /\ slotMap[next].num \in Nat
  BY RecordIs
<1>2. RingSize \in Nat
  BY RingSlotsAssumptions
<1>3. sizes \in Seq(Nat) /\ Len(sizes) = L
  BY <1>2 DEF RecordInv, LastIndex
<1>4. PICK m \in Nat \ {0} : m = L - next + 1
  BY <1>1
<1>5. PICK F : F = Sums(sizes, next)
  OBVIOUS
<1>6. /\ F \in [0..m -> Nat] /\ F[0] = 0
      /\ \A k \in 1..m : F[k] = F[k - 1] + sizes[next + k - 1]
  <2>1. next \in 1..Len(sizes) + 1 /\ m = Len(sizes) - next + 1
    BY <1>1, <1>3, <1>4
  <2>. QED  BY <1>3, <1>5, <2>1, SumIs
<1>. DEFINE a == [k \in 1..m |-> sizes[next + k - 1]]
<1>7. a \in [1..m -> Nat]
  <2>1. ASSUME NEW k \in 1..m
        PROVE  sizes[next + k - 1] \in Nat
    <3>1. next + k - 1 \in 1..L
      BY <1>1, <1>4
    <3>. QED  BY <1>3, <3>1
  <2>. QED  BY <2>1
<1>8. \A k \in 1..m : F[k] = F[k - 1] + a[k]
  BY <1>6
<1>. HIDE DEF a
<1>9. \A j \in 0..m, k \in 0..m : j <= k => F[j] <= F[k]
  BY <1>6, <1>7, <1>8, SumsGrow
<1>10. F[1] = slotMap[next].num
  <2>1. 1 \in 1..m /\ 1 - 1 = 0 /\ next + 1 - 1 = next
    BY <1>1, <1>4
  <2>2. F[1] = F[0] + sizes[next]
    BY <1>6, <2>1
  <2>. QED  BY <1>1, <1>6, <2>2
<1>11. Counted(next, m, F)
  BY <1>4, <1>5, <1>6, <1>9, <1>10 DEF Counted
<1>. QED  BY <1>11

(* leader_pba_for_range gives a number of slots. *)
LEMMA ContiguousIs ==
    ASSUME RecordInv, NEW next \in DOMAIN slotMap, NEW total \in Nat
    PROVE  ContiguousFrom(slotMap[next].start, total) \in Nat
<1>. PICK s : s = slotMap[next].start
  OBVIOUS
<1>1. s \in Slot
  <2>1. RingSize \in Nat
    BY RingSlotsAssumptions
  <2>2. PICK n \in Nat \ {0} : n = slotMap[next].num
    BY RecordIs
  <2>3. s \in Nat /\ s + n <= RingSize
    BY <2>2, RecordIs
  <2>. QED  BY <2>1, <2>3 DEF Slot
<1>2. RemainingAt(s) \in Nat
  BY <1>1, RemainingIs
<1>3. AlignUp(RemainingAt(s)) \in Nat /\ AlignUp(total) \in Nat
  BY <1>2, AlignUpCovers
<1>. QED  BY <1>3 DEF ContiguousFrom

(* Lock B: e entries lie before the ring's end, and of those as many are   *)
(* taken as the contiguous range covers.                                   *)
LEMMA BatchLenIs ==
    ASSUME RecordInv, NEW next \in DOMAIN slotMap
    PROVE  \E m, F : /\ Counted(next, m, F)
                     /\ \E e \in 1..m, c \in Nat :
                           /\ slotMap[next].start + F[e] <= RingSize
                           /\ c = ContiguousFrom(slotMap[next].start, F[e])
                           /\ BatchLen(next) \in 0..e
                           /\ \A k \in 0..e : F[k] <= c => k <= BatchLen(next)
<1>0. PICK m, F : Counted(next, m, F)
  BY SlotsFromIs
<1>1. /\ m \in Nat \ {0} /\ m = LastIndex - next + 1
      /\ F \in [0..m -> Nat] /\ F = Sums(sizes, next)
      /\ F[0] = 0 /\ F[1] = slotMap[next].num
  BY <1>0 DEF Counted
<1>. m \in Nat \ {0} /\ F \in [0..m -> Nat]
  BY <1>1
<1>. PICK start \in Nat : start = slotMap[next].start
  BY RecordIs
<1>2. start + F[1] <= RingSize
  BY <1>1, RecordIs
<1>3. RingSize \in Nat /\ MaxBatchSlots \in Nat
  BY RingSlotsAssumptions
<1>. PICK room \in Nat : room = RingSize - start /\ F[1] <= room
  <2>1. 1 \in 0..m
    OBVIOUS
  <2>2. PICK x \in Nat : x = F[1]
    BY <2>1
  <2>3. start + x <= RingSize
    BY <1>2, <2>2
  <2>4. RingSize - start \in Nat /\ x <= RingSize - start
    BY <1>3, <2>3
  <2>. QED  BY <2>2, <2>4
<1>. DEFINE Within(limit) == {k \in 0..m : F[k] <= limit}
            C == {1} \cup Within(MaxBatchSlots)
<1>4. PICK capped \in 1..m : capped = Max(C)
  <2>1. C \in SUBSET (0..m) /\ 1 \in C
    OBVIOUS
  <2>. HIDE DEF C
  <2>2. Max(C) \in 0..m /\ 1 <= Max(C)
    BY <2>1, MaxIs
  <2>. QED  BY <2>2
<1>. DEFINE E == {k \in Within(room) : k <= capped}
<1>5. PICK e \in 1..m : e = Max(E) /\ F[e] <= room
  <2>1. E \in SUBSET (0..m) /\ \A k \in E : F[k] <= room
    OBVIOUS
  <2>2. 1 \in 0..m /\ F[1] <= room /\ 1 <= capped
    OBVIOUS
  <2>3. 1 \in E
    BY <2>2
  <2>. HIDE DEF E
  <2>4. Max(E) \in E /\ 1 <= Max(E)
    BY <2>1, <2>3, MaxIs
  <2>5. PICK x : x = Max(E)
    OBVIOUS
  <2>6. x \in 0..m /\ F[x] <= room
    BY <2>1, <2>4, <2>5
  <2>7. x \in 1..m
    BY <2>4, <2>5, <2>6
  <2>. QED  BY <2>5, <2>6, <2>7
<1>6. PICK c \in Nat : c = ContiguousFrom(start, F[e])
  <2>1. F[e] \in Nat
    OBVIOUS
  <2>. QED  BY <2>1, ContiguousIs
<1>. DEFINE B == {k \in Within(c) : k <= e}
<1>7. BatchLen(next) = Max(B)
  BY <1>1, <1>4, <1>5, <1>6 DEF BatchLen, SlotsFrom
<1>8. B \in SUBSET (0..e) /\ 0 \in B /\ \A k \in 0..e : F[k] <= c => k \in B
  BY <1>1
<1>. HIDE DEF B
<1>9. Max(B) \in B /\ \A k \in B : k <= Max(B)
  <2>1. e \in Nat /\ B # {} /\ B \in SUBSET (0..e)
    BY <1>8
  <2>. QED  BY <2>1, MaxIs
<1>10. BatchLen(next) \in 0..e /\ \A k \in 0..e : F[k] <= c => k <= BatchLen(next)
  BY <1>7, <1>8, <1>9
<1>11. start + F[e] <= RingSize
  <2>1. PICK x \in Nat : x = F[e]
    OBVIOUS
  <2>. QED  BY <1>3, <1>5, <2>1
<1>. QED  BY <1>0, <1>6, <1>10, <1>11

(* No entry is larger than a page, or the ring is one extent. *)
PageBatches == ExtentStart = {} \/ Batches \subseteq Seq(1..PageSlots)

PageRecords ==
    ExtentStart = {} \/ \A i \in DOMAIN slotMap : slotMap[i].num <= PageSlots

(* A batch of such entries. *)
LEMMA WriteKeepsPages ==
    ASSUME RecordInv, PageRecords, NEW batch \in Seq(1..RingSize), WriteBatch(batch),
           ExtentStart = {} \/ batch \in Seq(1..PageSlots)
    PROVE  PageRecords'
<1>. SUFFICES ASSUME batch \in Seq(1..PageSlots), ExtentStart # {}, NEW i \in DOMAIN slotMap'
              PROVE  slotMap'[i].num <= PageSlots
  BY DEF PageRecords
<1>. PICK n \in Nat : n = Len(batch)
  OBVIOUS
<1>. PICK L \in Nat : L = LastIndex
  BY DEF RecordInv, LastIndex
<1>0. PageSlots \in Nat
  BY RingSlotsAssumptions
<1>1. tailSlot \in 0..RingSize
  BY DEF RecordInv
<1>2. CASE i \in DOMAIN slotMap
  <2>1. slotMap'[i] = slotMap[i]
    BY <1>2, WriteIs
  <2>. QED  BY <1>2, <2>1 DEF PageRecords
<1>3. CASE i \notin DOMAIN slotMap
  <2>1. PICK k \in 1..n : i = L + k
    BY <1>3, WriteIs
  <2>2. slotMap'[i].num = batch[k]
    <3>1. slotMap'[i] = NewRecords(batch)[k]
      BY <2>1, WriteIs
    <3>. QED  BY <1>1, <3>1, NewRecordIs
  <2>3. batch[k] \in 1..PageSlots
    BY ElementIs
  <2>. QED  BY <1>0, <2>2, <2>3
<1>. QED  BY <1>2, <1>3

(* If no command is larger than a page, or the ring is one extent, Lock B  *)
(* never ends up with an empty request: the first entry lies before the    *)
(* ring's end, and the length of its extent, rounded up to pages, covers   *)
(* it (append_entries_worker with leader_pba_for_range).                   *)
THEOREM RequestNotEmpty == PageBatches => (Spec => []AlwaysSomethingToSend)
<1>. SUFFICES ASSUME PageBatches PROVE Spec => []AlwaysSomethingToSend
  OBVIOUS
<1>. DEFINE Inv == RecordInv /\ PageRecords
<1>1. Init => Inv
  <2>. SUFFICES ASSUME Init PROVE Inv
    OBVIOUS
  <2>1. DOMAIN slotMap = {}
    BY DEF Init
  <2>. QED  BY <2>1, RecordInit DEF PageRecords
<1>2. ASSUME Inv, [Next]_vars
      PROVE  Inv'
  <2>1. RecordInv'
    BY <1>2, RecordStep
  <2>2. PageRecords'
    <3>1. CASE BecomeLeader
      <4>1. WriteBatch(<<1>>)
        BY <3>1 DEF BecomeLeader
      <4>. QED  BY <1>2, <4>1, NoopIs, WriteKeepsPages
    <3>2. ASSUME NEW batch \in Batches, Apply(batch)
          PROVE  PageRecords'
      <4>1. WriteBatch(batch)
        BY <3>2 DEF Apply
      <4>2. ExtentStart = {} \/ batch \in Seq(1..PageSlots)
        BY DEF PageBatches
      <4>. QED  BY <1>2, <4>1, <4>2, BatchIs, WriteKeepsPages
    <3>3. CASE DoSlotGc
      <4>1. slotMap' = Unfreed
        BY <3>3 DEF DoSlotGc
      <4>2. DOMAIN Unfreed \subseteq DOMAIN slotMap /\ \A i \in DOMAIN Unfreed : Unfreed[i] = slotMap[i]
        BY <1>2, UnfreedIs
      <4>. QED  BY <1>2, <4>1, <4>2 DEF PageRecords
    <3>4. CASE UNCHANGED slotMap
      BY <1>2, <3>4 DEF PageRecords
    <3>5. StepDown => UNCHANGED slotMap
      BY DEF StepDown
    <3>6. \A s \in Slot, n \in 1..RingSize : FollowerAppend(s, n) => UNCHANGED slotMap
      BY DEF FollowerAppend
    <3>7. \A m \in 1..LastIndex : Confirm(m) => UNCHANGED slotMap
      BY DEF Confirm
    <3>8. UNCHANGED vars => UNCHANGED slotMap
      BY DEF vars
    <3>. QED  BY <1>2, <3>1, <3>2, <3>3, <3>4, <3>5, <3>6, <3>7, <3>8 DEF Next
  <2>. QED  BY <2>1, <2>2
<1>3. ASSUME Inv, NEW next \in DOMAIN slotMap
      PROVE  BatchLen(next) >= 1
  <2>0. RecordInv /\ PageRecords /\ RingSize \in Nat /\ PageSlots \in Nat
    BY <1>3, RingSlotsAssumptions
  <2>1. PICK start \in Nat, num \in Nat \ {0} :
             start = slotMap[next].start /\ num = slotMap[next].num /\ start + num <= RingSize
    <3>1. slotMap[next].num \in Nat \ {0}
      BY <2>0, RecordIs
    <3>. QED  BY <2>0, <3>1, RecordIs
  <2>2. start \in Slot
    BY <2>0, <2>1 DEF Slot
  <2>3. PICK m, F : /\ Counted(next, m, F)
                    /\ \E e \in 1..m, c \in Nat :
                          /\ c = ContiguousFrom(start, F[e])
                          /\ BatchLen(next) \in 0..e
                          /\ \A k \in 0..e : F[k] <= c => k <= BatchLen(next)
    BY <2>0, <2>1, BatchLenIs
  <2>4. PICK e \in 1..m, c \in Nat : /\ c = ContiguousFrom(start, F[e])
                                     /\ BatchLen(next) \in 0..e
                                     /\ \A k \in 0..e : F[k] <= c => k <= BatchLen(next)
    BY <2>3
  <2>5. /\ m \in Nat \ {0} /\ F \in [0..m -> Nat] /\ F[1] = num
         /\ \A j \in 0..m, k \in 0..m : j <= k => F[j] <= F[k]
    BY <2>1, <2>3 DEF Counted
  <2>6. PICK total \in Nat : total = F[e] /\ num <= total
    <3>1. 1 \in 0..m /\ e \in 0..m /\ 1 <= e
      BY <2>5
    <3>. QED  BY <2>5, <3>1
  <2>7. PICK rem \in Nat \ {0} : rem = RemainingAt(start) /\ (ExtentStart = {} => num <= rem)
    <3>1. /\ RemainingAt(start) \in Nat \ {0}
          /\ ExtentStart = {} => RemainingAt(start) = RingSize - start
      BY <2>2, RemainingIs
    <3>2. num <= RingSize - start
      BY <2>0, <2>1
    <3>. QED  BY <3>1, <3>2
  <2>8. num <= AlignUp(rem)
    <3>1. AlignUp(rem) \in Nat /\ rem <= AlignUp(rem) /\ PageSlots <= AlignUp(rem)
      BY AlignUpCovers
    <3>2. num <= rem \/ num <= PageSlots
      BY <2>0, <2>1, <2>7 DEF PageRecords
    <3>. QED  BY <2>0, <3>1, <3>2
  <2>9. num <= AlignUp(total)
    <3>1. AlignUp(total) \in Nat /\ total <= AlignUp(total)
      BY AlignUpCovers
    <3>. QED  BY <2>6, <3>1
  <2>10. num <= c
    BY <2>4, <2>6, <2>7, <2>8, <2>9 DEF ContiguousFrom
  <2>11. 1 \in 0..e /\ F[1] <= c
    BY <2>5, <2>10
  <2>12. 1 <= BatchLen(next)
    BY <2>4, <2>11
  <2>. QED  BY <2>4, <2>12
<1>4. Inv => AlwaysSomethingToSend
  <2>. HIDE DEF Inv
  <2>. QED  BY <1>3 DEF AlwaysSomethingToSend
<1>. QED  BY <1>1, <1>2, <1>4, PTL DEF Spec
(* An entry that persist_circular places never crosses into the next       *)
(* extent when the extents are long enough for it, whatever the list of    *)
(* extents, the sizes of the commands and the sequence of leaderships.     *)
THEOREM EntriesInOneExtent == Spec => []EntryInOneExtent
<1>. DEFINE Fits(num) == \A b \in ExtentStart \cup {0} : num <= RemainingAt(b)
            Inv == RecordInv /\ EntryInOneExtent
<1>1. Init => Inv
  <2>. SUFFICES ASSUME Init PROVE Inv
    OBVIOUS
  <2>1. DOMAIN slotMap = {}
    BY DEF Init
  <2>. QED  BY <2>1, RecordInit DEF EntryInOneExtent
<1>2. ASSUME RecordInv, EntryInOneExtent, NEW batch \in Seq(1..RingSize), WriteBatch(batch)
      PROVE  EntryInOneExtent'
  <2>. SUFFICES ASSUME NEW i \in DOMAIN slotMap', Fits(slotMap'[i].num)
                PROVE  slotMap'[i].num <= RemainingAt(slotMap'[i].start)
    BY DEF EntryInOneExtent, RemainingAt
  <2>. HIDE DEF Fits
  <2>. PICK n \in Nat : n = Len(batch)
    OBVIOUS
  <2>. PICK L \in Nat : L = LastIndex
    BY <1>2 DEF RecordInv, LastIndex
  <2>1. CASE i \in DOMAIN slotMap
    <3>1. slotMap'[i] = slotMap[i]
      BY <1>2, <2>1, WriteIs
    <3>. QED  BY <1>2, <2>1, <3>1 DEF EntryInOneExtent, Fits
  <2>2. CASE i \notin DOMAIN slotMap
    <3>1. PICK k \in 1..n : i = L + k
      BY <1>2, <2>2, WriteIs
    <3>2. slotMap'[i] = NewRecords(batch)[k]
      BY <1>2, <3>1, WriteIs
    <3>3. tailSlot \in 0..RingSize
      BY <1>2 DEF RecordInv
    <3>4. PICK tail \in 0..RingSize, m \in 1..RingSize :
               /\ slotMap'[i].num = m
               /\ slotMap'[i].start = StartSlot(tail, m)
      <4>1. /\ NewRecords(batch)[k].start = StartSlot(TailAfter(batch)[k - 1], batch[k])
            /\ NewRecords(batch)[k].num = batch[k]
            /\ TailAfter(batch)[k - 1] \in 0..RingSize
        BY <3>3, NewRecordIs
      <4>2. batch[k] \in 1..RingSize
        BY ElementIs
      <4>. QED  BY <3>2, <4>1, <4>2
    <3>5. m <= RemainingAt(StartSlot(tail, m))
      BY <3>4, StartIs DEF Fits
    <3>. QED  BY <3>4, <3>5
  <2>. QED  BY <2>1, <2>2
<1>3. ASSUME Inv, [Next]_vars
      PROVE  Inv'
  <2>1. RecordInv'
    BY <1>3, RecordStep
  <2>2. EntryInOneExtent'
    <3>1. CASE BecomeLeader
      <4>1. WriteBatch(<<1>>)
        BY <3>1 DEF BecomeLeader
      <4>. QED  BY <1>2, <1>3, <4>1, NoopIs
    <3>2. ASSUME NEW batch \in Batches, Apply(batch)
          PROVE  EntryInOneExtent'
      <4>1. WriteBatch(batch)
        BY <3>2 DEF Apply
      <4>. QED  BY <1>2, <1>3, <4>1, BatchIs
    <3>3. CASE DoSlotGc
      <4>1. slotMap' = Unfreed
        BY <3>3 DEF DoSlotGc
      <4>2. /\ DOMAIN Unfreed \subseteq DOMAIN slotMap
            /\ \A i \in DOMAIN Unfreed : Unfreed[i] = slotMap[i]
        BY <1>3, UnfreedIs
      <4>. QED  BY <1>3, <4>1, <4>2 DEF EntryInOneExtent, RemainingAt
    <3>4. CASE UNCHANGED slotMap
      BY <1>3, <3>4 DEF EntryInOneExtent, RemainingAt
    <3>5. StepDown => UNCHANGED slotMap
      BY DEF StepDown
    <3>6. \A s \in Slot, n \in 1..RingSize : FollowerAppend(s, n) => UNCHANGED slotMap
      BY DEF FollowerAppend
    <3>7. \A m \in 1..LastIndex : Confirm(m) => UNCHANGED slotMap
      BY DEF Confirm
    <3>8. UNCHANGED vars => UNCHANGED slotMap
      BY DEF vars
    <3>. QED  BY <1>3, <3>1, <3>2, <3>3, <3>4, <3>5, <3>6, <3>7, <3>8 DEF Next
  <2>. QED  BY <2>1, <2>2
<1>4. Inv => EntryInOneExtent
  OBVIOUS
<1>. QED  BY <1>1, <1>3, <1>4, PTL DEF Spec

-----------------------------------------------------------------------------
(* A batch that wraps at most once *)

(* Sizes b and the tails t they lead to from t0 on, if entry w alone is    *)
(* placed before the tail (none, if w > n) and the write then stays before *)
(* t0.                                                                     *)
Laid(n, b, t, t0, w) ==
    /\ n \in Nat /\ b \in [1..n -> 1..RingSize]
    /\ t \in [0..n -> 0..RingSize] /\ t[0] = t0
    /\ w \in 1..n + 1
    /\ \A k \in 1..n : k # w => t[k - 1] <= t[k] - b[k]
    /\ w <= n => t[n] < t0

(* The tails, as numbers. *)
LEMMA LaidIs ==
    ASSUME NEW n, NEW b, NEW t, NEW t0, NEW w, Laid(n, b, t, t0, w)
    PROVE  /\ n \in Nat /\ t0 \in Nat /\ RingSize \in Nat /\ w \in Nat
           /\ t \in [0..n -> Nat] /\ t[0] = t0 /\ t[n] \in Nat
           /\ \A k \in 1..n : /\ k \in 0..n /\ k - 1 \in 0..n
                              /\ b[k] \in Nat \ {0} /\ t[k] \in Nat /\ t[k - 1] \in Nat
<1>1. RingSize \in Nat
  BY RingSlotsAssumptions
<1>2. /\ n \in Nat /\ b \in [1..n -> 1..RingSize]
      /\ t \in [0..n -> 0..RingSize] /\ t[0] = t0 /\ w \in 1..n + 1
  BY DEF Laid
<1>3. t \in [0..n -> Nat]
  <2>1. \A x \in 0..RingSize : x \in Nat
    BY <1>1
  <2>2. t \in [0..n -> 0..RingSize]
    BY <1>2
  <2>. QED  BY <2>1, <2>2
<1>4. \A k \in 1..n : b[k] \in Nat \ {0}
  <2>1. \A x \in 1..RingSize : x \in Nat \ {0}
    BY <1>1
  <2>2. b \in [1..n -> 1..RingSize]
    BY <1>2
  <2>. QED  BY <2>1, <2>2
<1>5. 0 \in 0..n /\ n \in 0..n /\ \A k \in 1..n : k \in 0..n /\ k - 1 \in 0..n
  BY <1>2
<1>. QED  BY <1>1, <1>2, <1>3, <1>4, <1>5

(* The tail only moves on, but for entry w. *)
LEMMA Rising ==
    ASSUME NEW n \in Nat, NEW t \in [0..n -> Nat], NEW w \in Nat,
           \A k \in 1..n : k # w => t[k - 1] <= t[k]
    PROVE  \A j \in 0..n, k \in 0..n : j <= k /\ (k < w \/ w <= j) => t[j] <= t[k]
<1>. SUFFICES ASSUME NEW j \in 0..n
              PROVE  \A k \in 0..n : j <= k /\ (k < w \/ w <= j) => t[j] <= t[k]
  OBVIOUS
<1>. DEFINE P == {k \in 0..n : j <= k /\ (k < w \/ w <= j) => t[j] <= t[k]}
<1>1. 0 \in P
  <2>1. j <= 0 => j = 0
    OBVIOUS
  <2>2. 0 \in 0..n /\ t[0] \in Nat
    OBVIOUS
  <2>. QED  BY <2>1, <2>2
<1>2. ASSUME NEW k \in 1..n, k - 1 \in P
      PROVE  k \in P
  <2>1. k - 1 \in 0..n /\ k \in 0..n
    OBVIOUS
  <2>2. PICK x \in Nat, y \in Nat, z \in Nat : x = t[k - 1] /\ y = t[j] /\ z = t[k]
    BY <2>1
  <2>3. j <= k - 1 /\ (k - 1 < w \/ w <= j) => y <= x
    BY <1>2, <2>2
  <2>4. k # w => x <= z
    BY <2>2
  <2>5. CASE j = k
    BY <2>1, <2>2, <2>5
  <2>6. CASE j # k
    <3>1. j <= k /\ (k < w \/ w <= j) => y <= z
      BY <2>3, <2>4, <2>6
    <3>. QED  BY <2>1, <2>2, <3>1
  <2>. QED  BY <2>5, <2>6
<1>3. \A k \in 0..n : k \in P
  <2>. HIDE DEF P
  <2>. QED  BY <1>1, <1>2, Climb
<1>. QED  BY <1>3

(* The entries of a batch do not overlap.  Either they all lie between the *)
(* old tail and the new one, or the write has wrapped: the new tail is     *)
(* before the old one, and each entry is after the old or before the new.  *)
LEMMA Lanes ==
    ASSUME NEW n, NEW b, NEW t, NEW t0, NEW w, Laid(n, b, t, t0, w)
    PROVE  /\ \A j \in 1..n, k \in 1..n :
                 j < k => t[j] <= t[k] - b[k] \/ t[k] < t[j] - b[j]
           /\ \/ /\ t0 <= t[n]
                 /\ \A k \in 1..n : t0 <= t[k] - b[k] /\ t[k] <= t[n]
              \/ /\ t[n] < t0
                 /\ w <= n
                 /\ \A k \in 1..n : t0 <= t[k] - b[k] \/ t[k] <= t[n]
<1>0. /\ n \in Nat /\ t0 \in Nat /\ w \in Nat
      /\ t \in [0..n -> Nat] /\ t[0] = t0 /\ t[n] \in Nat
      /\ \A k \in 1..n : /\ k \in 0..n /\ k - 1 \in 0..n
                         /\ b[k] \in Nat \ {0} /\ t[k] \in Nat /\ t[k - 1] \in Nat
  BY LaidIs
<1>1. w \in 1..n + 1 /\ (w <= n => t[n] < t0)
  BY DEF Laid
<1>2. \A k \in 1..n : k # w => t[k - 1] <= t[k] - b[k]
  BY DEF Laid
<1>3. \A k \in 1..n : k # w => t[k - 1] <= t[k]
  <2>1. ASSUME NEW k \in 1..n, k # w
        PROVE  t[k - 1] <= t[k]
    <3>1. PICK x \in Nat, y \in Nat, d \in Nat : x = t[k - 1] /\ y = t[k] /\ d = b[k]
      BY <1>0
    <3>2. x <= y - d
      BY <1>2, <2>1, <3>1
    <3>. QED  BY <3>1, <3>2
  <2>. QED  BY <2>1
<1>4. \A j \in 0..n, k \in 0..n : j <= k /\ (k < w \/ w <= j) => t[j] <= t[k]
  BY <1>0, <1>3, Rising
<1>5. ASSUME NEW k \in 1..n, k < w
      PROVE  t0 <= t[k] - b[k]
  <2>1. 0 \in 0..n /\ k - 1 \in 0..n /\ 0 <= k - 1 /\ k - 1 < w /\ k # w
    BY <1>0, <1>5
  <2>2. t[0] <= t[k - 1]
    BY <1>4, <2>1
  <2>3. PICK x \in Nat, y \in Nat, d \in Nat : x = t[k - 1] /\ y = t[k] /\ d = b[k]
    BY <1>0
  <2>4. t0 <= x /\ x <= y - d
    BY <1>0, <1>2, <2>1, <2>2, <2>3
  <2>. QED  BY <1>0, <2>3, <2>4
<1>6. ASSUME NEW k \in 1..n, w <= k \/ w = n + 1
      PROVE  t[k] <= t[n]
  <2>1. k \in 0..n /\ n \in 0..n /\ k <= n /\ (n < w \/ w <= k)
    BY <1>0, <1>6
  <2>. QED  BY <1>4, <2>1
<1>7. ASSUME NEW j \in 1..n, NEW k \in 1..n, j < k
      PROVE  t[j] <= t[k] - b[k] \/ t[k] < t[j] - b[j]
  <2>1. PICK x \in Nat, y \in Nat, z \in Nat : x = t[j] /\ y = t[k - 1] /\ z = t[k]
    BY <1>0
  <2>2. PICK d \in Nat, e \in Nat : d = b[j] /\ e = b[k]
    BY <1>0
  <2>3. CASE k < w \/ w <= j
    <3>1. j \in 0..n /\ k - 1 \in 0..n /\ j <= k - 1 /\ (k - 1 < w \/ w <= j) /\ k # w
      BY <1>0, <1>7, <2>3
    <3>2. x <= y
      BY <1>4, <2>1, <3>1
    <3>3. y <= z - e
      BY <1>2, <2>1, <2>2, <3>1
    <3>. QED  BY <2>1, <2>2, <3>2, <3>3
  <2>4. CASE j < w /\ w <= k
    <3>1. t0 <= x - d
      BY <1>5, <2>1, <2>2, <2>4
    <3>2. z <= t[n] /\ t[n] < t0
      <4>1. w <= n
        BY <1>0, <2>4
      <4>. QED  BY <1>1, <1>6, <2>1, <2>4, <4>1
    <3>3. z < x - d
      BY <1>0, <3>1, <3>2
    <3>. QED  BY <2>1, <2>2, <3>3
  <2>. QED  BY <1>0, <2>3, <2>4
<1>8. CASE w = n + 1
  <2>1. \A k \in 1..n : t0 <= t[k] - b[k] /\ t[k] <= t[n]
    <3>1. \A k \in 1..n : k < w
      BY <1>0, <1>8
    <3>. QED  BY <1>5, <1>6, <1>8, <3>1
  <2>2. t0 <= t[n]
    <3>1. 0 \in 0..n /\ n \in 0..n /\ 0 <= n /\ n < w
      BY <1>0, <1>8
    <3>. QED  BY <1>0, <1>4, <3>1
  <2>. QED  BY <1>7, <2>1, <2>2
<1>9. CASE w # n + 1
  <2>1. w <= n
    BY <1>0, <1>1, <1>9
  <2>2. \A k \in 1..n : k < w \/ w <= k
    BY <1>0
  <2>3. \A k \in 1..n : t0 <= t[k] - b[k] \/ t[k] <= t[n]
    BY <1>5, <1>6, <2>2
  <2>. QED  BY <1>1, <1>7, <2>1, <2>3
<1>. QED  BY <1>8, <1>9

(* An entry of a batch starts its size before the tail that follows it. *)
LEMMA BatchStart ==
    ASSUME NEW batch \in Seq(1..RingSize), tailSlot \in 0..RingSize,
           NEW t, t = TailAfter(batch), NEW k \in 1..Len(batch)
    PROVE  /\ NewRecords(batch)[k].start = t[k] - batch[k]
           /\ t[k] \in Nat /\ t[k - 1] \in Nat /\ batch[k] \in Nat
           /\ k \in Wraps(batch) <=> t[k] - batch[k] < t[k - 1]
<1>0. RingSize \in Nat
  BY RingSlotsAssumptions
<1>. PICK r : r = NewRecords(batch)[k]
  OBVIOUS
<1>1. /\ r \in RecordSet /\ r.num = batch[k] /\ r.start + r.num = t[k]
      /\ t[k] \in 0..RingSize /\ t[k - 1] \in 0..RingSize
  BY NewRecordIs
<1>2. r.start \in Nat /\ r.num \in Nat
  BY <1>0, <1>1 DEF RecordSet
<1>3. t[k] \in Nat /\ t[k - 1] \in Nat /\ batch[k] \in Nat
  BY <1>0, <1>1, <1>2
<1>4. r.start = t[k] - batch[k]
  BY <1>1, <1>2
<1>5. k \in Wraps(batch) <=> r.start < t[k - 1]
  BY DEF Wraps
<1>. QED  BY <1>3, <1>4, <1>5

(* A batch that does not lap the ring is laid out that way. *)
LEMMA BatchLaid ==
    ASSUME Excluded = Situation, NEW batch \in Seq(1..RingSize), tailSlot \in 0..RingSize,
           sizes \in Seq(1..RingSize), NEW head, Roomy(batch, head),
           NEW n, n = Len(batch), NEW t, t = TailAfter(batch)
    PROVE  \E w : Laid(n, batch, t, tailSlot, w) /\ (w <= n => Wraps(batch) # {})
<1>1. n \in Nat /\ batch \in [1..n -> 1..RingSize]
  <2>1. Len(batch) \in Nat
    OBVIOUS
  <2>2. batch \in [1..Len(batch) -> 1..RingSize]
    BY SeqIs
  <2>. QED  BY <2>1, <2>2
<1>2. t \in [0..n -> 0..RingSize] /\ t[0] = tailSlot
  BY TailIs
<1>3. /\ \A j, k \in Wraps(batch) : j = k
      /\ Wraps(batch) # {} => t[n] < tailSlot
  <2>1. Placed(batch).tail = t[n]
    BY PlacedIs
  <2>. QED  BY <2>1 DEF Roomy, Situation
<1>4. Wraps(batch) \subseteq 1..n
  BY DEF Wraps
<1>5. ASSUME NEW k \in 1..n, k \notin Wraps(batch)
      PROVE  t[k - 1] <= t[k] - batch[k]
  <2>1. /\ t[k] \in Nat /\ t[k - 1] \in Nat /\ batch[k] \in Nat
        /\ ~(t[k] - batch[k] < t[k - 1])
    BY <1>5, BatchStart
  <2>. QED  BY <2>1
<1>6. CASE Wraps(batch) = {}
  <2>1. n + 1 \in 1..n + 1 /\ ~(n + 1 <= n)
    BY <1>1
  <2>2. Laid(n, batch, t, tailSlot, n + 1)
    BY <1>1, <1>2, <1>5, <1>6, <2>1 DEF Laid
  <2>. QED  BY <2>1, <2>2
<1>7. CASE Wraps(batch) # {}
  <2>1. PICK w \in Wraps(batch) : \A k \in Wraps(batch) : k = w
    BY <1>3, <1>7
  <2>2. w \in 1..n + 1
    BY <1>1, <1>4, <2>1
  <2>3. \A k \in 1..n : k # w => t[k - 1] <= t[k] - batch[k]
    BY <1>5, <2>1
  <2>4. Laid(n, batch, t, tailSlot, w)
    BY <1>1, <1>2, <1>3, <1>7, <2>2, <2>3 DEF Laid
  <2>. QED  BY <1>7, <2>4
<1>. QED  BY <1>6, <1>7

(* can_write_all looks at the tails that persist_circular will have, but   *)
(* for the ends of extents: a wrapped write ends before the head.          *)
LEMMA CanWriteIs ==
    ASSUME Excluded = Situation, NEW batch \in Seq(1..RingSize), tailSlot \in 0..RingSize,
           sizes \in Seq(1..RingSize), NEW head, Roomy(batch, head),
           CanWriteAll(batch, head), NEW n, n = Len(batch), n # 0,
           NEW t, t = TailAfter(batch), slotMap # <<>>,
           tailSlot < head \/ Wraps(batch) # {}
    PROVE  t[n] <= head
<1>. DEFINE Next0(x, k) == IF x + batch[k] > RingSize THEN 0 ELSE x
            Step(f, k) == IF k = 0 THEN tailSlot ELSE Next0(f[k - 1], k) + batch[k]
<1>0. n \in Nat
  OBVIOUS
<1>1. CASE SkipsExtent(batch)
  <2>1. Placed(batch).tail = t[n]
    BY PlacedIs
  <2>. QED  BY <1>1, <2>1 DEF Roomy, Situation
<1>2. CASE ~SkipsExtent(batch)
  <2>1. t \in [0..n -> 0..RingSize] /\ t[0] = tailSlot
    BY TailIs
  <2>2. ASSUME NEW k \in 1..n
        PROVE  NewRecords(batch)[k].start = Next0(t[k - 1], k)
    BY <1>2 DEF SkipsExtent
  <2>3. ASSUME NEW k \in 1..n
        PROVE  t[k] = Next0(t[k - 1], k) + batch[k]
    <3>1. /\ NewRecords(batch)[k].num = batch[k]
          /\ NewRecords(batch)[k].start + NewRecords(batch)[k].num = t[k]
      BY NewRecordIs
    <3>2. NewRecords(batch)[k].start = Next0(t[k - 1], k)
      BY <2>2
    <3>. HIDE DEF Next0
    <3>. QED  BY <3>1, <3>2
  <2>4. t = [k \in 0..n |-> Step(t, k)]
    <3>1. ASSUME NEW k \in 0..n
          PROVE  t[k] = Step(t, k)
      <4>. HIDE DEF Next0
      <4>1. CASE k = 0
        BY <2>1, <4>1
      <4>2. CASE k # 0
        <5>1. k \in 1..n
          BY <1>0, <4>2
        <5>. QED  BY <2>3, <4>2, <5>1
      <4>. QED  BY <4>1, <4>2
    <3>. HIDE DEF Step
    <3>. QED  BY <2>1, <3>1
  <2>. DEFINE slot == CHOOSE f : f = [k \in 0..n |-> Step(f, k)]
  <2>5. slot = [k \in 0..n |-> Step(slot, k)]
    <3>. HIDE DEF Step
    <3>. QED  BY <2>4
  <2>6. \A k \in 1..n : (tailSlot < head \/ \E j \in 1..k : slot[j - 1] + batch[j] > RingSize)
                        => slot[k] <= head
    BY DEF CanWriteAll
  <2>. HIDE DEF slot
  <2>. DEFINE P == {k \in 0..n : slot[k] = t[k]}
  <2>7. 0 \in P
    BY <1>0, <2>1, <2>5
  <2>8. ASSUME NEW k \in 1..n, k - 1 \in P
        PROVE  k \in P
    <3>1. k \in 0..n /\ k # 0
      BY <1>0
    <3>2. slot[k] = Step(slot, k) /\ t[k] = Step(t, k)
      <4>. HIDE DEF Step
      <4>. QED  BY <2>4, <2>5, <3>1
    <3>3. slot[k - 1] = t[k - 1]
      BY <2>8
    <3>. HIDE DEF Next0
    <3>. QED  BY <3>1, <3>2, <3>3
  <2>9. \A k \in 0..n : slot[k] = t[k]
    <3>1. \A k \in 0..n : k \in P
      <4>. HIDE DEF P
      <4>. QED  BY <1>0, <2>7, <2>8, Climb
    <3>. QED  BY <3>1
  <2>10. n \in 1..n /\ n \in 0..n /\ \A j \in 1..n : j - 1 \in 0..n
    BY <1>0
  <2>11. Wraps(batch) # {} => \E j \in 1..n : slot[j - 1] + batch[j] > RingSize
    <3>. SUFFICES ASSUME NEW j \in Wraps(batch)
                  PROVE  \E k \in 1..n : slot[k - 1] + batch[k] > RingSize
      OBVIOUS
    <3>1. j \in 1..n /\ NewRecords(batch)[j].start < t[j - 1]
      BY DEF Wraps
    <3>2. t[j - 1] \in Nat
      BY <3>1, BatchStart
    <3>3. NewRecords(batch)[j].start # t[j - 1]
      BY <3>1, <3>2
    <3>4. t[j - 1] + batch[j] > RingSize
      BY <2>2, <3>1, <3>3
    <3>. QED  BY <2>9, <2>10, <3>1, <3>4
  <2>12. slot[n] <= head
    BY <2>6, <2>10, <2>11
  <2>. QED  BY <2>9, <2>10, <2>12
<1>. QED  BY <1>1, <1>2

(* recompute_head_slot finds such a head. *)
LEMMA HeadFound ==
    ASSUME NEW map, NEW tail \in Nat,
           \A i \in DOMAIN map : /\ map[i].start \in Nat /\ map[i].num \in Nat \ {0}
                                 /\ \/ map[i].start + map[i].num <= tail
                                    \/ map[i].start > tail
    PROVE  HeadFits(map, RecomputeHead(map, tail), tail)
<1>1. PICK h \in Nat : h = RecomputeHead(map, tail)
  BY HeadIs
<1>2. DOMAIN map = {} => h = tail
  BY <1>1 DEF RecomputeHead
<1>3. ASSUME NEW i \in DOMAIN map
      PROVE  \E st \in Nat, en \in Nat :
                /\ st = map[i].start /\ en = map[i].start + map[i].num
                /\ st < en /\ (en <= tail \/ st > tail)
  <2>1. PICK st \in Nat, m \in Nat \ {0} : st = map[i].start /\ m = map[i].num
    OBVIOUS
  <2>2. st + m <= tail \/ st > tail
    BY <2>1
  <2>. QED  BY <2>1, <2>2
<1>4. CASE \E j \in DOMAIN map : map[j].start >= tail
  <2>1. PICK j \in DOMAIN map : map[j].start >= tail
    BY <1>4
  <2>2. \A a \in DOMAIN map : map[a].start >= tail => h >= tail /\ map[a].start >= h
    BY <1>1, HeadIs
  <2>3. h > tail
    <3>1. PICK a \in DOMAIN map : map[a].start = h
      BY <1>1, <2>1, HeadIs
    <3>2. PICK x \in Nat, y \in Nat : x = h /\ x < y /\ (y <= tail \/ x > tail)
      BY <1>3, <3>1
    <3>3. h >= tail
      BY <2>1, <2>2
    <3>. QED  BY <3>2, <3>3
  <2>4. ASSUME NEW i \in DOMAIN map
        PROVE  h <= map[i].start \/ map[i].start + map[i].num <= tail
    <3>1. PICK st \in Nat, en \in Nat :
                /\ st = map[i].start /\ en = map[i].start + map[i].num
                /\ st < en /\ (en <= tail \/ st > tail)
      BY <1>3
    <3>2. st >= tail => st >= h
      BY <2>2, <3>1
    <3>. QED  BY <3>1, <3>2
  <2>. QED  BY <1>1, <1>2, <2>3, <2>4 DEF HeadFits
<1>5. CASE \A j \in DOMAIN map : ~(map[j].start >= tail)
  <2>1. \A j \in DOMAIN map : map[j].start < tail
    BY <1>5
  <2>2. \A j \in DOMAIN map : map[j].start >= h
    BY <1>1, <2>1, HeadIs
  <2>3. ASSUME NEW i \in DOMAIN map
        PROVE  h <= map[i].start /\ map[i].start + map[i].num <= tail /\ h <= tail
    <3>1. PICK st \in Nat, en \in Nat :
                /\ st = map[i].start /\ en = map[i].start + map[i].num
                /\ st < en /\ (en <= tail \/ st > tail)
      BY <1>3
    <3>2. st < tail /\ st >= h
      BY <2>1, <2>2, <3>1
    <3>. QED  BY <3>1, <3>2
  <2>4. h <= tail
    <3>1. CASE DOMAIN map = {}
      BY <1>2, <3>1
    <3>2. CASE DOMAIN map # {}
      BY <2>3, <3>2
    <3>. QED  BY <3>1, <3>2
  <2>. QED  BY <1>1, <1>2, <2>3, <2>4 DEF HeadFits
<1>. QED  BY <1>4, <1>5

(* A batch that is written leaves every live entry alone, and all of them  *)
(* lie as the head says.                                                   *)
LEMMA Clear ==
    ASSUME Excluded = Situation, RecordInv, NEW batch \in Seq(1..RingSize),
           NEW head \in Nat, HeadFits(slotMap, head, tailSlot),
           Roomy(batch, head), CanWriteAll(batch, head),
           NEW n, n = Len(batch), NEW t, t = TailAfter(batch)
    PROVE  /\ \A i \in DOMAIN slotMap, k \in 1..n :
                 \/ slotMap[i].start + slotMap[i].num <= t[k] - batch[k]
                 \/ t[k] <= slotMap[i].start
           /\ \A j \in 1..n, k \in 1..n :
                 j < k => t[j] <= t[k] - batch[k] \/ t[k] < t[j] - batch[j]
           /\ \/ /\ head <= t[n]
                 /\ \A i \in DOMAIN slotMap :
                       /\ head <= slotMap[i].start
                       /\ slotMap[i].start + slotMap[i].num <= t[n]
                 /\ \A k \in 1..n : head <= t[k] - batch[k] /\ t[k] <= t[n]
              \/ /\ t[n] < head
                 /\ \A i \in DOMAIN slotMap :
                       \/ head <= slotMap[i].start
                       \/ slotMap[i].start + slotMap[i].num <= t[n]
                 /\ \A k \in 1..n : head <= t[k] - batch[k] \/ t[k] <= t[n]
<1>1. tailSlot \in 0..RingSize /\ sizes \in Seq(1..RingSize)
  BY DEF RecordInv
<1>2. PICK w : Laid(n, batch, t, tailSlot, w) /\ (w <= n => Wraps(batch) # {})
  BY <1>1, BatchLaid
<1>3. /\ n \in Nat /\ tailSlot \in Nat /\ t[n] \in Nat /\ t[0] = tailSlot /\ w \in Nat
      /\ \A k \in 1..n : t[k] \in Nat /\ batch[k] \in Nat \ {0}
  BY <1>2, LaidIs
<1>4. /\ \A j \in 1..n, k \in 1..n :
            j < k => t[j] <= t[k] - batch[k] \/ t[k] < t[j] - batch[j]
      /\ \/ /\ tailSlot <= t[n]
            /\ \A k \in 1..n : tailSlot <= t[k] - batch[k] /\ t[k] <= t[n]
         \/ /\ t[n] < tailSlot
            /\ w <= n
            /\ \A k \in 1..n : tailSlot <= t[k] - batch[k] \/ t[k] <= t[n]
  BY <1>2, Lanes
<1>5. PICK T \in Nat, t0 \in Nat : T = t[n] /\ t0 = tailSlot
  BY <1>3
<1>6. ASSUME NEW k \in 1..n
      PROVE  \E x \in Nat, y \in Int : x = t[k] /\ y = t[k] - batch[k]
  BY <1>3
<1>7. ASSUME NEW i \in DOMAIN slotMap
      PROVE  \E st \in Nat, en \in Nat :
                st = slotMap[i].start /\ en = slotMap[i].start + slotMap[i].num
  <2>1. slotMap[i].start \in Nat /\ slotMap[i].num \in Nat
    BY RecordIs
  <2>. QED  BY <2>1
<1>8. CASE DOMAIN slotMap = {}
  <2>1. head = t0
    BY <1>5, <1>8 DEF HeadFits
  <2>. QED  BY <1>4, <1>5, <1>8, <2>1
<1>9. CASE DOMAIN slotMap # {}
  <2>1. slotMap # <<>>
    BY <1>9
  <2>2. T # head /\ ~(t0 < head /\ w <= n)
    <3>1. Placed(batch).tail = t[n]
      BY <1>1, PlacedIs
    <3>2. Placed(batch).tail # head /\ ~(tailSlot < head /\ Wraps(batch) # {})
      BY <2>1 DEF Roomy, Situation
    <3>. QED  BY <1>2, <1>5, <3>1, <3>2
  <2>3. t0 < head \/ w <= n => T < head
    <3>1. CASE n = 0
      <4>1. T = t0 /\ ~(w <= n)
        <5>1. w \in 1..n + 1
          BY <1>2 DEF Laid
        <5>. QED  BY <1>3, <1>5, <3>1, <5>1
      <4>. QED  BY <4>1
    <3>2. CASE n # 0
      <4>1. (tailSlot < head \/ Wraps(batch) # {}) => t[n] <= head
        BY <1>1, <2>1, <3>2, CanWriteIs
      <4>2. t0 < head \/ w <= n => T <= head
        BY <1>2, <1>5, <4>1
      <4>. QED  BY <1>5, <2>2, <4>2
    <3>. QED  BY <3>1, <3>2
  <2>4. CASE t0 < head /\ \A i \in DOMAIN slotMap :
                 head <= slotMap[i].start \/ slotMap[i].start + slotMap[i].num <= t0
    <3>1. T < head /\ t0 <= T
      BY <1>4, <1>5, <2>2, <2>3, <2>4
    <3>2. \A k \in 1..n : t0 <= t[k] - batch[k] /\ t[k] <= T
      BY <1>4, <1>5, <3>1
    <3>3. ASSUME NEW i \in DOMAIN slotMap
          PROVE  /\ head <= slotMap[i].start \/ slotMap[i].start + slotMap[i].num <= T
                 /\ \A k \in 1..n : \/ slotMap[i].start + slotMap[i].num <= t[k] - batch[k]
                                    \/ t[k] <= slotMap[i].start
      <4>1. PICK st \in Nat, en \in Nat :
                 st = slotMap[i].start /\ en = slotMap[i].start + slotMap[i].num
        BY <1>7
      <4>2. head <= st \/ en <= t0
        BY <2>4, <4>1
      <4>3. ASSUME NEW k \in 1..n
            PROVE  en <= t[k] - batch[k] \/ t[k] <= st
        <5>1. PICK x \in Nat, y \in Int : x = t[k] /\ y = t[k] - batch[k]
          BY <1>6
        <5>2. t0 <= y /\ x <= T
          BY <3>2, <5>1
        <5>3. en <= y \/ x <= st
          BY <3>1, <4>2, <5>2
        <5>. QED  BY <5>1, <5>3
      <4>4. head <= st \/ en <= T
        BY <3>1, <4>2
      <4>. QED  BY <4>1, <4>3, <4>4
    <3>. QED  BY <1>4, <1>5, <3>1, <3>2, <3>3
  <2>5. CASE head <= t0 /\ \A i \in DOMAIN slotMap :
                 head <= slotMap[i].start /\ slotMap[i].start + slotMap[i].num <= t0
    <3>1. CASE t0 <= T /\ \A k \in 1..n : t0 <= t[k] - batch[k] /\ t[k] <= T
      <4>1. ASSUME NEW i \in DOMAIN slotMap
            PROVE  /\ head <= slotMap[i].start /\ slotMap[i].start + slotMap[i].num <= T
                   /\ \A k \in 1..n : slotMap[i].start + slotMap[i].num <= t[k] - batch[k]
        <5>1. PICK st \in Nat, en \in Nat :
                   st = slotMap[i].start /\ en = slotMap[i].start + slotMap[i].num
          BY <1>7
        <5>2. head <= st /\ en <= t0 /\ en <= T
          BY <2>5, <3>1, <5>1
        <5>3. ASSUME NEW k \in 1..n
              PROVE  en <= t[k] - batch[k]
          <6>1. PICK x \in Nat, y \in Int : x = t[k] /\ y = t[k] - batch[k]
            BY <1>6
          <6>2. t0 <= y
            BY <3>1, <6>1
          <6>3. en <= y
            BY <5>2, <6>2
          <6>. QED  BY <6>1, <6>3
        <5>. QED  BY <5>1, <5>2, <5>3
      <4>2. ASSUME NEW k \in 1..n
            PROVE  head <= t[k] - batch[k] /\ t[k] <= T
        <5>1. PICK x \in Nat, y \in Int : x = t[k] /\ y = t[k] - batch[k]
          BY <1>6
        <5>2. t0 <= y /\ x <= T
          BY <3>1, <5>1
        <5>3. head <= y
          BY <2>5, <5>2
        <5>. QED  BY <5>1, <5>2, <5>3
      <4>3. head <= T
        BY <2>5, <3>1
      <4>. QED  BY <1>4, <1>5, <4>1, <4>2, <4>3
    <3>2. CASE /\ T < t0
               /\ w <= n
               /\ \A k \in 1..n : t0 <= t[k] - batch[k] \/ t[k] <= T
      <4>1. T < head
        BY <2>3, <3>2
      <4>2. ASSUME NEW i \in DOMAIN slotMap, NEW k \in 1..n
            PROVE  \/ slotMap[i].start + slotMap[i].num <= t[k] - batch[k]
                   \/ t[k] <= slotMap[i].start
        <5>1. PICK st \in Nat, en \in Nat :
                   st = slotMap[i].start /\ en = slotMap[i].start + slotMap[i].num
          BY <1>7
        <5>2. head <= st /\ en <= t0
          BY <2>5, <5>1
        <5>3. PICK x \in Nat, y \in Int : x = t[k] /\ y = t[k] - batch[k]
          BY <1>6
        <5>4. t0 <= y \/ x <= T
          BY <3>2, <5>3
        <5>5. en <= y \/ x <= st
          BY <4>1, <5>2, <5>4
        <5>. QED  BY <5>1, <5>3, <5>5
      <4>3. ASSUME NEW k \in 1..n
            PROVE  head <= t[k] - batch[k] \/ t[k] <= T
        <5>1. PICK x \in Nat, y \in Int : x = t[k] /\ y = t[k] - batch[k]
          BY <1>6
        <5>2. t0 <= y \/ x <= T
          BY <3>2, <5>1
        <5>3. head <= y \/ x <= T
          BY <2>5, <5>2
        <5>. QED  BY <5>1, <5>3
      <4>. QED  BY <1>4, <1>5, <2>5, <4>1, <4>2, <4>3
    <3>. QED  BY <1>4, <1>5, <3>1, <3>2
  <2>. QED  BY <1>5, <2>4, <2>5 DEF HeadFits
<1>. QED  BY <1>8, <1>9

(* The slots of a record. *)
LEMMA SlotIs ==
    ASSUME NEW r, r.start \in Nat, r.num \in Nat, NEW s \in SlotsOf(r)
    PROVE  s \in Int /\ r.start <= s /\ s < r.start + r.num
<1>1. PICK a \in Nat, b \in Nat : a = r.start /\ b = r.num
  OBVIOUS
<1>2. s \in a..a + b - 1
  BY <1>1 DEF SlotsOf
<1>3. s \in Int /\ a <= s /\ s < a + b
  BY <1>2
<1>. QED  BY <1>1, <1>3

(* A write keeps the live entries apart from the tail, what the head says  *)
(* of them and what the slots hold.                                        *)
LEMMA WriteKeepsRing ==
    ASSUME Excluded = Situation, RingInv, NEW batch \in Seq(1..RingSize),
           NEW head \in Nat, HeadFits(slotMap, head, tailSlot),
           Roomy(batch, head), CanWriteAll(batch, head), WriteBatch(batch)
    PROVE  AroundTail' /\ Intact' /\ HeadFits(slotMap', head, tailSlot')
<1>. PICK n \in Nat : n = Len(batch)
  OBVIOUS
<1>. PICK t : t = TailAfter(batch)
  OBVIOUS
<1>0. RecordInv /\ AroundTail /\ Intact /\ tailSlot \in 0..RingSize
  BY DEF RingInv, RecordInv
<1>. PICK L \in Nat : L = LastIndex
  BY <1>0 DEF RecordInv, LastIndex
<1>1. /\ LastIndex' = L + n /\ tailSlot' = t[n]
      /\ DOMAIN slotMap' = DOMAIN slotMap \cup (L + 1..L + n)
      /\ \A i \in DOMAIN slotMap : slotMap'[i] = slotMap[i]
      /\ \A i \in DOMAIN slotMap' : i \in DOMAIN slotMap \/ \E k \in 1..n : i = L + k
      /\ device' = Placed(batch).dev
  BY <1>0, WriteIs
<1>2. ASSUME NEW k \in 1..n
      PROVE  /\ slotMap'[L + k] = NewRecords(batch)[k]
             /\ slotMap'[L + k].start \in Nat /\ slotMap'[L + k].num \in Nat \ {0}
             /\ slotMap'[L + k].num = batch[k]
             /\ slotMap'[L + k].start + slotMap'[L + k].num = t[k]
             /\ t[k] \in Nat /\ slotMap'[L + k].start = t[k] - batch[k]
  <2>0. RingSize \in Nat
    BY RingSlotsAssumptions
  <2>1. slotMap'[L + k] = NewRecords(batch)[k]
    BY <1>0, WriteIs
  <2>. PICK r : r = slotMap'[L + k]
    OBVIOUS
  <2>2. r \in RecordSet /\ r.num = batch[k] /\ r.start + r.num = t[k]
    BY <1>0, <2>1, NewRecordIs
  <2>3. r.start \in Nat /\ r.num \in Nat \ {0}
    BY <2>0, <2>2 DEF RecordSet
  <2>4. r.start = t[k] - batch[k] /\ t[k] \in Nat
    BY <1>0, <2>1, BatchStart
  <2>. QED  BY <2>1, <2>2, <2>3, <2>4
<1>3. /\ \A i \in DOMAIN slotMap, k \in 1..n :
            \/ slotMap[i].start + slotMap[i].num <= t[k] - batch[k]
            \/ t[k] <= slotMap[i].start
      /\ \A j \in 1..n, k \in 1..n :
            j < k => t[j] <= t[k] - batch[k] \/ t[k] < t[j] - batch[j]
      /\ \/ /\ head <= t[n]
            /\ \A i \in DOMAIN slotMap : /\ head <= slotMap[i].start
                                          /\ slotMap[i].start + slotMap[i].num <= t[n]
            /\ \A k \in 1..n : head <= t[k] - batch[k] /\ t[k] <= t[n]
         \/ /\ t[n] < head
            /\ \A i \in DOMAIN slotMap : \/ head <= slotMap[i].start
                                          \/ slotMap[i].start + slotMap[i].num <= t[n]
            /\ \A k \in 1..n : head <= t[k] - batch[k] \/ t[k] <= t[n]
  BY <1>0, Clear
<1>4. HeadFits(slotMap', head, tailSlot')
  <2>1. DOMAIN slotMap' = {} => head = tailSlot'
    <3>1. DOMAIN slotMap' = {} => DOMAIN slotMap = {} /\ n = 0
      <4>1. n # 0 => L + 1 \in L + 1..L + n
        OBVIOUS
      <4>. QED  BY <1>1, <4>1
    <3>2. t[0] = tailSlot
      BY <1>0, TailIs
    <3>. QED  BY <1>1, <3>1, <3>2 DEF HeadFits
  <2>2. CASE /\ head <= t[n]
             /\ \A i \in DOMAIN slotMap : /\ head <= slotMap[i].start
                                           /\ slotMap[i].start + slotMap[i].num <= t[n]
             /\ \A k \in 1..n : head <= t[k] - batch[k] /\ t[k] <= t[n]
    <3>1. \A k \in 1..n : /\ head <= slotMap'[L + k].start
                          /\ slotMap'[L + k].start + slotMap'[L + k].num <= t[n]
      <4>. TAKE k \in 1..n
      <4>1. /\ slotMap'[L + k].start = t[k] - batch[k]
            /\ slotMap'[L + k].start + slotMap'[L + k].num = t[k]
        BY <1>2, Zenon
      <4>2. head <= t[k] - batch[k] /\ t[k] <= t[n]
        BY <2>2, Zenon
      <4>. QED  BY <4>1, <4>2, Zenon
    <3>2. \A i \in DOMAIN slotMap' : /\ head <= slotMap'[i].start
                                     /\ slotMap'[i].start + slotMap'[i].num <= t[n]
      BY <1>1, <2>2, <3>1
    <3>. QED  BY <1>1, <2>1, <2>2, <3>2 DEF HeadFits
  <2>3. CASE /\ t[n] < head
             /\ \A i \in DOMAIN slotMap : \/ head <= slotMap[i].start
                                           \/ slotMap[i].start + slotMap[i].num <= t[n]
             /\ \A k \in 1..n : head <= t[k] - batch[k] \/ t[k] <= t[n]
    <3>1. \A k \in 1..n : \/ head <= slotMap'[L + k].start
                          \/ slotMap'[L + k].start + slotMap'[L + k].num <= t[n]
      <4>. TAKE k \in 1..n
      <4>1. /\ slotMap'[L + k].start = t[k] - batch[k]
            /\ slotMap'[L + k].start + slotMap'[L + k].num = t[k]
        BY <1>2, Zenon
      <4>2. head <= t[k] - batch[k] \/ t[k] <= t[n]
        BY <2>3, Zenon
      <4>. QED  BY <4>1, <4>2, Zenon
    <3>2. \A i \in DOMAIN slotMap' : \/ head <= slotMap'[i].start
                                     \/ slotMap'[i].start + slotMap'[i].num <= t[n]
      BY <1>1, <2>3, <3>1
    <3>. QED  BY <1>1, <2>1, <2>3, <3>2 DEF HeadFits
  <2>. QED  BY <1>3, <2>2, <2>3
<1>5. AroundTail'
  <2>. SUFFICES ASSUME NEW i \in DOMAIN slotMap'
                PROVE  \/ slotMap'[i].start + slotMap'[i].num <= tailSlot'
                       \/ slotMap'[i].start > tailSlot'
    BY DEF AroundTail
  <2>1. slotMap'[i].start \in Nat
    <3>1. CASE i \in DOMAIN slotMap
      BY <1>0, <1>1, <3>1, RecordIs
    <3>2. CASE i \notin DOMAIN slotMap
      BY <1>1, <1>2, <3>2
    <3>. QED  BY <3>1, <3>2
  <2>2. tailSlot' \in Nat
    BY <1>0, RingSlotsAssumptions, WriteKeepsRecords
  <2>3. \/ slotMap'[i].start + slotMap'[i].num <= tailSlot'
        \/ tailSlot' < head /\ head <= slotMap'[i].start
    BY <1>4 DEF HeadFits
  <2>. QED  BY <2>1, <2>2, <2>3
<1>6. ASSUME NEW k \in 1..n, NEW s \in SlotsOf(NewRecords(batch)[k])
      PROVE  /\ s \in Int /\ t[k] - batch[k] \in Nat /\ t[k] \in Nat
             /\ t[k] - batch[k] <= s /\ s < t[k]
  <2>1. /\ NewRecords(batch)[k].start = t[k] - batch[k]
        /\ NewRecords(batch)[k].start \in Nat /\ t[k] \in Nat
        /\ NewRecords(batch)[k].start + NewRecords(batch)[k].num = t[k]
    BY <1>2
  <2>2. NewRecords(batch)[k].num \in Nat
    BY <1>2
  <2>3. /\ s \in Int /\ NewRecords(batch)[k].start <= s
        /\ s < NewRecords(batch)[k].start + NewRecords(batch)[k].num
    BY <2>1, <2>2, SlotIs
  <2>. QED  BY <2>1, <2>3
<1>7. Intact'
  <2>. SUFFICES ASSUME NEW i \in DOMAIN slotMap', NEW s \in SlotsOf(slotMap'[i])
                PROVE  device'[s] = i
    BY DEF Intact, SlotsOf
  <2>0. RingSize \in Nat
    BY RingSlotsAssumptions
  <2>1. CASE i \in DOMAIN slotMap
    <3>. PICK st \in Nat, en \in Nat :
              st = slotMap[i].start /\ en = slotMap[i].start + slotMap[i].num /\ en <= RingSize
      <4>1. slotMap[i].start \in Nat /\ slotMap[i].num \in Nat
        BY <1>0, <2>1, RecordIs
      <4>2. slotMap[i].start + slotMap[i].num \in Nat
        BY <4>1
      <4>. QED  BY <1>0, <2>1, <4>1, <4>2, RecordIs
    <3>1. s \in SlotsOf(slotMap[i])
      BY <1>1, <2>1
    <3>2. slotMap[i].start \in Nat /\ slotMap[i].num \in Nat
      BY <1>0, <2>1, RecordIs
    <3>3. s \in Int /\ st <= s /\ s < en
      BY <3>1, <3>2, SlotIs
    <3>4. s \in Slot
      BY <2>0, <3>3 DEF Slot
    <3>5. ASSUME NEW k \in 1..n, s \in SlotsOf(NewRecords(batch)[k])
          PROVE  FALSE
      <4>1. PICK x \in Nat, y \in Nat : x = t[k] /\ y = t[k] - batch[k] /\ y <= s /\ s < x
        BY <1>6, <3>5
      <4>2. en <= y \/ x <= st
        BY <1>3, <2>1, <4>1
      <4>. QED  BY <3>3, <4>1, <4>2
    <3>6. device'[s] = device[s]
      BY <1>1, <3>4, <3>5, WrittenIs
    <3>. QED  BY <1>0, <2>1, <3>1, <3>6 DEF Intact
  <2>2. CASE i \notin DOMAIN slotMap
    <3>1. PICK k \in 1..n : i = L + k
      BY <1>1, <2>2
    <3>2. s \in SlotsOf(NewRecords(batch)[k])
      BY <1>2, <3>1
    <3>3. PICK x \in Nat, y \in Nat : x = t[k] /\ y = t[k] - batch[k] /\ y <= s /\ s < x
      BY <1>6, <3>2
    <3>4. s \in Slot
      <4>1. t[k] \in 0..RingSize
        BY <1>0, NewRecordIs
      <4>2. s \in Int
        BY <1>6, <3>2
      <4>. QED  BY <2>0, <3>3, <4>1, <4>2 DEF Slot
    <3>5. ASSUME NEW j \in k + 1..n, s \in SlotsOf(NewRecords(batch)[j])
          PROVE  FALSE
      <4>0. j \in 1..n /\ k < j
        OBVIOUS
      <4>1. PICK a \in Nat, b \in Nat : a = t[j] /\ b = t[j] - batch[j] /\ b <= s /\ s < a
        BY <1>6, <3>5, <4>0
      <4>2. x <= b \/ a < y
        BY <1>3, <3>3, <4>0, <4>1
      <4>3. s \in Int
        BY <1>6, <3>2
      <4>. QED  BY <3>3, <4>1, <4>2, <4>3
    <3>6. device'[s] = L + k
      BY <1>1, <3>2, <3>4, <3>5, WrittenIs
    <3>. QED  BY <3>1, <3>6
  <2>. QED  BY <2>1, <2>2
<1>. QED  BY <1>4, <1>5, <1>7

(* An entry taken aside from the live ones leaves them as they are. *)
LEMMA CopyKeepsRing ==
    ASSUME Excluded = Situation, RingInv, NEW s0 \in Slot, NEW m \in 1..RingSize,
           FollowerAppend(s0, m)
    PROVE  AroundTail' /\ Intact'
<1>0. RecordInv /\ AroundTail /\ Intact
  BY DEF RingInv
<1>1. /\ slotMap' = slotMap /\ tailSlot' = CopyTail(s0, m) /\ Aside(s0, m)
      /\ device' = [x \in Slot |-> IF x \in s0..s0 + m - 1 THEN LastIndex + 1 ELSE device[x]]
  BY DEF FollowerAppend
<1>2. RingSize \in Nat /\ s0 \in Nat /\ m \in Nat
  BY RingSlotsAssumptions DEF Slot
<1>3. ASSUME NEW i \in DOMAIN slotMap
      PROVE  \E st \in Nat, num \in Nat :
                /\ st = slotMap[i].start /\ num = slotMap[i].num /\ st + num <= RingSize
                /\ st + num <= s0 \/ s0 + m <= st
                /\ st + num <= CopyTail(s0, m) \/ CopyTail(s0, m) < st
  <2>1. slotMap[i].start \in Nat /\ slotMap[i].num \in Nat
        /\ slotMap[i].start + slotMap[i].num <= RingSize
    BY <1>0, RecordIs
  <2>. QED  BY <1>1, <2>1 DEF Aside, Situation
<1>4. CopyTail(s0, m) \in Nat
  BY <1>2 DEF CopyTail
<1>5. AroundTail'
  <2>. SUFFICES ASSUME NEW i \in DOMAIN slotMap
                PROVE  \/ slotMap[i].start + slotMap[i].num <= tailSlot'
                       \/ slotMap[i].start > tailSlot'
    BY <1>1 DEF AroundTail
  <2>1. PICK st \in Nat, num \in Nat, z \in Nat :
                /\ st = slotMap[i].start /\ num = slotMap[i].num /\ z = tailSlot'
                /\ st + num <= z \/ z < st
    BY <1>1, <1>3, <1>4
  <2>. QED  BY <2>1
<1>6. Intact'
  <2>. SUFFICES ASSUME NEW i \in DOMAIN slotMap, NEW s \in SlotsOf(slotMap[i])
                PROVE  device'[s] = i
    BY <1>1 DEF Intact, SlotsOf
  <2>1. PICK st \in Nat, num \in Nat :
                /\ st = slotMap[i].start /\ num = slotMap[i].num /\ st + num <= RingSize
                /\ st + num <= s0 \/ s0 + m <= st
    BY <1>3
  <2>2. s \in Int /\ st <= s /\ s < st + num
    BY <2>1, SlotIs
  <2>3. s \in Slot
    BY <1>2, <2>1, <2>2 DEF Slot
  <2>4. s \notin s0..s0 + m - 1
    BY <1>2, <2>1, <2>2
  <2>5. device'[s] = device[s]
    BY <1>1, <2>3, <2>4
  <2>. QED  BY <1>0, <2>5 DEF Intact
<1>. QED  BY <1>5, <1>6

(* Every action keeps RingInv. *)
LEMMA RingStep ==
    ASSUME Excluded = Situation, RingInv, [Next]_vars
    PROVE  RingInv'
<1>0. /\ RecordInv /\ AroundTail /\ Intact
      /\ leading => HeadFits(slotMap, headSlot, tailSlot)
  BY DEF RingInv
<1>1. RecordInv'
  BY <1>0, RecordStep
<1>2. ASSUME NEW batch \in Seq(1..RingSize), headSlot' \in Nat,
             HeadFits(slotMap, headSlot', tailSlot), Roomy(batch, headSlot'),
             CanWriteAll(batch, headSlot'), WriteBatch(batch)
      PROVE  AroundTail' /\ Intact' /\ HeadFits(slotMap', headSlot', tailSlot')
  BY <1>2, WriteKeepsRing
<1>3. CASE BecomeLeader
  <2>1. PICK h : h = headSlot'
    OBVIOUS
  <2>2. Roomy(<<1>>, h) /\ WriteBatch(<<1>>) /\ h = RecomputeHead(slotMap, tailSlot)
    BY <1>3, <2>1 DEF BecomeLeader
  <2>3. CanWriteAll(<<1>>, h)
    <3>1. slotMap # <<>> => CanWriteAll(<<1>>, h)
      BY <2>2 DEF Roomy, Situation
    <3>2. slotMap = <<>> => CanWriteAll(<<1>>, h)
      BY DEF CanWriteAll
    <3>. QED  BY <3>1, <3>2
  <2>4. h \in Nat /\ HeadFits(slotMap, h, tailSlot)
    <3>1. \A i \in DOMAIN slotMap : /\ slotMap[i].start \in Nat
                                    /\ slotMap[i].num \in Nat \ {0}
                                    /\ \/ slotMap[i].start + slotMap[i].num <= tailSlot
                                       \/ slotMap[i].start > tailSlot
      BY <1>0, RecordIs DEF AroundTail
    <3>. QED  BY <1>0, <2>2, <3>1, StartsAre, HeadFound
  <2>. QED  BY <1>1, <1>2, <2>1, <2>2, <2>3, <2>4, NoopIs DEF RingInv
<1>4. ASSUME NEW batch \in Batches, Apply(batch)
      PROVE  RingInv'
  <2>1. /\ Roomy(batch, headSlot) /\ WriteBatch(batch) /\ CanWriteAll(batch, headSlot)
        /\ headSlot' = headSlot /\ leading
    BY <1>4 DEF Apply
  <2>2. headSlot \in Nat
    BY <1>0 DEF RecordInv
  <2>. QED  BY <1>0, <1>1, <1>2, <2>1, <2>2, BatchIs DEF RingInv
<1>5. ASSUME NEW s \in Slot, NEW n \in 1..RingSize, FollowerAppend(s, n)
      PROVE  RingInv'
  <2>1. ~leading'
    BY <1>5 DEF FollowerAppend
  <2>2. AroundTail' /\ Intact'
    BY <1>5, CopyKeepsRing
  <2>. QED  BY <1>1, <2>1, <2>2 DEF RingInv
<1>6. CASE DoSlotGc
  <2>1. slotMap' = Unfreed /\ tailSlot' = tailSlot /\ device' = device
    BY <1>6 DEF DoSlotGc
  <2>2. /\ DOMAIN slotMap' \subseteq DOMAIN slotMap
        /\ \A i \in DOMAIN slotMap' : slotMap'[i] = slotMap[i]
    BY <1>0, <2>1, UnfreedIs
  <2>3. AroundTail'
    BY <1>0, <2>1, <2>2 DEF AroundTail
  <2>4. Intact'
    BY <1>0, <2>1, <2>2 DEF Intact, SlotsOf
  <2>5. HeadFits(slotMap', headSlot', tailSlot')
    <3>1. CASE slotMap' = slotMap
      BY <1>0, <1>6, <3>1 DEF DoSlotGc
    <3>2. CASE slotMap' # slotMap
      <4>1. headSlot' = RecomputeHead(slotMap', tailSlot)
        BY <1>6, <3>2 DEF DoSlotGc
      <4>2. \A i \in DOMAIN slotMap' : /\ slotMap'[i].start \in Nat
                                       /\ slotMap'[i].num \in Nat \ {0}
                                       /\ \/ slotMap'[i].start + slotMap'[i].num <= tailSlot
                                          \/ slotMap'[i].start > tailSlot
        <5>1. \A i \in DOMAIN slotMap : /\ slotMap[i].start \in Nat
                                        /\ slotMap[i].num \in Nat \ {0}
          BY <1>0, RecordIs
        <5>. QED  BY <1>0, <2>2, <5>1 DEF AroundTail
      <4>. QED  BY <1>0, <2>1, <4>1, <4>2, StartsAre, HeadFound
    <3>. QED  BY <3>1, <3>2
  <2>. QED  BY <1>1, <2>3, <2>4, <2>5 DEF RingInv
<1>7. CASE UNCHANGED <<tailSlot, headSlot, slotMap, device>> /\ (leading' => leading)
  <2>1. AroundTail'
    BY <1>0, <1>7 DEF AroundTail
  <2>2. Intact'
    BY <1>0, <1>7 DEF Intact, SlotsOf
  <2>3. leading' => HeadFits(slotMap', headSlot', tailSlot')
    BY <1>0, <1>7
  <2>. QED  BY <1>1, <2>1, <2>2, <2>3 DEF RingInv
<1>8. StepDown => UNCHANGED <<tailSlot, headSlot, slotMap, device>> /\ (leading' => leading)
  BY DEF StepDown
<1>9. \A m \in 1..LastIndex : Confirm(m) =>
         UNCHANGED <<tailSlot, headSlot, slotMap, device>> /\ (leading' => leading)
  BY DEF Confirm
<1>10. UNCHANGED vars =>
          UNCHANGED <<tailSlot, headSlot, slotMap, device>> /\ (leading' => leading)
  BY DEF vars
<1>. QED  BY <1>3, <1>4, <1>5, <1>6, <1>7, <1>8, <1>9, <1>10 DEF Next

(* The situations of Situation are the only ways to lose a live entry: as  *)
(* long as none of them occurs, can_write_all, persist_circular and a      *)
(* follower's copies never overwrite one, for every ring, list of extents, *)
(* size and number of commands, and every sequence of leaderships.         *)
THEOREM LiveEntriesKept == Excluded = Situation => (Spec => []LiveSlotsIntact)
<1>1. ASSUME Excluded = Situation
      PROVE  Spec => []LiveSlotsIntact
  <2>1. Init => RingInv
    <3>. SUFFICES ASSUME Init PROVE RingInv
      OBVIOUS
    <3>1. DOMAIN slotMap = {} /\ ~leading
      BY DEF Init
    <3>. QED  BY <3>1, RecordInit DEF RingInv, AroundTail, Intact
  <2>2. RingInv /\ [Next]_vars => RingInv'
    BY <1>1, RingStep
  <2>3. RingInv => LiveSlotsIntact
    BY DEF RingInv, Intact, SlotsOf, LiveSlotsIntact
  <2>. QED  BY <2>1, <2>2, <2>3, PTL DEF Spec
<1>. QED  BY <1>1
=============================================================================
