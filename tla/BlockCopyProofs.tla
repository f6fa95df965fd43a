--------------------------- MODULE BlockCopyProofs ---------------------------
(***************************************************************************)
(* Proofs about BlockCopy, for every ring, page size, list of extents and  *)
(* set of batches, and every number of requests, workers, buffers and      *)
(* volumes: the chunks tile their batch and every buffer is in one place.  *)
(* If no page reaches past the ring's end and no copy outlives its caller, *)
(* a volume keeps what a success has promised.  The run storage_copies has *)
(* both as assumptions too.                                                *)
(***************************************************************************)
EXTENDS BlockCopy, FiniteSetTheorems, WellFoundedInduction, TLAPS

(* A set of natural numbers has a least element. *)
LEMMA LeastExists ==
    ASSUME NEW S \in SUBSET Nat, S # {}
    PROVE  \E x \in S : \A y \in S : x <= y
<1>. DEFINE T == {0..x : x \in S}
            R == StrictSubsetOrdering(Nat)
<1>1. IsWellFoundedOn(R, FiniteSubsetsOf(Nat))
  BY FS_StrictSubsetOrderingWellFounded
<1>2. T \subseteq FiniteSubsetsOf(Nat) /\ T # {}
  <2>1. \A x \in S : 0..x \subseteq Nat /\ IsFiniteSet(0..x)
    BY FS_Interval
  <2>. QED  BY <2>1 DEF FiniteSubsetsOf
<1>3. \E u \in T : \A v \in T : ~(<<v, u>> \in R)
  <2>. HIDE DEF T, R
  <2>. QED  BY <1>1, <1>2, WFMin
<1>4. PICK x \in S : \A v \in T : ~(<<v, 0..x>> \in R)
  BY <1>3
<1>5. ASSUME NEW y \in S, ~(x <= y)
      PROVE  FALSE
  <2>1. x \in Nat /\ y \in Nat /\ y < x
    BY <1>5
  <2>2. 0..y \subseteq 0..x /\ x \in 0..x /\ x \notin 0..y
    BY <2>1
  <2>3. 0..y \in SUBSET Nat /\ 0..x \in SUBSET Nat /\ 0..y # 0..x
    BY <2>1, <2>2
  <2>4. <<0..y, 0..x>> \in R
    BY <2>2, <2>3 DEF StrictSubsetOrdering
  <2>. QED  BY <1>4, <2>4
<1>. QED  BY <1>5

(* Min is the least element. *)
LEMMA MinIs ==
    ASSUME NEW S \in SUBSET Nat, S # {}
    PROVE  Min(S) \in S /\ \A y \in S : Min(S) <= y
BY LeastExists DEF Min

(* Max is the greatest element of a bounded set. *)
LEMMA MaxIs ==
    ASSUME NEW n \in Nat, NEW S \in SUBSET (0..n), S # {}
    PROVE  Max(S) \in S /\ \A y \in S : y <= Max(S)
<1>. DEFINE T == {n - x : x \in S}
<1>1. T \in SUBSET Nat /\ T # {}
  <2>1. \A x \in S : n - x \in Nat
    OBVIOUS
  <2>. QED  BY <2>1
<1>2. PICK z \in T : \A y \in T : z <= y
  <2>. HIDE DEF T
  <2>. QED  BY <1>1, LeastExists
<1>3. PICK x \in S : z = n - x
  OBVIOUS
<1>4. ASSUME NEW y \in S
      PROVE  x >= y
  <2>1. n - y \in T
    OBVIOUS
  <2>2. n - x <= n - y
    BY <1>2, <1>3, <2>1
  <2>. QED  BY <2>2
<1>5. Max(S) \in S /\ \A y \in S : Max(S) >= y
  BY <1>4 DEF Max
<1>. QED  BY <1>5

-----------------------------------------------------------------------------
(* Whole numbers *)

(* Division with remainder. *)
LEMMA Division ==
    ASSUME NEW S \in Nat \ {0}, NEW a \in Nat
    PROVE  \E p \in Int, r \in 0..S - 1 : r = a % S /\ a = S * p + r
<1>1. a \div S \in Int /\ a % S \in 0..S - 1
  OBVIOUS
<1>2. a = S * (a \div S) + (a % S)
  OBVIOUS
<1>. QED  BY <1>1, <1>2

(* Quotient and remainder are unique. *)
LEMMA DivisionUnique ==
    ASSUME NEW S \in Nat \ {0}, NEW p \in Int, NEW q \in Int,
           NEW r \in 0..S - 1, NEW t \in 0..S - 1, S * p + r = S * q + t
    PROVE  p = q /\ r = t
<1>1. ASSUME p < q
      PROVE  FALSE
  <2>1. p + 1 <= q
    BY <1>1
  <2>2. S * (p + 1) <= S * q
    BY <2>1
  <2>3. S * (p + 1) = S * p + S
    OBVIOUS
  <2>4. S * p \in Int /\ S * q \in Int
    OBVIOUS
  <2>. QED  BY <2>2, <2>3, <2>4
<1>2. ASSUME q < p
      PROVE  FALSE
  <2>1. q + 1 <= p
    BY <1>2
  <2>2. S * (q + 1) <= S * p
    BY <2>1
  <2>3. S * (q + 1) = S * q + S
    OBVIOUS
  <2>4. S * p \in Int /\ S * q \in Int
    OBVIOUS
  <2>. QED  BY <2>2, <2>3, <2>4
<1>. QED  BY <1>1, <1>2

(* A step of S leaves the remainder. *)
LEMMA ModStep ==
    ASSUME NEW S \in Nat \ {0}, NEW a \in Nat
    PROVE  (a + S) % S = a % S
<1>1. PICK p \in Int, r \in 0..S - 1 : r = a % S /\ a = S * p + r
  BY Division
<1>2. a + S \in Nat
  OBVIOUS
<1>3. PICK q \in Int, t \in 0..S - 1 : t = (a + S) % S /\ a + S = S * q + t
  BY <1>2, Division
<1>4. S * (p + 1) = S * p + S /\ S * p \in Int /\ S * q \in Int /\ S * (p + 1) \in Int
  OBVIOUS
<1>5. S * (p + 1) + r = S * q + t
  BY <1>1, <1>3, <1>4
<1>6. PICK pp \in Int : pp = p + 1
  OBVIOUS
<1>7. S * pp + r = S * q + t
  BY <1>5, <1>6
<1>8. r = t
  BY <1>7, DivisionUnique
<1>. QED  BY <1>1, <1>3, <1>8

(* Two numbers with one remainder are S apart. *)
LEMMA ModApart ==
    ASSUME NEW S \in Nat \ {0}, NEW a \in Nat, NEW b \in Nat, a % S = b % S, a < b
    PROVE  a + S <= b
<1>. PICK p \in Int, r \in 0..S - 1 : p = a \div S /\ r = a % S /\ a = S * p + r
  OBVIOUS
<1>. PICK q \in Int : q = b \div S /\ b = S * q + r
  OBVIOUS
<1>1. S * p \in Int /\ S * q \in Int /\ S * p < S * q
  OBVIOUS
<1>2. p < q
  <2>1. ASSUME q <= p
        PROVE  FALSE
    <3>1. S * q <= S * p
      BY <2>1
    <3>. QED  BY <1>1, <3>1
  <2>. QED  BY <2>1
<1>3. S * (p + 1) <= S * q
  BY <1>2
<1>4. S * (p + 1) = S * p + S
  OBVIOUS
<1>. QED  BY <1>1, <1>3, <1>4

(* Every number has the remainder of one of 1..S. *)
LEMMA ModOfOne ==
    ASSUME NEW S \in Nat \ {0}, NEW a \in Nat
    PROVE  \E w \in 1..S : w % S = a % S
<1>1. a % S \in 0..S - 1
  OBVIOUS
<1>2. CASE a % S = 0
  <2>1. S % S = 0
    <3>1. (0 + S) % S = 0 % S
      BY ModStep
    <3>2. 0 % S = 0
      OBVIOUS
    <3>. QED  BY <3>1, <3>2
  <2>. QED  BY <1>2, <2>1
<1>3. CASE a % S # 0
  <2>. PICK w \in 1..S - 1 : w = a % S
    BY <1>1, <1>3
  <2>1. w % S = w
    OBVIOUS
  <2>. QED  BY <2>1
<1>. QED  BY <1>2, <1>3

(* Rounding up to a page adds less than a page (do_pba_copy). *)
LEMMA AlignUpCovers ==
    ASSUME NEW n \in Nat
    PROVE  AlignUp(n) \in Nat /\ n <= AlignUp(n) /\ AlignUp(n) < n + PageSlots
<1>1. PageSlots \in Nat \ {0}
  BY BlockCopyAssumptions
<1>. PICK a \in Nat : a = n + PageSlots - 1
  BY <1>1
<1>. PICK q \in Nat : q = a \div PageSlots
  BY <1>1
<1>2. q * PageSlots <= a /\ a < q * PageSlots + PageSlots
  BY <1>1
<1>3. AlignUp(n) = q * PageSlots
  BY <1>1 DEF AlignUp
<1>4. q * PageSlots \in Nat
  BY <1>1
<1>. QED  BY <1>1, <1>2, <1>3, <1>4

-----------------------------------------------------------------------------
(* The chunks of a batch *)

(* RemainingAt reaches to the next extent or to the ring's end. *)
LEMMA RemainingIs ==
    ASSUME NEW s \in Slot
    PROVE  /\ RemainingAt(s) \in Nat \ {0}
           /\ s + RemainingAt(s) <= RingSize
           /\ \A e \in ExtentStart : ~(s < e /\ e < s + RemainingAt(s))
<1>. DEFINE B == {b \in ExtentStart \cup {RingSize} : b > s}
<1>1. RingSize \in Nat \ {0} /\ ExtentStart \subseteq 1..RingSize - 1
  BY BlockCopyAssumptions
<1>2. s \in Nat /\ s < RingSize
  BY <1>1 DEF Slot
<1>3. B \in SUBSET Nat /\ RingSize \in B
  <2>1. \A b \in ExtentStart \cup {RingSize} : b \in Nat
    BY <1>1
  <2>2. RingSize > s
    BY <1>1, <1>2
  <2>. QED  BY <2>1, <2>2
<1>. HIDE DEF B
<1>4. Min(B) \in B /\ \A y \in B : Min(B) <= y
  BY <1>3, MinIs
<1>5. PICK m \in Nat : m = Min(B) /\ m > s /\ m <= RingSize
  BY <1>3, <1>4 DEF B
<1>6. RemainingAt(s) = m - s
  BY <1>5 DEF RemainingAt, B
<1>7. ASSUME NEW e \in ExtentStart, s < e, e < m
      PROVE  FALSE
  <2>1. e \in B
    BY <1>7 DEF B
  <2>. QED  BY <1>1, <1>4, <1>5, <1>7, <2>1
<1>. QED  BY <1>1, <1>2, <1>5, <1>6, <1>7

(* One round of the loop: the chunk is not empty, stays inside its extent, *)
(* the ring, what is left and the largest chunk, and less is left.         *)
LEMMA ChunkIs ==
    ASSUME NEW k \in Loop, k.remaining > 0
    PROVE  /\ Chunk(k) \in [src : Nat, dst : Slot, n : 1..MaxChunk]
           /\ Chunk(k).src = k.cur_src
           /\ k.cur_slot < RingSize => Chunk(k).dst = k.cur_slot
           /\ Chunk(k).n <= k.remaining
           /\ Chunk(k).dst + Chunk(k).n <= RingSize
           /\ \A e \in ExtentStart : ~(Chunk(k).dst < e /\ e < Chunk(k).dst + Chunk(k).n)
           /\ After(k) \in Loop
           /\ After(k).remaining < k.remaining
<1>1. RingSize \in Nat \ {0} /\ MaxChunk \in Nat \ {0} /\ PageSlots \in Nat
  BY BlockCopyAssumptions
<1>2. /\ k.remaining \in Nat /\ k.remaining <= RingSize + PageSlots
      /\ k.cur_slot \in 0..RingSize /\ k.cur_src \in Nat
  BY <1>1 DEF Loop
<1>3. PICK s \in Slot : s = IF k.cur_slot >= RingSize THEN 0 ELSE k.cur_slot
  BY <1>1, <1>2 DEF Slot
<1>4. s \in Nat /\ s < RingSize
  BY <1>1 DEF Slot
<1>5. PICK r \in Nat \ {0} : /\ r = RemainingAt(s)
                             /\ s + r <= RingSize
                             /\ \A e \in ExtentStart : ~(s < e /\ e < s + r)
  BY RemainingIs
<1>6. PICK S \in SUBSET Nat : S = {r, k.remaining, RingSize - s, MaxChunk}
  <2>1. r \in Nat /\ k.remaining \in Nat /\ RingSize - s \in Nat /\ MaxChunk \in Nat
    BY <1>1, <1>2, <1>4
  <2>. QED  BY <2>1
<1>7. Min(S) \in S /\ \A y \in S : Min(S) <= y
  BY <1>6, MinIs
<1>8. PICK n \in Nat : n = Min(S)
  BY <1>7
<1>9. /\ n > 0 /\ n <= r /\ n <= k.remaining /\ n <= RingSize - s /\ n <= MaxChunk
  BY <1>1, <1>2, <1>4, <1>6, <1>7, <1>8
<1>10. Chunk(k) = [src |-> k.cur_src, dst |-> s, n |-> n]
  BY <1>3, <1>5, <1>6, <1>8 DEF Chunk, ChunkAt
<1>11. After(k) = [remaining |-> k.remaining - n, cur_slot |-> s + n, cur_src |-> k.cur_src + n]
  BY <1>10 DEF After
<1>12. After(k) \in Loop /\ After(k).remaining < k.remaining
  BY <1>1, <1>2, <1>4, <1>9, <1>11 DEF Loop
<1>13. \A e \in ExtentStart : ~(s < e /\ e < s + n)
  <2>1. ExtentStart \subseteq Nat
    BY <1>1, BlockCopyAssumptions
  <2>. QED  BY <1>4, <1>5, <1>9, <2>1
<1>14. Chunk(k) \in [src : Nat, dst : Slot, n : 1..MaxChunk]
  BY <1>1, <1>2, <1>9, <1>10
<1>. QED  BY <1>1, <1>2, <1>3, <1>4, <1>9, <1>10, <1>12, <1>13, <1>14

(* What Cut makes of one round, if g is what it makes of the rest. *)
Round(g, k) == IF k.remaining = 0 THEN <<>> ELSE <<Chunk(k)>> \o g[After(k)]

Upto(n) == {k \in Loop : k.remaining <= n}

(* The recursion of Cut comes to an end: a function like it exists, first  *)
(* for a remainder of up to n, then for all.                               *)
LEMMA CutExists == \E g : g = [k \in Loop |-> Round(g, k)]
<1>. DEFINE Has(n) == \E g : g = [k \in Upto(n) |-> Round(g, k)]
            Bad == {n \in Nat : ~Has(n)}
<1>1. RingSize + PageSlots \in Nat
  BY BlockCopyAssumptions
<1>2. \A k \in Loop : k.remaining \in Nat /\ k.remaining <= RingSize + PageSlots
  BY <1>1 DEF Loop
<1>3. Has(0)
  <2>. DEFINE g == [k \in Upto(0) |-> <<>>]
  <2>1. \A k \in Upto(0) : Round(g, k) = <<>>
    BY <1>2 DEF Upto, Round
  <2>2. g = [k \in Upto(0) |-> Round(g, k)]
    BY <2>1
  <2>. QED  BY <2>2
<1>4. ASSUME NEW n \in Nat, Has(n)
      PROVE  Has(n + 1)
  <2>. PICK g : g = [k \in Upto(n) |-> Round(g, k)]
    BY <1>4
  <2>. DEFINE h == [k \in Upto(n + 1) |-> Round(g, k)]
  <2>1. \A k \in Upto(n) : k \in Upto(n + 1) /\ h[k] = g[k]
    BY <1>2 DEF Upto
  <2>2. ASSUME NEW k \in Upto(n + 1)
        PROVE  Round(g, k) = Round(h, k)
    <3>1. CASE k.remaining = 0
      BY <3>1 DEF Round
    <3>2. CASE k.remaining # 0
      <4>1. k \in Loop /\ k.remaining \in Nat /\ k.remaining <= n + 1
        BY <1>2 DEF Upto
      <4>2. After(k) \in Loop /\ After(k).remaining < k.remaining
        BY <3>2, <4>1, ChunkIs
      <4>3. After(k).remaining \in Nat
        BY <1>2, <4>2
      <4>4. After(k) \in Upto(n)
        BY <4>1, <4>2, <4>3 DEF Upto
      <4>5. h[After(k)] = g[After(k)]
        BY <2>1, <4>4
      <4>. HIDE DEF h
      <4>. QED  BY <4>5 DEF Round
    <3>. QED  BY <3>1, <3>2
  <2>3. h = [k \in Upto(n + 1) |-> Round(h, k)]
    BY <2>2, Zenon
  <2>. QED  BY <2>3
<1>5. Bad = {}
  <2>. SUFFICES ASSUME Bad # {} PROVE FALSE
    OBVIOUS
  <2>1. Bad \in SUBSET Nat
    OBVIOUS
  <2>2. PICK n \in Bad : \A y \in Bad : n <= y
    <3>. HIDE DEF Bad
    <3>. QED  BY <2>1, LeastExists
  <2>3. n \in Nat /\ ~Has(n)
    OBVIOUS
  <2>. HIDE DEF Has
  <2>4. n # 0
    BY <1>3, <2>3
  <2>5. PICK m \in Nat : n = m + 1
    BY <2>3, <2>4
  <2>6. ~Has(m)
    BY <1>4, <2>3, <2>5
  <2>. QED  BY <2>2, <2>5, <2>6
<1>6. Has(RingSize + PageSlots)
  <2>. HIDE DEF Has
  <2>. QED  BY <1>1, <1>5
<1>7. Upto(RingSize + PageSlots) = Loop
  BY <1>2 DEF Upto
<1>. QED  BY <1>6, <1>7

(* Cut is what its definition says. *)
LEMMA CutIs ==
    ASSUME NEW k \in Loop
    PROVE  Cut[k] = Round(Cut, k)
<1>1. PICK g : g = [x \in Loop |-> Round(g, x)]
  BY CutExists
<1>2. \E f : f = [x \in Loop |-> IF x.remaining = 0 THEN <<>> ELSE <<Chunk(x)>> \o f[After(x)]]
  BY <1>1 DEF Round
<1>3. Cut = [x \in Loop |-> IF x.remaining = 0 THEN <<>> ELSE <<Chunk(x)>> \o Cut[After(x)]]
  BY <1>2 DEF Cut
<1>. QED  BY <1>3 DEF Round

ChunkSet == [src : Nat, dst : Slot, n : 1..MaxChunk]

(* The slots of the source that a chunk copies. *)
From(p) == p.src..p.src + p.n - 1

(* The chunks q do what is left in k: without a gap, inside the extents,   *)
(* and each slot to the slot of the same number as long as the ring's end  *)
(* is not passed.                                                          *)
Tiling(k, q) ==
    /\ q \in Seq(ChunkSet)
    /\ k.remaining > 0 => Len(q) > 0 /\ q[1].src = k.cur_src
    /\ k.remaining = 0 => q = <<>>
    /\ \A i \in 1..Len(q) :
          /\ q[i].dst + q[i].n <= RingSize
          /\ \A e \in ExtentStart : ~(q[i].dst < e /\ e < q[i].dst + q[i].n)
          /\ q[i].src + q[i].n <= k.cur_src + k.remaining
    /\ \A i \in 1..Len(q) - 1 : q[i + 1].src = q[i].src + q[i].n
    /\ Len(q) > 0 => q[Len(q)].src + q[Len(q)].n = k.cur_src + k.remaining
    /\ k.cur_slot = k.cur_src /\ k.cur_src + k.remaining <= RingSize =>
          \A i \in 1..Len(q) : q[i].dst = q[i].src
    /\ \A x \in k.cur_src..k.cur_src + k.remaining - 1 : \E i \in 1..Len(q) : x \in From(q[i])

(* A chunk in front of others. *)
LEMMA InFront ==
    ASSUME NEW S, NEW p \in S, NEW q \in Seq(S)
    PROVE  /\ <<p>> \o q \in Seq(S)
           /\ Len(<<p>> \o q) = Len(q) + 1
           /\ (<<p>> \o q)[1] = p
           /\ \A i \in 1..Len(q) : (<<p>> \o q)[i + 1] = q[i]
OBVIOUS

(* If the chunks of the rest do the rest, with one chunk in front they do  *)
(* it all.                                                                 *)
LEMMA TilingStep ==
    ASSUME NEW k \in Loop, k.remaining > 0, Tiling(After(k), Cut[After(k)])
    PROVE  Tiling(k, Cut[k])
<1>0. RingSize \in Nat \ {0} /\ MaxChunk \in Nat \ {0}
  BY BlockCopyAssumptions
<1>1. PICK p \in ChunkSet : p = Chunk(k)
  BY ChunkIs DEF ChunkSet
<1>2. /\ p.src = k.cur_src /\ p.n <= k.remaining /\ p.dst + p.n <= RingSize
      /\ k.cur_slot < RingSize => p.dst = k.cur_slot
      /\ \A e \in ExtentStart : ~(p.dst < e /\ e < p.dst + p.n)
  BY <1>1, ChunkIs
<1>3. PICK q : q = Cut[After(k)]
  OBVIOUS
<1>4. Tiling(After(k), q) /\ q \in Seq(ChunkSet)
  BY <1>3 DEF Tiling
<1>5. Cut[k] = <<p>> \o q
  <2>1. k.remaining # 0
    BY BlockCopyAssumptions DEF Loop
  <2>. QED  BY <1>1, <1>3, <2>1, CutIs DEF Round
<1>6. PICK r : r = <<p>> \o q
  OBVIOUS
<1>7. /\ r \in Seq(ChunkSet) /\ Len(r) = Len(q) + 1 /\ r[1] = p
      /\ \A i \in 1..Len(q) : r[i + 1] = q[i]
  BY <1>4, <1>6, InFront
<1>8. PICK m \in Nat, s \in Nat, t \in Nat :
         m = Len(q) /\ s = k.cur_src /\ t = k.remaining /\ t > 0
  BY <1>4 DEF Loop
<1>9. PICK n \in Nat, d \in Nat : n = p.n /\ d = p.dst /\ n > 0 /\ n <= t /\ p.src = s
  BY <1>0, <1>2, <1>8 DEF ChunkSet, Slot
<1>10. After(k) = [remaining |-> t - n, cur_slot |-> d + n, cur_src |-> s + n]
  BY <1>1, <1>8, <1>9 DEF After
<1>11. After(k).remaining = t - n /\ After(k).cur_slot = d + n /\ After(k).cur_src = s + n
  BY <1>10
<1>12. \A i \in 1..m : /\ q[i].src \in Nat /\ q[i].n \in Nat /\ q[i].dst \in Nat
                       /\ r[i + 1] = q[i]
  <2>1. \A i \in 1..m : q[i] \in ChunkSet /\ r[i + 1] = q[i]
    BY <1>4, <1>7, <1>8
  <2>2. \A p1 \in ChunkSet : p1.src \in Nat /\ p1.n \in Nat /\ p1.dst \in Nat
    BY <1>0 DEF ChunkSet, Slot
  <2>. QED  BY <2>1, <2>2
<1>13. \A i \in 1..m + 1 : i = 1 \/ (i - 1 \in 1..m /\ r[i] = q[i - 1])
  <2>1. ASSUME NEW i \in 1..m + 1, i # 1
        PROVE  i - 1 \in 1..m /\ r[i] = q[i - 1]
    <3>1. i - 1 \in 1..m /\ (i - 1) + 1 = i
      BY <2>1
    <3>. QED  BY <1>12, <3>1
  <2>. QED  BY <2>1
<1>14. Len(r) = m + 1
  BY <1>7, <1>8
<1>15. \A i \in 1..m + 1 :
          /\ r[i].dst + r[i].n <= RingSize
          /\ \A e \in ExtentStart : ~(r[i].dst < e /\ e < r[i].dst + r[i].n)
          /\ r[i].src + r[i].n <= s + t
  <2>1. /\ p.dst + p.n <= RingSize /\ p.src + p.n <= s + t
        /\ \A e \in ExtentStart : ~(p.dst < e /\ e < p.dst + p.n)
    BY <1>2, <1>9
  <2>2. \A i \in 1..m :
          /\ q[i].dst + q[i].n <= RingSize
          /\ \A e \in ExtentStart : ~(q[i].dst < e /\ e < q[i].dst + q[i].n)
          /\ q[i].src + q[i].n <= (s + n) + (t - n)
    BY <1>4, <1>8, <1>11 DEF Tiling
  <2>3. (s + n) + (t - n) = s + t
    BY <1>9
  <2>. QED  BY <1>7, <1>13, <2>1, <2>2, <2>3
<1>16. m > 0 => q[1].src = s + n /\ t - n > 0
  <2>1. /\ After(k).remaining > 0 => q[1].src = After(k).cur_src
        /\ After(k).remaining = 0 => q = <<>>
    BY <1>4 DEF Tiling
  <2>2. t - n \in Nat
    BY <1>9
  <2>3. m > 0 => q # <<>>
    BY <1>8
  <2>. QED  BY <1>11, <2>1, <2>2, <2>3
<1>17. m = 0 => t = n
  BY <1>4, <1>8, <1>9, <1>11 DEF Tiling
<1>18. \A i \in 1..m : r[i + 1].src = r[i].src + r[i].n
  <2>1. ASSUME NEW i \in 1..m
        PROVE  r[i + 1].src = r[i].src + r[i].n
    <3>1. CASE i = 1
      <4>1. r[i + 1].src = s + n
        BY <1>12, <1>16, <3>1
      <4>2. r[i].src = s /\ r[i].n = n
        BY <1>7, <1>9, <3>1
      <4>. QED  BY <4>1, <4>2
    <3>2. CASE i # 1
      <4>1. PICK j \in 1..m - 1 : i = j + 1
        BY <3>2
      <4>2. q[j + 1].src = q[j].src + q[j].n
        BY <1>4, <1>8 DEF Tiling
      <4>3. r[i] = q[j] /\ r[i + 1] = q[j + 1]
        BY <1>12, <4>1
      <4>. QED  BY <4>2, <4>3
    <3>. QED  BY <3>1, <3>2
  <2>. QED  BY <2>1
<1>19. r[m + 1].src + r[m + 1].n = s + t
  <2>1. CASE m = 0
    BY <1>7, <1>9, <1>17, <2>1
  <2>2. CASE m > 0
    <3>1. q[m].src + q[m].n = (s + n) + (t - n)
      BY <1>4, <1>8, <1>11, <2>2 DEF Tiling
    <3>2. r[m + 1] = q[m]
      BY <1>12, <2>2
    <3>. QED  BY <1>9, <3>1, <3>2
  <2>. QED  BY <2>1, <2>2
<1>20. ASSUME k.cur_slot = s, s + t <= RingSize
       PROVE  \A i \in 1..m + 1 : r[i].dst = r[i].src
  <2>1. d = s
    BY <1>0, <1>2, <1>8, <1>9, <1>20
  <2>2. d + n = s + n /\ (s + n) + (t - n) <= RingSize
    BY <1>9, <1>20, <2>1
  <2>3. \A i \in 1..m : q[i].dst = q[i].src
    BY <1>4, <1>8, <1>11, <2>2 DEF Tiling
  <2>4. r[1].dst = r[1].src
    BY <1>7, <1>9, <2>1
  <2>. QED  BY <1>13, <2>3, <2>4
<1>21. ASSUME NEW x \in s..s + t - 1
       PROVE  \E i \in 1..m + 1 : x \in From(r[i])
  <2>1. CASE x < s + n
    <3>1. x \in From(r[1])
      BY <1>7, <1>9, <2>1 DEF From
    <3>. QED  BY <3>1
  <2>2. CASE ~(x < s + n)
    <3>1. x \in (s + n)..(s + n) + (t - n) - 1
      BY <1>9, <2>2
    <3>2. PICK i \in 1..m : x \in From(q[i])
      BY <1>4, <1>8, <1>11, <3>1 DEF Tiling
    <3>3. i + 1 \in 1..m + 1 /\ r[i + 1] = q[i]
      BY <1>12
    <3>. QED  BY <3>2, <3>3
  <2>. QED  BY <2>1, <2>2
<1>22. Tiling(k, r)
  <2>1. /\ r \in Seq(ChunkSet)
        /\ Len(r) > 0 /\ r[1].src = k.cur_src
    BY <1>7, <1>8, <1>9, <1>14
  <2>2. k.remaining # 0
    OBVIOUS
  <2>3. Len(r) - 1 = m
    BY <1>14
  <2>. QED
    BY <1>8, <1>14, <1>15, <1>18, <1>19, <1>20, <1>21, <2>1, <2>2, <2>3 DEF Tiling
<1>. QED  BY <1>5, <1>6, <1>22

(* The chunks do all of what is to be copied, by induction over what is    *)
(* left.                                                                   *)
LEMMA CutTiles == \A k \in Loop : Tiling(k, Cut[k])
<1>. DEFINE Bad == {n \in Nat : \E k \in Loop : k.remaining = n /\ ~Tiling(k, Cut[k])}
<1>1. \A k \in Loop : k.remaining \in Nat /\ k.cur_src \in Nat
  BY BlockCopyAssumptions DEF Loop
<1>2. Bad = {}
  <2>. SUFFICES ASSUME Bad # {} PROVE FALSE
    OBVIOUS
  <2>1. Bad \in SUBSET Nat
    OBVIOUS
  <2>2. PICK n \in Bad : \A y \in Bad : n <= y
    <3>. HIDE DEF Bad
    <3>. QED  BY <2>1, LeastExists
  <2>3. PICK k \in Loop : k.remaining = n /\ ~Tiling(k, Cut[k])
    OBVIOUS
  <2>4. n \in Nat
    OBVIOUS
  <2>5. CASE n = 0
    <3>1. Cut[k] = <<>>
      BY <2>3, <2>5, CutIs DEF Round
    <3>2. Tiling(k, <<>>)
      <4>1. <<>> \in Seq(ChunkSet) /\ Len(<<>>) = 0 /\ 1..0 = {} /\ 1..-1 = {}
        OBVIOUS
      <4>2. k.cur_src..k.cur_src + k.remaining - 1 = {}
        BY <1>1, <2>3, <2>5
      <4>3. k.remaining = 0 /\ ~(k.remaining > 0)
        BY <2>3, <2>5
      <4>. QED  BY <4>1, <4>2, <4>3, SMTT(30) DEF Tiling
    <3>. QED  BY <2>3, <3>1, <3>2
  <2>6. CASE n > 0
    <3>1. After(k) \in Loop /\ After(k).remaining < n
      BY <2>3, <2>6, ChunkIs
    <3>2. After(k).remaining \in Nat
      BY <1>1, <3>1
    <3>3. After(k).remaining \notin Bad
      <4>. HIDE DEF Bad
      <4>. QED  BY <2>2, <2>4, <3>1, <3>2
    <3>4. Tiling(After(k), Cut[After(k)])
      BY <3>1, <3>2, <3>3
    <3>. QED  BY <2>3, <2>6, <3>4, TilingStep
  <2>. QED  BY <2>4, <2>5, <2>6
<1>. QED  BY <1>1, <1>2

-----------------------------------------------------------------------------
(* The buffers *)

(* N buffers, each in exactly one place: in the pool p, with a request h,  *)
(* or among the others F.                                                  *)
PoolOnce(p) == \A i, j \in 1..Len(p) : p[i] = p[j] => i = j
HeldOnce(h) ==
    \A c, d \in Call : \A i \in 1..Len(h[c]), j \in 1..Len(h[d]) :
        h[c][i] = h[d][j] => c = d /\ i = j
PoolNotHeld(p, h) == \A c \in Call : \A i \in 1..Len(p), j \in 1..Len(h[c]) : p[i] # h[c][j]
PoolNotIn(p, F) == \A i \in 1..Len(p) : p[i] \notin F
HeldNotIn(h, F) == \A c \in Call : \A j \in 1..Len(h[c]) : h[c][j] \notin F
Somewhere(N, p, h, F) ==
    \A b \in 1..N : \/ b \in F
                    \/ \E i \in 1..Len(p) : p[i] = b
                    \/ \E c \in Call : \E j \in 1..Len(h[c]) : h[c][j] = b

Sound(N, p, h, F) ==
    /\ p \in Seq(1..N)
    /\ h \in [Call -> Seq(1..N)]
    /\ F \subseteq 1..N
    /\ PoolOnce(p)
    /\ HeldOnce(h)
    /\ PoolNotHeld(p, h)
    /\ PoolNotIn(p, F)
    /\ HeldNotIn(h, F)
    /\ Somewhere(N, p, h, F)

(* The last buffer of the pool is taken out. *)
LEMMA SoundPop ==
    ASSUME NEW N \in Nat, NEW p, NEW h, NEW F, Sound(N, p, h, F), p # <<>>
    PROVE  Sound(N, Front(p), h, F \cup {p[Len(p)]}) /\ p[Len(p)] \in (1..N) \ F
<1>1. PICK m \in Nat : m = Len(p)
  BY DEF Sound
<1>2. m > 0
  BY <1>1 DEF Sound
<1>3. PICK q : q = Front(p)
  OBVIOUS
<1>4. q \in Seq(1..N) /\ Len(q) = m - 1 /\ \A i \in 1..m - 1 : q[i] = p[i]
  BY <1>1, <1>2, <1>3 DEF Sound, Front
<1>5. PICK x \in 1..N : x = p[m]
  BY <1>1, <1>2 DEF Sound
<1>6. x \notin F
  BY <1>1, <1>2, <1>5 DEF Sound, PoolNotIn
<1>7. \A i \in 1..m - 1 : i \in 1..m /\ q[i] # x /\ q[i] \notin F
  <2>1. PoolOnce(p) /\ PoolNotIn(p, F)
    BY DEF Sound
  <2>2. ASSUME NEW i \in 1..m - 1
        PROVE  i \in 1..m /\ q[i] # x /\ q[i] \notin F
    <3>1. i \in 1..m /\ m \in 1..m /\ i # m
      BY <1>2
    <3>2. p[i] # p[m] /\ p[i] \notin F
      BY <1>1, <2>1, <3>1 DEF PoolOnce, PoolNotIn
    <3>. QED  BY <1>4, <1>5, <3>1, <3>2
  <2>. QED  BY <2>2
<1>8. \A c \in Call : \A j \in 1..Len(h[c]) : h[c][j] # x
  BY <1>1, <1>2, <1>5 DEF Sound, PoolNotHeld
<1>9. Somewhere(N, q, h, F \cup {x})
  <2>1. ASSUME NEW b \in 1..N, b # x, NEW i \in 1..m, p[i] = b
        PROVE  \E e \in 1..m - 1 : q[e] = b
    <3>1. i \in 1..m - 1
      BY <1>2, <1>5, <2>1
    <3>. QED  BY <1>4, <2>1, <3>1
  <2>2. \A b \in 1..N : \/ b \in F
                        \/ \E i \in 1..m : p[i] = b
                        \/ \E c \in Call : \E j \in 1..Len(h[c]) : h[c][j] = b
    BY <1>1 DEF Sound, Somewhere
  <2>3. Len(q) = m - 1
    BY <1>4
  <2>. QED  BY <2>1, <2>2, <2>3 DEF Somewhere
<1>10. PoolOnce(q)
  BY <1>1, <1>4, <1>7 DEF Sound, PoolOnce
<1>11. PoolNotHeld(q, h)
  BY <1>1, <1>4, <1>7 DEF Sound, PoolNotHeld
<1>12. PoolNotIn(q, F \cup {x})
  BY <1>4, <1>7 DEF PoolNotIn
<1>13. HeldNotIn(h, F \cup {x})
  BY <1>8 DEF Sound, HeldNotIn
<1>14. F \cup {x} \subseteq 1..N
  BY <1>5 DEF Sound
<1>15. Sound(N, q, h, F \cup {x})
  BY <1>4, <1>9, <1>10, <1>11, <1>12, <1>13, <1>14 DEF Sound
<1>. QED  BY <1>1, <1>3, <1>5, <1>6, <1>15

(* A buffer among the others is given to a request. *)
LEMMA SoundTake ==
    ASSUME NEW N \in Nat, NEW p, NEW h, NEW F, Sound(N, p, h, F), NEW x \in F, NEW c \in Call
    PROVE  Sound(N, p, [h EXCEPT ![c] = Append(h[c], x)], F \ {x})
<1>1. x \in 1..N /\ h[c] \in Seq(1..N) /\ h \in [Call -> Seq(1..N)]
  BY DEF Sound
<1>2. PICK g : g = [h EXCEPT ![c] = Append(h[c], x)]
  OBVIOUS
<1>3. PICK m \in Nat : m = Len(h[c])
  BY <1>1
<1>4. /\ g \in [Call -> Seq(1..N)] /\ Len(g[c]) = m + 1 /\ g[c][m + 1] = x
      /\ \A j \in 1..m : g[c][j] = h[c][j]
      /\ \A d \in Call : d # c => g[d] = h[d]
  BY <1>1, <1>2, <1>3
<1>5. \A j \in 1..m + 1 : j \in 1..m \/ j = m + 1
  OBVIOUS
<1>6. \A d \in Call : \A j \in 1..Len(g[d]) :
         \/ j \in 1..Len(h[d]) /\ g[d][j] = h[d][j]
         \/ d = c /\ j = m + 1 /\ g[d][j] = x
  BY <1>3, <1>4, <1>5
<1>7. \A d \in Call : \A j \in 1..Len(h[d]) : h[d][j] # x
  BY DEF Sound, HeldNotIn
<1>8. \A i \in 1..Len(p) : p[i] # x
  BY DEF Sound, PoolNotIn
<1>9. \A d \in Call : \A j \in 1..Len(h[d]) : j \in 1..Len(g[d]) /\ g[d][j] = h[d][j]
  <2>1. \A j \in 1..m : j \in 1..m + 1
    OBVIOUS
  <2>2. ASSUME NEW d \in Call, NEW j \in 1..Len(h[d])
        PROVE  j \in 1..Len(g[d]) /\ g[d][j] = h[d][j]
    <3>1. CASE d = c
      BY <1>3, <1>4, <2>1, <3>1
    <3>2. CASE d # c
      BY <1>4, <3>2
    <3>. QED  BY <3>1, <3>2
  <2>. QED  BY <2>2
<1>10. HeldOnce(g)
  <2>1. ASSUME NEW d \in Call, NEW e \in Call, NEW i \in 1..Len(g[d]), NEW j \in 1..Len(g[e]),
               g[d][i] = g[e][j]
        PROVE  d = e /\ i = j
    <3>1. CASE i \in 1..Len(h[d]) /\ g[d][i] = h[d][i] /\ j \in 1..Len(h[e]) /\ g[e][j] = h[e][j]
      <4>1. h[d][i] = h[e][j]
        BY <2>1, <3>1
      <4>2. HeldOnce(h)
        BY DEF Sound
      <4>. QED  BY <3>1, <4>1, <4>2 DEF HeldOnce
    <3>2. CASE i \in 1..Len(h[d]) /\ g[d][i] = h[d][i] /\ g[e][j] = x
      BY <1>7, <2>1, <3>2
    <3>3. CASE g[d][i] = x /\ j \in 1..Len(h[e]) /\ g[e][j] = h[e][j]
      BY <1>7, <2>1, <3>3
    <3>4. CASE d = c /\ i = m + 1 /\ e = c /\ j = m + 1
      BY <3>4
    <3>. QED  BY <1>6, <3>1, <3>2, <3>3, <3>4
  <2>. QED  BY <2>1 DEF HeldOnce
<1>11. PoolNotHeld(p, g)
  BY <1>6, <1>8 DEF Sound, PoolNotHeld
<1>12. HeldNotIn(g, F \ {x})
  BY <1>6 DEF Sound, HeldNotIn
<1>13. Somewhere(N, p, g, F \ {x})
  <2>1. ASSUME NEW b \in 1..N
        PROVE  \/ b \in F \ {x}
               \/ \E i \in 1..Len(p) : p[i] = b
               \/ \E d \in Call : \E j \in 1..Len(g[d]) : g[d][j] = b
    <3>1. CASE b = x
      <4>1. m + 1 \in 1..Len(g[c])
        BY <1>4
      <4>. QED  BY <1>4, <3>1, <4>1
    <3>2. CASE b # x /\ \E d \in Call : \E j \in 1..Len(h[d]) : h[d][j] = b
      BY <1>9, <3>2
    <3>. QED  BY <3>1, <3>2 DEF Sound, Somewhere
  <2>. QED  BY <2>1 DEF Somewhere
<1>14. PoolNotIn(p, F \ {x}) /\ F \ {x} \subseteq 1..N /\ p \in Seq(1..N) /\ PoolOnce(p)
  BY DEF Sound, PoolNotIn
<1>15. Sound(N, p, g, F \ {x})
  BY <1>4, <1>10, <1>11, <1>12, <1>13, <1>14 DEF Sound
<1>. QED  BY <1>2, <1>15

(* A new buffer. *)
LEMMA SoundNew ==
    ASSUME NEW N \in Nat, NEW p, NEW h, NEW F, Sound(N, p, h, F)
    PROVE  Sound(N + 1, p, h, F \cup {N + 1}) /\ N + 1 \notin F
<1>1. \A x \in 1..N : x \in 1..N + 1 /\ x # N + 1
  OBVIOUS
<1>2. p \in Seq(1..N) /\ p \in Seq(1..N + 1)
  BY <1>1 DEF Sound
<1>3. h \in [Call -> Seq(1..N + 1)] /\ \A c \in Call : h[c] \in Seq(1..N)
  <2>1. \A c \in Call : h[c] \in Seq(1..N)
    BY DEF Sound
  <2>2. \A q \in Seq(1..N) : q \in Seq(1..N + 1)
    BY <1>1
  <2>. QED  BY <2>1, <2>2 DEF Sound
<1>4. \A i \in 1..Len(p) : p[i] \in 1..N
  BY <1>2
<1>5. \A c \in Call : \A j \in 1..Len(h[c]) : h[c][j] \in 1..N
  BY <1>3
<1>6. F \cup {N + 1} \subseteq 1..N + 1 /\ N + 1 \notin F
  BY <1>1 DEF Sound
<1>7. \A b \in 1..N + 1 : b \in 1..N \/ b = N + 1
  OBVIOUS
<1>8. Somewhere(N + 1, p, h, F \cup {N + 1})
  BY <1>7 DEF Sound, Somewhere
<1>9. PoolNotIn(p, F \cup {N + 1})
  BY <1>1, <1>4 DEF Sound, PoolNotIn
<1>10. HeldNotIn(h, F \cup {N + 1})
  BY <1>1, <1>5 DEF Sound, HeldNotIn
<1>. QED  BY <1>2, <1>3, <1>6, <1>8, <1>9, <1>10 DEF Sound

(* All buffers of a request go back to the pool. *)
LEMMA SoundRelease ==
    ASSUME NEW N \in Nat, NEW p, NEW h, NEW F, Sound(N, p, h, F), NEW c \in Call
    PROVE  Sound(N, p \o h[c], [h EXCEPT ![c] = <<>>], F)
<1>1. p \in Seq(1..N) /\ h[c] \in Seq(1..N) /\ h \in [Call -> Seq(1..N)] /\ F \subseteq 1..N
  BY DEF Sound
<1>2. PICK g : g = [h EXCEPT ![c] = <<>>]
  OBVIOUS
<1>3. /\ g \in [Call -> Seq(1..N)] /\ Len(g[c]) = 0
      /\ \A d \in Call : d # c => g[d] = h[d]
  BY <1>1, <1>2
<1>4. PICK a \in Nat, m \in Nat : a = Len(p) /\ m = Len(h[c])
  BY <1>1
<1>5. PICK q : q = p \o h[c]
  OBVIOUS
<1>6. q \in Seq(1..N) /\ Len(q) = a + m
  BY <1>1, <1>4, <1>5
<1>7. /\ \A i \in 1..a : q[i] = p[i]
      /\ \A i \in 1..m : q[a + i] = h[c][i]
  BY <1>1, <1>4, <1>5
<1>8. \A i \in 1..a + m : \/ i \in 1..a /\ q[i] = p[i]
                          \/ \E j \in 1..m : i = a + j /\ q[i] = h[c][j]
  <2>1. ASSUME NEW i \in 1..a + m, i \notin 1..a
        PROVE  \E j \in 1..m : i = a + j /\ q[i] = h[c][j]
    <3>1. PICK j \in 1..m : i = a + j
      BY <2>1
    <3>. QED  BY <1>7, <3>1
  <2>. QED  BY <1>7, <2>1
<1>9. \A d \in Call : \A j \in 1..Len(g[d]) : d # c /\ g[d] = h[d]
  BY <1>3
<1>10. PoolOnce(q)
  <2>1. ASSUME NEW i \in 1..a + m, NEW j \in 1..a + m, q[i] = q[j]
        PROVE  i = j
    <3>1. CASE i \in 1..a /\ j \in 1..a /\ q[i] = p[i] /\ q[j] = p[j]
      BY <1>4, <2>1, <3>1 DEF Sound, PoolOnce
    <3>2. ASSUME NEW e \in 1..a, NEW f \in 1..m, p[e] = h[c][f]
          PROVE  FALSE
      BY <1>4, <3>2 DEF Sound, PoolNotHeld
    <3>3. ASSUME NEW e \in 1..m, i = a + e, q[i] = h[c][e],
                 NEW f \in 1..m, j = a + f, q[j] = h[c][f]
          PROVE  i = j
      <4>1. h[c][e] = h[c][f]
        BY <2>1, <3>3
      <4>2. e = f
        BY <1>4, <4>1 DEF Sound, HeldOnce
      <4>. QED  BY <3>3, <4>2
    <3>4. CASE i \in 1..a /\ q[i] = p[i]
      BY <1>8, <2>1, <3>1, <3>2, <3>4
    <3>5. CASE \E e \in 1..m : i = a + e /\ q[i] = h[c][e]
      BY <1>8, <2>1, <3>2, <3>3, <3>5
    <3>. QED  BY <1>8, <3>4, <3>5
  <2>. QED  BY <1>6, <2>1 DEF PoolOnce
<1>11. PoolNotIn(q, F)
  <2>1. (\A i \in 1..a : p[i] \notin F) /\ (\A j \in 1..m : h[c][j] \notin F)
    BY <1>4 DEF Sound, PoolNotIn, HeldNotIn
  <2>. QED  BY <1>6, <1>8, <2>1 DEF PoolNotIn
<1>12. PoolNotHeld(q, g)
  <2>1. ASSUME NEW d \in Call, NEW i \in 1..a + m, NEW j \in 1..Len(g[d])
        PROVE  q[i] # g[d][j]
    <3>1. d # c /\ g[d] = h[d] /\ j \in 1..Len(h[d])
      BY <1>9
    <3>2. CASE i \in 1..a /\ q[i] = p[i]
      BY <1>4, <3>1, <3>2 DEF Sound, PoolNotHeld
    <3>3. ASSUME NEW e \in 1..m, q[i] = h[c][e]
          PROVE  q[i] # g[d][j]
      <4>1. e \in 1..Len(h[c])
        BY <1>4
      <4>2. h[c][e] # h[d][j]
        BY <3>1, <4>1 DEF Sound, HeldOnce
      <4>. QED  BY <3>1, <3>3, <4>2
    <3>. QED  BY <1>8, <3>2, <3>3
  <2>. QED  BY <1>6, <2>1 DEF PoolNotHeld
<1>13. HeldNotIn(g, F)
  BY <1>9 DEF Sound, HeldNotIn
<1>14. HeldOnce(g)
  <2>1. HeldOnce(h)
    BY DEF Sound
  <2>2. ASSUME NEW d \in Call, NEW e \in Call, NEW i \in 1..Len(g[d]), NEW j \in 1..Len(g[e]),
               g[d][i] = g[e][j]
        PROVE  d = e /\ i = j
    <3>1. /\ g[d] = h[d] /\ i \in 1..Len(h[d])
          /\ g[e] = h[e] /\ j \in 1..Len(h[e])
      BY <1>9
    <3>2. h[d][i] = h[e][j]
      BY <2>2, <3>1
    <3>. QED  BY <2>1, <3>1, <3>2 DEF HeldOnce
  <2>. QED  BY <2>2 DEF HeldOnce
<1>15. Somewhere(N, q, g, F)
  <2>1. ASSUME NEW b \in 1..N, b \notin F
        PROVE  \/ \E i \in 1..a + m : q[i] = b
               \/ \E d \in Call : \E j \in 1..Len(g[d]) : g[d][j] = b
    <3>1. CASE \E i \in 1..a : p[i] = b
      <4>1. PICK i \in 1..a : p[i] = b
        BY <3>1
      <4>2. i \in 1..a + m
        OBVIOUS
      <4>. QED  BY <1>7, <4>1, <4>2
    <3>2. CASE \E d \in Call : \E j \in 1..Len(h[d]) : h[d][j] = b
      <4>1. PICK d \in Call : \E j \in 1..Len(h[d]) : h[d][j] = b
        BY <3>2
      <4>2. PICK j \in 1..Len(h[d]) : h[d][j] = b
        BY <4>1
      <4>3. CASE d = c
        <5>1. a + j \in 1..a + m /\ j \in 1..m
          BY <1>4, <4>3
        <5>. QED  BY <1>7, <4>2, <4>3, <5>1
      <4>4. CASE d # c
        BY <1>3, <4>2, <4>4
      <4>. QED  BY <4>3, <4>4
    <3>. QED  BY <1>4, <2>1, <3>1, <3>2 DEF Sound, Somewhere
  <2>. QED  BY <1>6, <2>1 DEF Somewhere
<1>16. Sound(N, q, g, F)
  BY <1>1, <1>3, <1>6, <1>10, <1>11, <1>12, <1>13, <1>14, <1>15 DEF Sound
<1>. QED  BY <1>2, <1>5, <1>16
-----------------------------------------------------------------------------
(* The chunks of a request *)

(* The chunks of a batch, as CutTiles has them. *)
LEMMA ChunksAre ==
    ASSUME NEW v \in Volume, NEW b \in Batches[v]
    PROVE  /\ b.start \in Nat /\ b.len \in Nat /\ b.len > 0 /\ b.start + b.len <= RingSize
           /\ AlignUp(b.len) \in Nat /\ b.len <= AlignUp(b.len)
           /\ Tiling([remaining |-> AlignUp(b.len), cur_slot |-> b.start, cur_src |-> b.start],
                     Chunks(b))
<1>1. /\ RingSize \in Nat \ {0} /\ PageSlots \in Nat
      /\ b \in [start : 0..RingSize - 1, len : 1..RingSize] /\ b.start + b.len <= RingSize
  <2>1. Batches[v] \subseteq [start : 0..RingSize - 1, len : 1..RingSize]
    BY BlockCopyAssumptions
  <2>. QED  BY <2>1, BlockCopyAssumptions
<1>2. b.start \in 0..RingSize - 1 /\ b.len \in 1..RingSize
  BY <1>1
<1>3. PICK s \in Nat, n \in Nat : s = b.start /\ n = b.len
  BY <1>1, <1>2
<1>4. PICK a \in Nat : a = AlignUp(n) /\ n <= a /\ a < n + PageSlots
  BY AlignUpCovers
<1>5. a \in 0..RingSize + PageSlots /\ s \in 0..RingSize
  BY <1>1, <1>2, <1>3, <1>4
<1>6. [remaining |-> a, cur_slot |-> s, cur_src |-> s] \in Loop
  BY <1>3, <1>5 DEF Loop
<1>7. Tiling([remaining |-> a, cur_slot |-> s, cur_src |-> s], Chunks(b))
  BY <1>3, <1>4, <1>6, CutTiles DEF Chunks
<1>. QED  BY <1>1, <1>2, <1>3, <1>4, <1>7

(* The same, by what is used of it. *)
LEMMA ChunksShape ==
    ASSUME NEW v \in Volume, NEW b \in Batches[v], NEW q, q = Chunks(b)
    PROVE  /\ q \in Seq(ChunkSet) /\ Len(q) > 0
           /\ q[1].src = b.start
           /\ \A i \in 1..Len(q) :
                 /\ q[i].dst + q[i].n <= RingSize
                 /\ \A e \in ExtentStart : ~(q[i].dst < e /\ e < q[i].dst + q[i].n)
                 /\ q[i].src + q[i].n <= b.start + AlignUp(b.len)
           /\ \A i \in 1..Len(q) - 1 : q[i + 1].src = q[i].src + q[i].n
           /\ q[Len(q)].src + q[Len(q)].n = b.start + AlignUp(b.len)
           /\ b.start + AlignUp(b.len) <= RingSize => \A i \in 1..Len(q) : q[i].dst = q[i].src
           /\ \A x \in OwnSlots(b) : \E i \in 1..Len(q) : x \in From(q[i])
<1>1. PICK s \in Nat, n \in Nat, a \in Nat :
         s = b.start /\ n = b.len /\ a = AlignUp(b.len) /\ n > 0 /\ n <= a
  BY ChunksAre
<1>2. PICK k : k = [remaining |-> a, cur_slot |-> s, cur_src |-> s]
  OBVIOUS
<1>3. k.remaining = a /\ k.cur_slot = s /\ k.cur_src = s /\ a > 0
  BY <1>1, <1>2
<1>4. Tiling(k, q)
  BY <1>1, <1>2, ChunksAre
<1>5. /\ q \in Seq(ChunkSet) /\ Len(q) > 0 /\ q[1].src = s
      /\ \A i \in 1..Len(q) :
            /\ q[i].dst + q[i].n <= RingSize
            /\ \A e \in ExtentStart : ~(q[i].dst < e /\ e < q[i].dst + q[i].n)
            /\ q[i].src + q[i].n <= s + a
      /\ \A i \in 1..Len(q) - 1 : q[i + 1].src = q[i].src + q[i].n
      /\ q[Len(q)].src + q[Len(q)].n = s + a
      /\ s + a <= RingSize => \A i \in 1..Len(q) : q[i].dst = q[i].src
      /\ \A x \in s..s + a - 1 : \E i \in 1..Len(q) : x \in From(q[i])
  BY <1>3, <1>4 DEF Tiling
<1>6. \A x \in OwnSlots(b) : x \in s..s + a - 1
  BY <1>1 DEF OwnSlots
<1>. QED  BY <1>1, <1>5, <1>6

(* MaxSizeOf bounds every chunk. *)
LEMMA SizeIs ==
    ASSUME NEW q \in Seq(ChunkSet), Len(q) > 0
    PROVE  MaxSizeOf(q) \in Nat /\ \A i \in 1..Len(q) : q[i].n \in Nat /\ q[i].n <= MaxSizeOf(q)
<1>1. MaxChunk \in Nat
  BY BlockCopyAssumptions
<1>2. PICK S : S = {q[i].n : i \in DOMAIN q}
  OBVIOUS
<1>3. \A i \in DOMAIN q : q[i].n \in 1..MaxChunk /\ q[i].n \in 0..MaxChunk
  <2>1. \A i \in DOMAIN q : q[i] \in ChunkSet
    OBVIOUS
  <2>2. \A p \in ChunkSet : p.n \in 1..MaxChunk /\ p.n \in 0..MaxChunk
    BY <1>1 DEF ChunkSet
  <2>. QED  BY <2>1, <2>2
<1>4. S \in SUBSET (0..MaxChunk)
  BY <1>2, <1>3
<1>5. 1 \in DOMAIN q /\ DOMAIN q = 1..Len(q)
  OBVIOUS
<1>6. S # {}
  BY <1>2, <1>5
<1>7. Max(S) \in S /\ \A y \in S : y <= Max(S)
  BY <1>1, <1>4, <1>6, MaxIs
<1>8. MaxSizeOf(q) = Max(S)
  BY <1>2 DEF MaxSizeOf
<1>9. \A i \in 1..Len(q) : q[i].n \in S
  BY <1>2, <1>5
<1>10. \A y \in 0..MaxChunk : y \in Nat
  BY <1>1
<1>11. \A y \in S : y \in Nat
  BY <1>4, <1>10
<1>. QED  BY <1>7, <1>8, <1>9, <1>11

(* There is a worker, and none without a chunk of its own. *)
LEMMA WorkersAre ==
    ASSUME NEW q \in Seq(ChunkSet), Len(q) > 0
    PROVE  WorkerCount(q) \in 1..Workers /\ WorkerCount(q) <= Len(q)
BY BlockCopyAssumptions DEF WorkerCount

-----------------------------------------------------------------------------
(* The invariant of the storage server *)

SlotContent == Nat \cup {Garbage}
BufferSet == [cap : Nat, data : Seq(SlotContent)]
WorkerSet == [next : Nat \ {0}, read : BOOLEAN]
CallSet == [pc : {"acquire", "copy"}, vol : Volume,
            batch : [start : 0..RingSize - 1, len : 1..RingSize],
            chunks : Seq(ChunkSet), bufs : Seq(Nat), error : BOOLEAN, late : BOOLEAN]

(* A request k under way, with its workers ws and the buffers bs. *)
Busy(k, ws, bs) ==
    /\ k.batch \in Batches[k.vol] /\ k.chunks = Chunks(k.batch)
    /\ \A j \in 1..Len(k.bufs) :
          k.bufs[j] \in 1..Len(bs) /\ bs[k.bufs[j]].cap >= MaxSizeOf(k.chunks)
    /\ k.pc = "acquire" => ws = <<>> /\ Len(k.bufs) < WorkerCount(k.chunks)
    /\ k.pc = "copy" =>
          /\ Len(k.bufs) = WorkerCount(k.chunks)
          /\ ws \in [1..Len(k.bufs) -> WorkerSet]
          /\ \A w \in 1..Len(k.bufs) : ws[w].read /\ ws[w].next <= Len(k.chunks) =>
                Len(bs[k.bufs[w]].data) = k.chunks[ws[w].next].n

CallOk(k, ws, bs) ==
    \/ k = Idle /\ ws = <<>>
    \/ k \in CallSet /\ Busy(k, ws, bs)

HeldBy == [c \in Call |-> Held(c)]

StateOk ==
    /\ content \in [Slot -> Nat]
    /\ volume \in [Volume -> [Slot -> SlotContent]]
    /\ promised \in [Volume -> SUBSET Slot]
    /\ buffer \in Seq(BufferSet)
    /\ DOMAIN call = Call /\ DOMAIN worker = Call

CapsOk == \A i \in 1..Len(buffer) : /\ Len(buffer[i].data) <= buffer[i].cap
                                    /\ buffer[i].cap % PageSlots = 0

(* The inductive invariant: the shape of the state, every buffer in one    *)
(* place, and every request with buffers that are large enough.            *)
ServerInv ==
    /\ StateOk
    /\ Sound(Len(buffer), pool, HeldBy, freed)
    /\ CapsOk
    /\ \A c \in Call : CallOk(call[c], worker[c], buffer)

(* The server has finitely many buffers. *)
LEMMA BufferCount ==
    ASSUME ServerInv
    PROVE  Len(buffer) \in Nat
<1>1. buffer \in Seq(BufferSet)
  BY DEF ServerInv, StateOk
<1>. QED  BY <1>1

(* A request is idle, or one of CallSet. *)
LEMMA CallCases ==
    ASSUME NEW k, NEW ws, NEW bs, CallOk(k, ws, bs)
    PROVE  /\ k.pc = "idle" <=> k = Idle
           /\ k # Idle => k \in CallSet /\ Busy(k, ws, bs)
           /\ k = Idle => ws = <<>>
<1>1. k \in CallSet => k.pc # "idle"
  BY DEF CallSet
<1>2. k = Idle => k.pc = "idle"
  BY DEF Idle
<1>. QED  BY <1>1, <1>2 DEF CallOk

(* What a busy request knows. *)
LEMMA BusyFacts ==
    ASSUME ServerInv, NEW c \in Call, call[c].pc # "idle"
    PROVE  /\ call[c] \in CallSet /\ Busy(call[c], worker[c], buffer)
           /\ call[c].chunks \in Seq(ChunkSet) /\ Len(call[c].chunks) > 0
           /\ MaxSizeOf(call[c].chunks) \in Nat
           /\ \A i \in 1..Len(call[c].chunks) :
                 /\ call[c].chunks[i].n \in Nat
                 /\ call[c].chunks[i].n <= MaxSizeOf(call[c].chunks)
           /\ WorkerCount(call[c].chunks) \in 1..Workers
           /\ HeldBy[c] = call[c].bufs
           /\ call[c].bufs \in Seq(1..Len(buffer))
<1>1. CallOk(call[c], worker[c], buffer)
  BY DEF ServerInv
<1>2. call[c] \in CallSet /\ Busy(call[c], worker[c], buffer)
  BY <1>1, CallCases
<1>3. PICK v \in Volume : v = call[c].vol
  BY <1>2 DEF CallSet
<1>4. PICK b \in Batches[v] : call[c].chunks = Chunks(b)
  BY <1>2, <1>3 DEF Busy
<1>5. PICK q : q = call[c].chunks
  OBVIOUS
<1>6. q \in Seq(ChunkSet) /\ Len(q) > 0
  BY <1>4, <1>5, ChunksShape
<1>7. HeldBy[c] = call[c].bufs
  BY DEF HeldBy, Held
<1>8. HeldBy[c] \in Seq(1..Len(buffer))
  BY DEF ServerInv, Sound
<1>. QED  BY <1>2, <1>5, <1>6, <1>7, <1>8, SizeIs, WorkersAre

(* The buffers the requests hold, when one request changes. *)
LEMMA HeldUpdate ==
    ASSUME ServerInv, NEW c \in Call, NEW k, call' = [call EXCEPT ![c] = k]
    PROVE  HeldBy' = [HeldBy EXCEPT ![c] = IF k.pc = "idle" THEN <<>> ELSE k.bufs]
<1>0. PICK b : b = IF k.pc = "idle" THEN <<>> ELSE k.bufs
  OBVIOUS
<1>1. DOMAIN call = Call
  BY DEF ServerInv, StateOk
<1>2. call'[c] = k /\ \A d \in Call : d # c => call'[d] = call[d]
  BY <1>1
<1>3. HeldBy' = [d \in Call |-> Held(d)']
  BY DEF HeldBy
<1>4. \A d \in Call : Held(d)' = IF d = c THEN b ELSE HeldBy[d]
  BY <1>0, <1>2 DEF Held, HeldBy
<1>5. [HeldBy EXCEPT ![c] = b] = [d \in Call |-> IF d = c THEN b ELSE HeldBy[d]]
  BY DEF HeldBy
<1>. QED  BY <1>0, <1>3, <1>4, <1>5

(* A step of one request leaves the others as they are, if it changes no   *)
(* buffers but its own.                                                    *)
LEMMA OthersOk ==
    ASSUME ServerInv, NEW c \in Call, NEW d \in Call, d # c,
           call'[d] = call[d], worker'[d] = worker[d],
           Len(buffer') \in Nat, Len(buffer) <= Len(buffer'),
           \A i \in 1..Len(buffer) :
               (\A j \in 1..Len(HeldBy[c]) : i # HeldBy[c][j]) => buffer'[i] = buffer[i]
    PROVE  CallOk(call'[d], worker'[d], buffer')
<1>1. CallOk(call[d], worker[d], buffer)
  BY DEF ServerInv
<1>2. CASE call[d] = Idle
  BY <1>1, <1>2, CallCases DEF CallOk
<1>3. CASE call[d] # Idle
  <2>1. call[d].pc # "idle"
    BY <1>1, <1>3, CallCases
  <2>2. /\ call[d] \in CallSet /\ Busy(call[d], worker[d], buffer)
        /\ HeldBy[d] = call[d].bufs /\ call[d].bufs \in Seq(1..Len(buffer))
    BY <2>1, BusyFacts
  <2>3. PICK k : k = call[d]
    OBVIOUS
  <2>4. PICK n \in Nat : n = Len(buffer)
    BY BufferCount
  <2>5. ASSUME NEW j \in 1..Len(k.bufs)
        PROVE  k.bufs[j] \in 1..Len(buffer') /\ buffer'[k.bufs[j]] = buffer[k.bufs[j]]
    <3>1. PICK i \in 1..n : i = k.bufs[j]
      BY <2>2, <2>3, <2>4
    <3>2. \A e \in 1..Len(HeldBy[c]) : i # HeldBy[c][e]
      <4>1. HeldOnce(HeldBy)
        BY DEF ServerInv, Sound
      <4>2. j \in 1..Len(HeldBy[d]) /\ i = HeldBy[d][j]
        BY <2>2, <2>3, <3>1
      <4>. QED  BY <4>1, <4>2 DEF HeldOnce
    <3>3. buffer'[i] = buffer[i]
      BY <2>4, <3>2
    <3>4. i \in 1..Len(buffer')
      BY <2>4
    <3>. QED  BY <3>1, <3>3, <3>4
  <2>6. Busy(k, worker[d], buffer')
    BY <2>2, <2>3, <2>5, ZenonT(30) DEF Busy
  <2>. QED  BY <2>2, <2>3, <2>6 DEF CallOk
<1>. QED  BY <1>2, <1>3

-----------------------------------------------------------------------------
(* Every action preserves ServerInv *)

LEMMA ServerInit == Init => ServerInv
<1>. SUFFICES ASSUME Init PROVE ServerInv
  OBVIOUS
<1>1. StateOk
  BY BlockCopyAssumptions DEF Init, StateOk, Slot, SlotContent, Garbage
<1>2. HeldBy = [c \in Call |-> <<>>]
  BY DEF Init, HeldBy, Held, Idle
<1>3. Len(buffer) = 0 /\ pool = <<>> /\ freed = {}
  BY DEF Init
<1>4. PICK h : h = [c \in Call |-> <<>>]
  OBVIOUS
<1>5. h \in [Call -> Seq(1..0)] /\ \A c \in Call : Len(h[c]) = 0
  BY <1>4
<1>6. Sound(0, <<>>, h, {})
  <2>1. 1..0 = {} /\ Len(<<>>) = 0 /\ <<>> \in Seq(1..0)
    OBVIOUS
  <2>. QED
    BY <1>5, <2>1
    DEF Sound, PoolOnce, HeldOnce, PoolNotHeld, PoolNotIn, HeldNotIn, Somewhere
<1>7. Sound(Len(buffer), pool, HeldBy, freed)
  BY <1>2, <1>3, <1>4, <1>6
<1>8. CapsOk
  BY <1>3 DEF CapsOk
<1>9. \A c \in Call : CallOk(call[c], worker[c], buffer)
  BY DEF Init, CallOk
<1>. QED  BY <1>1, <1>7, <1>8, <1>9 DEF ServerInv

LEMMA RequestOk ==
    ASSUME ServerInv, NEW c \in Call, NEW v \in Volume, NEW b \in Batches[v], Request(c, v, b)
    PROVE  ServerInv'
<1>1. PICK k : k = [pc |-> "acquire", vol |-> v, batch |-> b, chunks |-> Chunks(b),
                    bufs |-> <<>>, error |-> FALSE, late |-> FALSE]
  OBVIOUS
<1>2. /\ call' = [call EXCEPT ![c] = k] /\ call[c] = Idle
      /\ content' = content /\ volume' = volume /\ pool' = pool /\ buffer' = buffer
      /\ freed' = freed /\ worker' = worker
      /\ promised' = [promised EXCEPT ![v] = @ \ OwnSlots(b)]
  BY <1>1 DEF Request
<1>3. b \in [start : 0..RingSize - 1, len : 1..RingSize]
  <2>1. Batches[v] \subseteq [start : 0..RingSize - 1, len : 1..RingSize]
    BY BlockCopyAssumptions
  <2>. QED  BY <2>1
<1>4. PICK q : q = Chunks(b)
  OBVIOUS
<1>5. q \in Seq(ChunkSet) /\ Len(q) > 0
  BY <1>4, ChunksShape
<1>6. k \in CallSet
  BY <1>1, <1>3, <1>4, <1>5 DEF CallSet
<1>7. StateOk'
  <2>1. promised' \in [Volume -> SUBSET Slot]
    BY <1>2 DEF ServerInv, StateOk
  <2>. QED  BY <1>2, <2>1 DEF ServerInv, StateOk
<1>8. Sound(Len(buffer), pool, HeldBy, freed)'
  <2>0. <<>> = IF k.pc = "idle" THEN <<>> ELSE k.bufs
    BY <1>1
  <2>1. HeldBy' = [HeldBy EXCEPT ![c] = <<>>]
    BY <1>2, <2>0, HeldUpdate
  <2>2. HeldBy[c] = <<>>
    BY <1>2 DEF HeldBy, Held, Idle
  <2>3. HeldBy' = HeldBy
    BY <2>1, <2>2 DEF HeldBy
  <2>. QED  BY <1>2, <2>3 DEF ServerInv
<1>9. CapsOk'
  BY <1>2 DEF ServerInv, CapsOk
<1>10. ASSUME NEW d \in Call
       PROVE  CallOk(call'[d], worker'[d], buffer')
  <2>1. CASE d = c
    <3>1. call'[c] = k /\ worker'[c] = worker[c]
      BY <1>2 DEF ServerInv, StateOk
    <3>2. worker[c] = <<>>
      BY <1>2, CallCases DEF ServerInv
    <3>3. WorkerCount(q) \in 1..Workers
      BY <1>5, WorkersAre
    <3>4. Workers \in Nat
      BY BlockCopyAssumptions
    <3>5. Busy(k, <<>>, buffer)
      BY <1>1, <1>4, <3>3, <3>4 DEF Busy
    <3>. QED  BY <1>2, <1>6, <2>1, <3>1, <3>2, <3>5 DEF CallOk
  <2>2. CASE d # c
    <3>1. call'[d] = call[d]
      BY <1>2, <2>2 DEF ServerInv, StateOk
    <3>. QED  BY <1>2, <3>1 DEF ServerInv
  <2>. QED  BY <2>1, <2>2
<1>. QED  BY <1>7, <1>8, <1>9, <1>10 DEF ServerInv

(* A request gets a buffer that is large enough. *)
LEMMA TakeOk ==
    ASSUME ServerInv, NEW c \in Call, call[c].pc = "acquire", NEW p, Take(c, p),
           buffer' \in Seq(BufferSet), Len(buffer) <= Len(buffer'),
           \A i \in 1..Len(buffer) : buffer'[i] = buffer[i],
           p \in 1..Len(buffer'), buffer'[p].cap >= MaxSizeOf(call[c].chunks)
    PROVE  /\ content' = content /\ volume' = volume /\ promised' = promised
           /\ DOMAIN call' = Call /\ DOMAIN worker' = Call
           /\ HeldBy' = [HeldBy EXCEPT ![c] = Append(HeldBy[c], p)]
           /\ \A d \in Call : CallOk(call'[d], worker'[d], buffer')
<1>0. call[c].pc # "idle"
  OBVIOUS
<1>1. /\ call[c] \in CallSet /\ Busy(call[c], worker[c], buffer)
      /\ WorkerCount(call[c].chunks) \in 1..Workers
      /\ HeldBy[c] = call[c].bufs /\ call[c].bufs \in Seq(1..Len(buffer))
  BY <1>0, BusyFacts
<1>2. PICK bufs : bufs = Append(call[c].bufs, p)
  OBVIOUS
<1>3. PICK full \in BOOLEAN : full = (Len(bufs) = WorkerCount(call[c].chunks))
  OBVIOUS
<1>4. PICK k : k = [call[c] EXCEPT !.bufs = bufs, !.pc = IF full THEN "copy" ELSE @]
  OBVIOUS
<1>5. /\ call' = [call EXCEPT ![c].bufs = bufs, ![c].pc = IF full THEN "copy" ELSE @]
      /\ worker' = IF full
                   THEN [worker EXCEPT ![c] = [w \in 1..Len(bufs) |->
                                                  [next |-> w, read |-> FALSE]]]
                   ELSE worker
      /\ content' = content /\ volume' = volume /\ promised' = promised
  BY <1>2, <1>3 DEF Take
<1>6. DOMAIN call = Call /\ DOMAIN worker = Call
  BY DEF ServerInv, StateOk
<1>7. call' = [call EXCEPT ![c] = k]
  BY <1>4, <1>5, <1>6
<1>8. PICK n \in Nat : n = Len(buffer)
  BY BufferCount
<1>9. PICK nn \in Nat : nn = Len(buffer') /\ n <= nn /\ p \in 1..nn
  BY <1>8
<1>10. PICK m \in Nat : m = Len(call[c].bufs)
  BY <1>1
<1>11. /\ bufs \in Seq(Nat) /\ Len(bufs) = m + 1
       /\ \A j \in 1..m + 1 : (j \in 1..m /\ bufs[j] = call[c].bufs[j]) \/ bufs[j] = p
  <2>1. call[c].bufs \in Seq(Nat) /\ p \in Nat
    BY <1>1, <1>8, <1>9 DEF CallSet
  <2>. QED  BY <1>2, <1>10, <2>1
<1>12. /\ k \in CallSet /\ k.bufs = bufs /\ k.vol = call[c].vol /\ k.batch = call[c].batch
       /\ k.chunks = call[c].chunks /\ k.pc = IF full THEN "copy" ELSE "acquire"
  BY <1>1, <1>4, <1>11 DEF CallSet
<1>13. HeldBy' = [HeldBy EXCEPT ![c] = Append(HeldBy[c], p)]
  <2>1. bufs = IF k.pc = "idle" THEN <<>> ELSE k.bufs
    BY <1>12
  <2>2. HeldBy' = [HeldBy EXCEPT ![c] = IF k.pc = "idle" THEN <<>> ELSE k.bufs]
    BY <1>7, HeldUpdate
  <2>. QED  BY <1>1, <1>2, <2>1, <2>2
<1>14. \A j \in 1..Len(bufs) : /\ bufs[j] \in 1..Len(buffer')
                               /\ buffer'[bufs[j]].cap >= MaxSizeOf(k.chunks)
  <2>1. ASSUME NEW j \in 1..m
        PROVE  /\ call[c].bufs[j] \in 1..Len(buffer')
               /\ buffer'[call[c].bufs[j]].cap >= MaxSizeOf(k.chunks)
    <3>1. PICK i \in 1..n : i = call[c].bufs[j]
      BY <1>1, <1>8, <1>10, SMTT(30)
    <3>2. i \in 1..nn /\ buffer'[i] = buffer[i]
      BY <1>8, <1>9
    <3>3. buffer[i].cap >= MaxSizeOf(k.chunks)
      BY <1>1, <1>10, <1>12, <3>1 DEF Busy
    <3>. QED  BY <1>9, <3>1, <3>2, <3>3
  <2>2. buffer'[p].cap >= MaxSizeOf(k.chunks) /\ p \in 1..Len(buffer')
    BY <1>12
  <2>. QED  BY <1>11, <2>1, <2>2
<1>15. m < WorkerCount(k.chunks) /\ worker[c] = <<>>
  BY <1>1, <1>10, <1>12 DEF Busy
<1>16. WorkerCount(k.chunks) \in Nat
  BY <1>1, <1>12, BlockCopyAssumptions
<1>17. Busy(k, worker'[c], buffer')
  <2>1. k.batch \in Batches[k.vol] /\ k.chunks = Chunks(k.batch)
    BY <1>1, <1>12 DEF Busy
  <2>2. k.pc = "acquire" => worker'[c] = <<>> /\ Len(k.bufs) < WorkerCount(k.chunks)
    <3>. SUFFICES ASSUME k.pc = "acquire"
                  PROVE  worker'[c] = <<>> /\ Len(k.bufs) < WorkerCount(k.chunks)
      OBVIOUS
    <3>1. ~full
      BY <1>12
    <3>2. Len(bufs) # WorkerCount(k.chunks)
      BY <1>3, <1>12, <3>1
    <3>. QED  BY <1>5, <1>11, <1>12, <1>15, <1>16, <3>1, <3>2
  <2>3. k.pc = "copy" =>
          /\ Len(k.bufs) = WorkerCount(k.chunks)
          /\ worker'[c] \in [1..Len(k.bufs) -> WorkerSet]
          /\ \A w \in 1..Len(k.bufs) : ~worker'[c][w].read
    <3>. SUFFICES ASSUME k.pc = "copy"
                  PROVE  /\ Len(k.bufs) = WorkerCount(k.chunks)
                         /\ worker'[c] \in [1..Len(k.bufs) -> WorkerSet]
                         /\ \A w \in 1..Len(k.bufs) : ~worker'[c][w].read
      OBVIOUS
    <3>1. full
      BY <1>12
    <3>2. worker'[c] = [w \in 1..Len(bufs) |-> [next |-> w, read |-> FALSE]]
      BY <1>5, <1>6, <3>1
    <3>3. \A w \in 1..Len(bufs) : [next |-> w, read |-> FALSE] \in WorkerSet
      BY <1>11 DEF WorkerSet
    <3>4. Len(k.bufs) = WorkerCount(k.chunks)
      BY <1>3, <1>12, <3>1
    <3>5. worker'[c] \in [1..Len(bufs) -> WorkerSet]
      BY <3>2, <3>3
    <3>6. \A w \in 1..Len(bufs) : ~worker'[c][w].read
      BY <3>2
    <3>. QED  BY <1>12, <3>4, <3>5, <3>6
  <2>. QED  BY <1>12, <1>14, <2>1, <2>2, <2>3 DEF Busy
<1>18. ASSUME NEW d \in Call
       PROVE  CallOk(call'[d], worker'[d], buffer')
  <2>1. CASE d = c
    BY <1>6, <1>7, <1>12, <1>17, <2>1 DEF CallOk
  <2>2. CASE d # c
    <3>1. call'[d] = call[d] /\ worker'[d] = worker[d]
      BY <1>5, <1>6, <1>7, <2>2
    <3>. QED  BY <1>8, <1>9, <2>2, <3>1, OthersOk
  <2>. QED  BY <2>1, <2>2
<1>19. DOMAIN call' = Call /\ DOMAIN worker' = Call
  BY <1>5, <1>6, <1>7
<1>. QED  BY <1>5, <1>13, <1>18, <1>19

(* acquire takes the last buffer out of the pool, if there is one. *)
LEMMA PopOk ==
    ASSUME ServerInv, NEW n
    PROVE  /\ BigEnough(n) = {} =>
                 Sound(Len(buffer), Rest, HeldBy, freed \cup TooSmall(n))
           /\ \A p \in BigEnough(n) :
                 /\ p \in 1..Len(buffer) /\ p \notin freed /\ buffer[p].cap >= n
                 /\ Sound(Len(buffer), Rest, HeldBy, freed \cup {p})
<1>1. Sound(Len(buffer), pool, HeldBy, freed) /\ Len(buffer) \in Nat
  BY DEF ServerInv, StateOk
<1>2. CASE pool = <<>>
  <2>1. Popped = {} /\ BigEnough(n) = {} /\ TooSmall(n) = {} /\ Rest = pool
    BY <1>2 DEF Popped, BigEnough, TooSmall, Rest
  <2>2. freed \cup TooSmall(n) = freed
    BY <2>1
  <2>. QED  BY <1>1, <2>1, <2>2
<1>3. CASE pool # <<>>
  <2>1. PICK x : x = pool[Len(pool)]
    OBVIOUS
  <2>2. Popped = {x} /\ Rest = Front(pool)
    BY <1>3, <2>1 DEF Popped, Rest
  <2>3. Sound(Len(buffer), Rest, HeldBy, freed \cup {x}) /\ x \in (1..Len(buffer)) \ freed
    BY <1>1, <1>3, <2>1, <2>2, SoundPop
  <2>4. BigEnough(n) = {} => TooSmall(n) = {x}
    BY <2>2 DEF TooSmall
  <2>5. \A p \in BigEnough(n) : p = x /\ buffer[p].cap >= n
    BY <2>2 DEF BigEnough
  <2>. QED  BY <2>3, <2>4, <2>5
<1>. QED  BY <1>2, <1>3

LEMMA AcquirePooledOk ==
    ASSUME ServerInv, NEW c \in Call, AcquirePooled(c)
    PROVE  ServerInv'
<1>1. PICK n : n = MaxSizeOf(call[c].chunks)
  OBVIOUS
<1>2. PICK p \in BigEnough(n) : Take(c, p) /\ pool' = Rest
  BY <1>1 DEF AcquirePooled
<1>3. call[c].pc = "acquire" /\ buffer' = buffer /\ freed' = freed
  BY DEF AcquirePooled
<1>4. /\ p \in 1..Len(buffer) /\ p \notin freed /\ buffer[p].cap >= n
      /\ Sound(Len(buffer), Rest, HeldBy, freed \cup {p})
  BY PopOk
<1>5. StateOk /\ buffer \in Seq(BufferSet) /\ Len(buffer) \in Nat
  BY DEF ServerInv, StateOk
<1>6. /\ content' = content /\ volume' = volume /\ promised' = promised
      /\ DOMAIN call' = Call /\ DOMAIN worker' = Call
      /\ HeldBy' = [HeldBy EXCEPT ![c] = Append(HeldBy[c], p)]
      /\ \A d \in Call : CallOk(call'[d], worker'[d], buffer')
  BY <1>1, <1>2, <1>3, <1>4, <1>5, TakeOk
<1>7. Sound(Len(buffer), Rest, HeldBy', freed)
  <2>1. (freed \cup {p}) \ {p} = freed /\ p \in freed \cup {p}
    BY <1>4
  <2>2. Sound(Len(buffer), Rest, [HeldBy EXCEPT ![c] = Append(HeldBy[c], p)],
              (freed \cup {p}) \ {p})
    BY <1>4, <1>5, <2>1, SoundTake
  <2>. QED  BY <1>6, <2>1, <2>2
<1>8. StateOk'
  BY <1>3, <1>5, <1>6 DEF StateOk
<1>9. CapsOk'
  BY <1>3 DEF ServerInv, CapsOk
<1>. QED  BY <1>2, <1>3, <1>6, <1>7, <1>8, <1>9 DEF ServerInv

(* A buffer of whole pages, as large as was asked for. *)
LEMMA CapacityIs ==
    ASSUME NEW n \in Nat
    PROVE  Capacity(n) \in Nat /\ Capacity(n) >= n /\ Capacity(n) % PageSlots = 0
<1>1. PageSlots \in Nat \ {0}
  BY BlockCopyAssumptions
<1>2. AlignUp(n) \in Nat /\ n <= AlignUp(n)
  BY AlignUpCovers
<1>3. PICK q \in Int : q = (n + PageSlots - 1) \div PageSlots
  BY <1>1
<1>4. PICK a \in Nat : a = AlignUp(n) /\ a = q * PageSlots
  BY <1>2, <1>3 DEF AlignUp
<1>5. PICK p \in Int, r \in 0..PageSlots - 1 : r = a % PageSlots /\ a = PageSlots * p + r
  BY <1>1, Division
<1>6. 0 \in 0..PageSlots - 1 /\ PageSlots * q + 0 = q * PageSlots /\ PageSlots * q \in Int
  BY <1>1
<1>7. PageSlots * q + 0 = PageSlots * p + r
  BY <1>4, <1>5, <1>6
<1>8. 0 = r
  BY <1>1, <1>6, <1>7, DivisionUnique
<1>. QED  BY <1>2, <1>4, <1>5, <1>8 DEF Capacity

LEMMA AcquireNewOk ==
    ASSUME ServerInv, NEW c \in Call, AcquireNew(c)
    PROVE  ServerInv'
<1>1. PICK n : n = MaxSizeOf(call[c].chunks)
  OBVIOUS
<1>2. PICK N \in Nat : N = Len(buffer)
  BY BufferCount
<1>3. PICK e : e = [cap |-> Capacity(n), data |-> <<>>]
  OBVIOUS
<1>4. /\ call[c].pc = "acquire" /\ BigEnough(n) = {} /\ buffer' = Append(buffer, e)
      /\ Take(c, N + 1) /\ freed' = freed \cup TooSmall(n) /\ pool' = Rest
  BY <1>1, <1>2, <1>3 DEF AcquireNew
<1>5. n \in Nat
  BY <1>1, <1>4, BusyFacts
<1>6. e \in BufferSet /\ e.cap >= n /\ Len(e.data) <= e.cap /\ e.cap % PageSlots = 0
  <2>1. PICK cap \in Nat : cap = Capacity(n) /\ cap >= n /\ cap % PageSlots = 0
    BY <1>5, CapacityIs
  <2>2. <<>> \in Seq(SlotContent) /\ Len(<<>>) = 0
    OBVIOUS
  <2>3. e = [cap |-> cap, data |-> <<>>]
    BY <1>3, <2>1
  <2>. QED  BY <2>1, <2>2, <2>3 DEF BufferSet
<1>7. StateOk /\ buffer \in Seq(BufferSet)
  BY DEF ServerInv, StateOk
<1>8. /\ buffer' \in Seq(BufferSet) /\ Len(buffer') = N + 1 /\ buffer'[N + 1] = e
      /\ \A i \in 1..N : buffer'[i] = buffer[i]
  BY <1>2, <1>4, <1>6, <1>7
<1>9. Len(buffer) <= Len(buffer') /\ N + 1 \in 1..Len(buffer')
  BY <1>2, <1>8
<1>10. /\ content' = content /\ volume' = volume /\ promised' = promised
       /\ DOMAIN call' = Call /\ DOMAIN worker' = Call
       /\ HeldBy' = [HeldBy EXCEPT ![c] = Append(HeldBy[c], N + 1)]
       /\ \A d \in Call : CallOk(call'[d], worker'[d], buffer')
  <2>1. PICK p : p = N + 1
    OBVIOUS
  <2>2. Take(c, p) /\ p \in 1..Len(buffer') /\ buffer'[p].cap >= MaxSizeOf(call[c].chunks)
    BY <1>1, <1>4, <1>6, <1>8, <1>9, <2>1
  <2>3. \A i \in 1..Len(buffer) : buffer'[i] = buffer[i]
    BY <1>2, <1>8
  <2>. QED  BY <1>4, <1>8, <1>9, <2>1, <2>2, <2>3, TakeOk
<1>11. Sound(N + 1, Rest, HeldBy', freed')
  <2>1. PICK F : F = freed \cup TooSmall(n)
    OBVIOUS
  <2>2. Sound(N, Rest, HeldBy, F)
    BY <1>2, <1>4, <2>1, PopOk
  <2>3. Sound(N + 1, Rest, HeldBy, F \cup {N + 1}) /\ N + 1 \notin F
    BY <2>2, SoundNew
  <2>4. PICK x : x = N + 1
    OBVIOUS
  <2>5. (F \cup {x}) \ {x} = F /\ x \in F \cup {x}
    BY <2>3, <2>4
  <2>6. N + 1 \in Nat
    OBVIOUS
  <2>7. Sound(N + 1, Rest, [HeldBy EXCEPT ![c] = Append(HeldBy[c], x)], (F \cup {x}) \ {x})
    BY <2>3, <2>4, <2>5, <2>6, SoundTake
  <2>. QED  BY <1>4, <1>10, <2>1, <2>4, <2>5, <2>7
<1>12. StateOk'
  BY <1>7, <1>8, <1>10 DEF StateOk
<1>13. CapsOk'
  <2>1. \A i \in 1..N + 1 : i \in 1..N \/ i = N + 1
    OBVIOUS
  <2>. QED  BY <1>2, <1>6, <1>8, <2>1 DEF ServerInv, CapsOk
<1>. QED  BY <1>4, <1>8, <1>10, <1>11, <1>12, <1>13 DEF ServerInv

(* A request gives its buffers back and ends. *)
LEMMA ReleaseOk ==
    ASSUME ServerInv, NEW c \in Call, call[c].pc # "idle", call' = [call EXCEPT ![c] = Idle],
           NEW p, NEW F, Sound(Len(buffer), p, HeldBy, F)
    PROVE  Sound(Len(buffer), Released(p, c), HeldBy', F)
<1>1. <<>> = IF Idle.pc = "idle" THEN <<>> ELSE Idle.bufs
  BY DEF Idle
<1>2. HeldBy' = [HeldBy EXCEPT ![c] = <<>>]
  BY <1>1, HeldUpdate
<1>3. HeldBy[c] = call[c].bufs
  BY BusyFacts
<1>4. Len(buffer) \in Nat
  BY DEF ServerInv, StateOk
<1>5. Sound(Len(buffer), p \o HeldBy[c], [HeldBy EXCEPT ![c] = <<>>], F)
  BY <1>4, SoundRelease
<1>. QED  BY <1>2, <1>3, <1>5 DEF Released

LEMMA AcquireFailsOk ==
    ASSUME ServerInv, NEW c \in Call, AcquireFails(c)
    PROVE  ServerInv'
<1>1. PICK n : n = MaxSizeOf(call[c].chunks)
  OBVIOUS
<1>2. /\ call[c].pc = "acquire" /\ BigEnough(n) = {} /\ freed' = freed \cup TooSmall(n)
      /\ pool' = Released(Rest, c) /\ call' = [call EXCEPT ![c] = Idle]
      /\ content' = content /\ volume' = volume /\ promised' = promised
      /\ buffer' = buffer /\ worker' = worker
  BY <1>1 DEF AcquireFails
<1>3. call[c].pc # "idle"
  BY <1>2
<1>4. Sound(Len(buffer), Rest, HeldBy, freed \cup TooSmall(n))
  BY <1>2, PopOk
<1>5. Sound(Len(buffer), Released(Rest, c), HeldBy', freed \cup TooSmall(n))
  BY <1>2, <1>3, <1>4, ReleaseOk
<1>6. StateOk'
  BY <1>2 DEF ServerInv, StateOk
<1>7. CapsOk'
  BY <1>2 DEF ServerInv, CapsOk
<1>8. ASSUME NEW d \in Call
      PROVE  CallOk(call'[d], worker'[d], buffer')
  <2>1. CASE d = c
    <3>1. worker[c] = <<>>
      BY <1>2, <1>3, BusyFacts DEF Busy
    <3>2. call'[c] = Idle
      BY <1>2 DEF ServerInv, StateOk
    <3>. QED  BY <1>2, <2>1, <3>1, <3>2 DEF CallOk
  <2>2. CASE d # c
    <3>1. call'[d] = call[d]
      BY <1>2, <2>2 DEF ServerInv, StateOk
    <3>. QED  BY <1>2, <3>1 DEF ServerInv
  <2>. QED  BY <2>1, <2>2
<1>. QED  BY <1>2, <1>5, <1>6, <1>7, <1>8 DEF ServerInv

LEMMA FinishOk ==
    ASSUME ServerInv, NEW c \in Call, Finish(c)
    PROVE  ServerInv'
<1>1. /\ call[c].pc = "copy" /\ pool' = Released(pool, c)
      /\ call' = [call EXCEPT ![c] = Idle] /\ worker' = [worker EXCEPT ![c] = <<>>]
      /\ content' = content /\ volume' = volume /\ freed' = freed
      /\ promised' = IF Succeeded(c)
                     THEN [promised EXCEPT ![call[c].vol] = @ \cup OwnSlots(call[c].batch)]
                     ELSE promised
  BY DEF Finish
<1>2. PICK R : R = Range(call[c].bufs)
  OBVIOUS
<1>3. buffer' = [b \in DOMAIN buffer |->
                     IF b \in R THEN [buffer[b] EXCEPT !.data = <<>>] ELSE buffer[b]]
  BY <1>2 DEF Finish
<1>4. call[c].pc # "idle"
  BY <1>1
<1>5. /\ call[c] \in CallSet /\ Busy(call[c], worker[c], buffer)
      /\ HeldBy[c] = call[c].bufs /\ call[c].bufs \in Seq(1..Len(buffer))
  BY <1>4, BusyFacts
<1>6. PICK N \in Nat : N = Len(buffer)
  BY BufferCount
<1>7. buffer \in Seq(BufferSet) /\ DOMAIN buffer = 1..N
  BY <1>6 DEF ServerInv, StateOk
<1>8. \A i \in 1..N : /\ buffer[i] \in BufferSet
                      /\ buffer'[i] \in BufferSet /\ buffer'[i].cap = buffer[i].cap
                      /\ i \in R => buffer'[i].data = <<>>
                      /\ i \notin R => buffer'[i] = buffer[i]
  <2>1. ASSUME NEW i \in 1..N
        PROVE  /\ buffer[i] \in BufferSet
               /\ buffer'[i] \in BufferSet /\ buffer'[i].cap = buffer[i].cap
               /\ i \in R => buffer'[i].data = <<>>
               /\ i \notin R => buffer'[i] = buffer[i]
    <3>1. PICK e \in BufferSet : e = buffer[i]
      BY <1>6, <1>7
    <3>0. e.cap \in Nat /\ <<>> \in Seq(SlotContent)
      BY DEF BufferSet
    <3>2. /\ [e EXCEPT !.data = <<>>] \in BufferSet
          /\ [e EXCEPT !.data = <<>>].cap = e.cap /\ [e EXCEPT !.data = <<>>].data = <<>>
      BY <3>0 DEF BufferSet
    <3>3. buffer'[i] = IF i \in R THEN [e EXCEPT !.data = <<>>] ELSE e
      BY <1>3, <1>7, <3>1
    <3>. QED  BY <3>1, <3>2, <3>3
  <2>. QED  BY <2>1
<1>9. buffer' \in Seq(BufferSet) /\ Len(buffer') = N
  <2>1. buffer' \in [1..N -> BufferSet]
    BY <1>3, <1>7, <1>8
  <2>. QED  BY <2>1
<1>10. StateOk'
  <2>1. promised' \in [Volume -> SUBSET Slot]
    <3>1. OwnSlots(call[c].batch) \subseteq Slot
      <4>0. PICK v \in Volume : v = call[c].vol
        BY <1>5 DEF CallSet
      <4>1. PICK b \in Batches[v] : b = call[c].batch
        BY <1>5, <4>0 DEF Busy
      <4>2. b.start \in Nat /\ b.len \in Nat /\ b.start + b.len <= RingSize
        BY ChunksAre
      <4>3. RingSize \in Nat
        BY BlockCopyAssumptions
      <4>. QED  BY <4>1, <4>2, <4>3 DEF OwnSlots, Slot
    <3>2. promised \in [Volume -> SUBSET Slot]
      BY DEF ServerInv, StateOk
    <3>. QED  BY <1>1, <3>1, <3>2
  <2>. QED  BY <1>1, <1>9, <2>1 DEF ServerInv, StateOk
<1>11. CapsOk'
  <2>1. ASSUME NEW i \in 1..N
        PROVE  Len(buffer'[i].data) <= buffer'[i].cap /\ buffer'[i].cap % PageSlots = 0
    <3>1. Len(buffer[i].data) <= buffer[i].cap /\ buffer[i].cap % PageSlots = 0
      BY <1>6 DEF ServerInv, CapsOk
    <3>2. buffer[i].cap \in Nat /\ Len(<<>>) = 0
      BY <1>8 DEF BufferSet
    <3>. QED  BY <1>8, <3>1, <3>2
  <2>. QED  BY <1>9, <2>1 DEF CapsOk
<1>12. Sound(Len(buffer), Released(pool, c), HeldBy', freed)
  BY <1>1, <1>4, ReleaseOk DEF ServerInv
<1>13. ASSUME NEW d \in Call
       PROVE  CallOk(call'[d], worker'[d], buffer')
  <2>1. CASE d = c
    BY <1>1, <2>1 DEF CallOk, ServerInv, StateOk
  <2>2. CASE d # c
    <3>1. call'[d] = call[d] /\ worker'[d] = worker[d]
      BY <1>1, <2>2 DEF ServerInv, StateOk
    <3>2. \A i \in 1..N : (\A j \in 1..Len(HeldBy[c]) : i # HeldBy[c][j]) => i \notin R
      <4>1. R = {call[c].bufs[j] : j \in DOMAIN call[c].bufs}
        BY <1>2 DEF Range
      <4>2. DOMAIN call[c].bufs = 1..Len(HeldBy[c])
        BY <1>5
      <4>. QED  BY <1>5, <4>1, <4>2
    <3>3. \A i \in 1..Len(buffer) :
             (\A j \in 1..Len(HeldBy[c]) : i # HeldBy[c][j]) => buffer'[i] = buffer[i]
      BY <1>6, <1>8, <3>2
    <3>4. Len(buffer') \in Nat /\ Len(buffer) <= Len(buffer')
      BY <1>6, <1>9
    <3>. QED  BY <2>2, <3>1, <3>3, <3>4, OthersOk
  <2>. QED  BY <2>1, <2>2
<1>. QED  BY <1>1, <1>6, <1>9, <1>10, <1>11, <1>12, <1>13 DEF ServerInv

(* A worker at work has a chunk and a buffer of its own that it fits in. *)
LEMMA WorkerFacts ==
    ASSUME ServerInv, NEW c \in Call, NEW w \in DOMAIN worker[c], Ready(c, w)
    PROVE  /\ call[c].pc # "idle" /\ call[c].pc = "copy"
           /\ call[c] \in CallSet /\ Busy(call[c], worker[c], buffer)
           /\ w \in 1..Len(call[c].bufs)
           /\ worker[c] \in [1..Len(call[c].bufs) -> WorkerSet]
           /\ worker[c][w].next \in 1..Len(call[c].chunks)
           /\ ChunkOf(c, w) \in ChunkSet
           /\ BufferOf(c, w) \in 1..Len(buffer)
           /\ ChunkOf(c, w).n \in Nat /\ ChunkOf(c, w).n <= buffer[BufferOf(c, w)].cap
<1>1. call[c].pc # "idle" /\ call[c].pc = "copy"
  BY DEF Ready
<1>2. /\ call[c] \in CallSet /\ Busy(call[c], worker[c], buffer)
      /\ call[c].chunks \in Seq(ChunkSet)
      /\ MaxSizeOf(call[c].chunks) \in Nat
      /\ \A i \in 1..Len(call[c].chunks) :
            /\ call[c].chunks[i].n \in Nat
            /\ call[c].chunks[i].n <= MaxSizeOf(call[c].chunks)
      /\ call[c].bufs \in Seq(1..Len(buffer))
  BY <1>1, BusyFacts
<1>3. worker[c] \in [1..Len(call[c].bufs) -> WorkerSet]
  BY <1>1, <1>2 DEF Busy
<1>4. w \in 1..Len(call[c].bufs)
  BY <1>3
<1>5. worker[c][w] \in WorkerSet
  BY <1>3, <1>4
<1>6. PICK i \in 1..Len(call[c].chunks) : i = worker[c][w].next
  <2>1. worker[c][w].next \in Nat \ {0} /\ worker[c][w].next <= Len(call[c].chunks)
    BY <1>5 DEF Ready, WorkerSet
  <2>2. Len(call[c].chunks) \in Nat
    BY <1>2
  <2>. QED  BY <2>1, <2>2
<1>7. ChunkOf(c, w) = call[c].chunks[i] /\ ChunkOf(c, w) \in ChunkSet
  BY <1>2, <1>6, SMTT(30) DEF ChunkOf
<1>8. PICK b \in 1..Len(buffer) : b = BufferOf(c, w)
  BY <1>2, <1>4, SMTT(30) DEF BufferOf
<1>9. buffer[b].cap >= MaxSizeOf(call[c].chunks)
  BY <1>2, <1>4, <1>8 DEF Busy, BufferOf
<1>10. PICK x \in Nat, y \in Nat :
          x = ChunkOf(c, w).n /\ y = MaxSizeOf(call[c].chunks) /\ x <= y
  BY <1>2, <1>7
<1>11. buffer[b].cap \in Nat
  <2>1. buffer[b] \in BufferSet
    BY <1>8 DEF ServerInv, StateOk
  <2>. QED  BY <2>1 DEF BufferSet
<1>12. x <= buffer[b].cap
  BY <1>9, <1>10, <1>11
<1>. QED  BY <1>1, <1>2, <1>3, <1>4, <1>6, <1>7, <1>8, <1>10, <1>12

(* A step that leaves the calls' buffers where they are. *)
LEMMA HeldSame ==
    ASSUME DOMAIN call = Call, DOMAIN call' = Call,
           \A c \in Call : /\ call'[c].pc = call[c].pc
                           /\ call[c].pc # "idle" => call'[c].bufs = call[c].bufs
    PROVE  HeldBy' = HeldBy
<1>1. \A c \in Call : Held(c)' = Held(c)
  BY DEF Held
<1>2. HeldBy' = [c \in Call |-> Held(c)']
  BY DEF HeldBy
<1>. QED  BY <1>1, <1>2 DEF HeldBy

LEMMA ReadOk ==
    ASSUME ServerInv, NEW c \in Call, NEW w \in DOMAIN worker[c], Read(c, w)
    PROVE  ServerInv'
<1>1. PICK p : p = ChunkOf(c, w)
  OBVIOUS
<1>2. PICK x : x = BufferOf(c, w)
  OBVIOUS
<1>3. PICK D : D = [i \in 1..p.n |-> IF p.src + i - 1 \in Slot
                                     THEN content[p.src + i - 1] ELSE Garbage]
  OBVIOUS
<1>4. /\ Ready(c, w) /\ buffer' = [buffer EXCEPT ![x].data = D]
      /\ worker' = [worker EXCEPT ![c][w].read = TRUE]
      /\ content' = content /\ volume' = volume /\ promised' = promised
      /\ pool' = pool /\ freed' = freed /\ call' = call
  BY <1>1, <1>2, <1>3 DEF Read
<1>5. /\ call[c].pc # "idle" /\ call[c].pc = "copy"
      /\ call[c] \in CallSet /\ Busy(call[c], worker[c], buffer)
      /\ w \in 1..Len(call[c].bufs)
      /\ worker[c] \in [1..Len(call[c].bufs) -> WorkerSet]
      /\ worker[c][w].next \in 1..Len(call[c].chunks)
      /\ p \in ChunkSet /\ x \in 1..Len(buffer)
      /\ p.n \in Nat /\ p.n <= buffer[x].cap
  BY <1>1, <1>2, <1>4, WorkerFacts
<1>6. D \in Seq(SlotContent) /\ Len(D) = p.n
  <2>1. \A i \in 1..p.n : (IF p.src + i - 1 \in Slot
                           THEN content[p.src + i - 1] ELSE Garbage) \in SlotContent
    <3>1. \A y \in Slot : content[y] \in Nat
      BY DEF ServerInv, StateOk
    <3>. QED  BY <3>1 DEF SlotContent
  <2>2. PICK k \in Nat : k = p.n
    BY <1>5
  <2>3. D \in [1..k -> SlotContent]
    BY <1>3, <2>1, <2>2
  <2>4. D \in Seq(SlotContent) /\ Len(D) = k
    BY <2>3
  <2>. QED  BY <2>2, <2>4
<1>7. PICK N \in Nat : N = Len(buffer)
  BY BufferCount
<1>8. buffer \in Seq(BufferSet) /\ DOMAIN buffer = 1..N /\ \A i \in 1..N : buffer[i] \in BufferSet
  BY <1>7 DEF ServerInv, StateOk
<1>9. PICK e : e = [buffer[x] EXCEPT !.data = D]
  OBVIOUS
<1>10. buffer' = [buffer EXCEPT ![x] = e]
  BY <1>4, <1>9
<1>11. e \in BufferSet /\ e.cap = buffer[x].cap /\ e.data = D
  BY <1>5, <1>6, <1>7, <1>8, <1>9 DEF BufferSet
<1>12. /\ buffer' \in Seq(BufferSet) /\ Len(buffer') = N /\ buffer'[x] = e
       /\ \A i \in 1..N : i # x => buffer'[i] = buffer[i]
  BY <1>5, <1>7, <1>8, <1>10, <1>11
<1>13. DOMAIN call = Call /\ DOMAIN worker = Call
  BY DEF ServerInv, StateOk
<1>14. StateOk'
  BY <1>4, <1>12, <1>13 DEF ServerInv, StateOk
<1>15. HeldBy' = HeldBy
  BY <1>4, <1>13, HeldSame
<1>16. CapsOk'
  BY <1>5, <1>6, <1>7, <1>11, <1>12 DEF ServerInv, CapsOk
<1>17. PICK ws : ws = [worker[c] EXCEPT ![w].read = TRUE]
  OBVIOUS
<1>18. worker' = [worker EXCEPT ![c] = ws]
  BY <1>4, <1>13, <1>17
<1>19. /\ ws \in [1..Len(call[c].bufs) -> WorkerSet] /\ ws[w].next = worker[c][w].next
       /\ \A i \in 1..Len(call[c].bufs) : i # w => ws[i] = worker[c][i]
  <2>1. worker[c][w] \in WorkerSet
    BY <1>5
  <2>2. PICK r : r = [worker[c][w] EXCEPT !.read = TRUE]
    OBVIOUS
  <2>3. r \in WorkerSet /\ r.next = worker[c][w].next
    BY <2>1, <2>2 DEF WorkerSet
  <2>4. ws = [worker[c] EXCEPT ![w] = r]
    BY <1>17, <2>2
  <2>. QED  BY <1>5, <2>3, <2>4
<1>20. Busy(call[c], ws, buffer')
  <2>1. PICK k : k = call[c]
    OBVIOUS
  <2>2. \A j \in 1..Len(k.bufs) :
           k.bufs[j] \in 1..Len(buffer') /\ buffer'[k.bufs[j]].cap >= MaxSizeOf(k.chunks)
    <3>1. \A j \in 1..Len(k.bufs) :
             k.bufs[j] \in 1..N /\ buffer[k.bufs[j]].cap >= MaxSizeOf(k.chunks)
      BY <1>5, <1>7, <2>1 DEF Busy
    <3>2. \A i \in 1..N : buffer'[i].cap = buffer[i].cap
      BY <1>11, <1>12
    <3>. QED  BY <1>12, <3>1, <3>2
  <2>3. ASSUME NEW j \in 1..Len(k.bufs), ws[j].read, ws[j].next <= Len(k.chunks)
        PROVE  Len(buffer'[k.bufs[j]].data) = k.chunks[ws[j].next].n
    <3>1. CASE j = w
      <4>1. k.bufs[j] = x /\ k.chunks[ws[j].next] = p
        BY <1>1, <1>2, <1>19, <2>1, <3>1 DEF BufferOf, ChunkOf
      <4>. QED  BY <1>6, <1>11, <1>12, <4>1
    <3>2. CASE j # w
      <4>1. HeldBy[c] = call[c].bufs /\ call[c].bufs \in Seq(1..N)
        BY <1>5, <1>7, BusyFacts
      <4>2. k.bufs[j] # k.bufs[w]
        <5>1. HeldOnce(HeldBy) /\ j \in 1..Len(HeldBy[c]) /\ w \in 1..Len(HeldBy[c])
          BY <1>5, <2>1, <4>1 DEF ServerInv, Sound
        <5>2. HeldBy[c][j] # HeldBy[c][w]
          BY <3>2, <5>1 DEF HeldOnce
        <5>. QED  BY <2>1, <4>1, <5>2
      <4>3. k.bufs[j] # x /\ k.bufs[j] \in 1..N
        BY <1>2, <2>1, <4>1, <4>2 DEF BufferOf
      <4>4. buffer'[k.bufs[j]] = buffer[k.bufs[j]]
        BY <1>12, <4>3
      <4>5. ws[j] = worker[c][j]
        BY <1>19, <2>1, <3>2
      <4>6. Len(buffer[k.bufs[j]].data) = k.chunks[worker[c][j].next].n
        BY <1>5, <2>1, <2>3, <4>5 DEF Busy
      <4>. QED  BY <4>4, <4>5, <4>6
    <3>. QED  BY <3>1, <3>2
  <2>. QED  BY <1>5, <1>19, <2>1, <2>2, <2>3 DEF Busy
<1>21. ASSUME NEW d \in Call
       PROVE  CallOk(call'[d], worker'[d], buffer')
  <2>1. CASE d = c
    BY <1>4, <1>5, <1>13, <1>18, <1>20, <2>1 DEF CallOk
  <2>2. CASE d # c
    <3>1. call'[d] = call[d] /\ worker'[d] = worker[d]
      BY <1>4, <1>13, <1>18, <2>2
    <3>2. \A i \in 1..Len(buffer) :
             (\A j \in 1..Len(HeldBy[c]) : i # HeldBy[c][j]) => buffer'[i] = buffer[i]
      <4>1. HeldBy[c] = call[c].bufs
        BY <1>5, BusyFacts
      <4>2. x = HeldBy[c][w] /\ w \in 1..Len(HeldBy[c])
        BY <1>2, <1>5, <4>1 DEF BufferOf
      <4>. QED  BY <1>7, <1>12, <4>2
    <3>3. Len(buffer') \in Nat /\ Len(buffer) <= Len(buffer')
      BY <1>7, <1>12
    <3>. QED  BY <2>2, <3>1, <3>2, <3>3, OthersOk
  <2>. QED  BY <2>1, <2>2
<1>. QED  BY <1>4, <1>7, <1>12, <1>14, <1>15, <1>16, <1>21 DEF ServerInv

(* A step of one request and its workers alone. *)
LEMMA CallStepOk ==
    ASSUME ServerInv, NEW c \in Call, NEW k \in CallSet, NEW ws, call[c].pc # "idle",
           k.pc = call[c].pc, k.bufs = call[c].bufs,
           DOMAIN call' = Call, DOMAIN worker' = Call, call'[c] = k, worker'[c] = ws,
           \A d \in Call : d # c => call'[d] = call[d] /\ worker'[d] = worker[d],
           Busy(k, ws, buffer),
           pool' = pool, buffer' = buffer, freed' = freed,
           content' = content, promised' = promised,
           volume' \in [Volume -> [Slot -> SlotContent]]
    PROVE  ServerInv'
<1>1. DOMAIN call = Call
  BY DEF ServerInv, StateOk
<1>2. StateOk'
  BY DEF ServerInv, StateOk
<1>3. HeldBy' = HeldBy
  <2>1. \A d \in Call : /\ call'[d].pc = call[d].pc
                        /\ call[d].pc # "idle" => call'[d].bufs = call[d].bufs
    OBVIOUS
  <2>. QED  BY <1>1, <2>1, HeldSame
<1>4. CapsOk'
  BY DEF ServerInv, CapsOk
<1>5. ASSUME NEW d \in Call
      PROVE  CallOk(call'[d], worker'[d], buffer')
  <2>1. CASE d = c
    BY <2>1 DEF CallOk
  <2>2. CASE d # c
    BY <2>2 DEF ServerInv
  <2>. QED  BY <2>1, <2>2
<1>. QED  BY <1>2, <1>3, <1>4, <1>5 DEF ServerInv

(* Only one worker moves on. *)
LEMMA MoveOnOk ==
    ASSUME NEW k, NEW kk, NEW ws, NEW vs, NEW bs, NEW w,
           Busy(k, ws, bs), k.pc = "copy", kk.pc = "copy", w \in 1..Len(k.bufs),
           kk.batch = k.batch, kk.vol = k.vol, kk.chunks = k.chunks, kk.bufs = k.bufs,
           vs \in [1..Len(k.bufs) -> WorkerSet],
           ~(vs[w].read /\ vs[w].next <= Len(k.chunks)),
           \A i \in 1..Len(k.bufs) : i # w => vs[i] = ws[i]
    PROVE  Busy(kk, vs, bs)
<1>1. ASSUME NEW i \in 1..Len(k.bufs), vs[i].read, vs[i].next <= Len(k.chunks)
      PROVE  Len(bs[k.bufs[i]].data) = k.chunks[vs[i].next].n
  <2>1. i # w /\ vs[i] = ws[i]
    BY <1>1
  <2>. QED  BY <1>1, <2>1 DEF Busy
<1>. QED  BY <1>1 DEF Busy

LEMMA WriteOk ==
    ASSUME ServerInv, NEW c \in Call, NEW w \in DOMAIN worker[c], Write(c, w)
    PROVE  ServerInv'
<1>1. PICK p : p = ChunkOf(c, w)
  OBVIOUS
<1>2. PICK data : data = buffer[BufferOf(c, w)].data
  OBVIOUS
<1>3. /\ Ready(c, w) /\ worker[c][w].read
      /\ volume' = [volume EXCEPT ![call[c].vol] =
                       [s \in Slot |-> IF s \in p.dst..p.dst + p.n - 1
                                       THEN data[s - p.dst + 1] ELSE @[s]]]
      /\ worker' = [worker EXCEPT ![c][w] = [next |-> @.next + Stride(c), read |-> FALSE]]
      /\ content' = content /\ promised' = promised
      /\ pool' = pool /\ freed' = freed /\ call' = call /\ buffer' = buffer
  BY <1>1, <1>2 DEF Write
<1>4. /\ call[c].pc # "idle" /\ call[c].pc = "copy"
      /\ call[c] \in CallSet /\ Busy(call[c], worker[c], buffer)
      /\ w \in 1..Len(call[c].bufs)
      /\ worker[c] \in [1..Len(call[c].bufs) -> WorkerSet]
      /\ worker[c][w].next \in 1..Len(call[c].chunks)
      /\ p \in ChunkSet /\ BufferOf(c, w) \in 1..Len(buffer)
      /\ p.n \in Nat
  BY <1>1, <1>3, WorkerFacts
<1>5. DOMAIN call = Call /\ DOMAIN worker = Call
  BY DEF ServerInv, StateOk
<1>6. data \in Seq(SlotContent) /\ Len(data) = p.n
  <2>1. buffer[BufferOf(c, w)] \in BufferSet
    BY <1>4 DEF ServerInv, StateOk
  <2>2. Len(buffer[call[c].bufs[w]].data) = call[c].chunks[worker[c][w].next].n
    BY <1>3, <1>4 DEF Busy, Ready
  <2>. QED  BY <1>1, <1>2, <2>1, <2>2 DEF BufferSet, BufferOf, ChunkOf
<1>7. volume' \in [Volume -> [Slot -> SlotContent]]
  <2>1. PICK v \in Volume : v = call[c].vol
    BY <1>4 DEF CallSet
  <2>2. p.dst \in Nat
    <3>1. p.dst \in Slot
      BY <1>4 DEF ChunkSet
    <3>. QED  BY <3>1, BlockCopyAssumptions DEF Slot
  <2>3. \A s \in p.dst..p.dst + p.n - 1 : s - p.dst + 1 \in 1..p.n
    BY <1>4, <2>2, SMTT(30)
  <2>4. \A s \in p.dst..p.dst + p.n - 1 : data[s - p.dst + 1] \in SlotContent
    BY <1>6, <2>3
  <2>5. volume \in [Volume -> [Slot -> SlotContent]]
    BY DEF ServerInv, StateOk
  <2>6. [s \in Slot |-> IF s \in p.dst..p.dst + p.n - 1
                        THEN data[s - p.dst + 1] ELSE volume[v][s]] \in [Slot -> SlotContent]
    BY <2>4, <2>5
  <2>. QED  BY <1>3, <2>1, <2>5, <2>6
<1>8. PICK n \in Nat : n = worker[c][w].next + Stride(c) /\ n > 0
  <2>1. Len(call[c].bufs) \in Nat /\ worker[c][w].next \in Nat /\ worker[c][w].next > 0
    <3>1. call[c].bufs \in Seq(1..Len(buffer)) /\ call[c].chunks \in Seq(ChunkSet)
      BY <1>4, BusyFacts
    <3>. QED  BY <1>4, <3>1
  <2>2. PICK a \in Nat, b \in Nat : a = worker[c][w].next /\ b = Len(call[c].bufs) /\ a > 0
    BY <2>1
  <2>3. a + b \in Nat /\ a + b > 0
    BY <2>2
  <2>. QED  BY <2>2, <2>3, Zenon DEF Stride
<1>9. PICK vs : vs = [worker[c] EXCEPT ![w] = [next |-> n, read |-> FALSE]]
  OBVIOUS
<1>10. worker' = [worker EXCEPT ![c] = vs]
  BY <1>3, <1>5, <1>8, <1>9
<1>11. /\ vs \in [1..Len(call[c].bufs) -> WorkerSet] /\ ~vs[w].read
       /\ \A i \in 1..Len(call[c].bufs) : i # w => vs[i] = worker[c][i]
  <2>0. n \in Nat \ {0}
    BY <1>8
  <2>1. PICK r : r = [next |-> n, read |-> FALSE]
    OBVIOUS
  <2>2. r \in WorkerSet /\ ~r.read
    BY <2>0, <2>1 DEF WorkerSet
  <2>. QED  BY <1>4, <1>9, <2>1, <2>2
<1>12. Busy(call[c], vs, buffer)
  BY <1>4, <1>11, MoveOnOk
<1>13. /\ DOMAIN call' = Call /\ DOMAIN worker' = Call /\ worker'[c] = vs /\ call'[c] = call[c]
       /\ \A d \in Call : d # c => call'[d] = call[d] /\ worker'[d] = worker[d]
  BY <1>3, <1>5, <1>10
<1>. QED  BY <1>3, <1>4, <1>7, <1>12, <1>13, CallStepOk

LEMMA CopyFailsOk ==
    ASSUME ServerInv, NEW c \in Call, NEW w \in DOMAIN worker[c], CopyFails(c, w)
    PROVE  ServerInv'
<1>1. /\ Ready(c, w) /\ call' = [call EXCEPT ![c].error = TRUE]
      /\ worker' = [worker EXCEPT ![c][w].next = Len(call[c].chunks) + 1]
      /\ content' = content /\ promised' = promised /\ volume' = volume
      /\ pool' = pool /\ freed' = freed /\ buffer' = buffer
  BY DEF CopyFails
<1>2. /\ call[c].pc # "idle" /\ call[c].pc = "copy"
      /\ call[c] \in CallSet /\ Busy(call[c], worker[c], buffer)
      /\ w \in 1..Len(call[c].bufs)
      /\ worker[c] \in [1..Len(call[c].bufs) -> WorkerSet]
  BY <1>1, WorkerFacts
<1>3. DOMAIN call = Call /\ DOMAIN worker = Call
  BY DEF ServerInv, StateOk
<1>4. PICK n \in Nat : n = Len(call[c].chunks)
  <2>1. call[c].chunks \in Seq(ChunkSet)
    BY <1>2, BusyFacts, Zenon
  <2>. QED  BY <2>1
<1>5. PICK k : k = [call[c] EXCEPT !.error = TRUE]
  OBVIOUS
<1>6. /\ k \in CallSet /\ k.pc = call[c].pc /\ k.vol = call[c].vol /\ k.batch = call[c].batch
      /\ k.chunks = call[c].chunks /\ k.bufs = call[c].bufs
  BY <1>2, <1>5 DEF CallSet
<1>7. call' = [call EXCEPT ![c] = k]
  BY <1>1, <1>3, <1>5
<1>8. PICK vs : vs = [worker[c] EXCEPT ![w].next = n + 1]
  OBVIOUS
<1>9. worker' = [worker EXCEPT ![c] = vs]
  BY <1>1, <1>3, <1>4, <1>8
<1>10. /\ vs \in [1..Len(call[c].bufs) -> WorkerSet] /\ vs[w].next = n + 1
       /\ \A i \in 1..Len(call[c].bufs) : i # w => vs[i] = worker[c][i]
  <2>1. worker[c][w] \in WorkerSet
    BY <1>2
  <2>2. PICK r : r = [worker[c][w] EXCEPT !.next = n + 1]
    OBVIOUS
  <2>3. r \in WorkerSet /\ r.next = n + 1
    BY <2>1, <2>2 DEF WorkerSet
  <2>4. vs = [worker[c] EXCEPT ![w] = r]
    BY <1>8, <2>2
  <2>. QED  BY <1>2, <2>3, <2>4
<1>11. ~(vs[w].read /\ vs[w].next <= Len(call[c].chunks))
  BY <1>4, <1>10
<1>12. Busy(k, vs, buffer)
  BY <1>2, <1>6, <1>10, <1>11, MoveOnOk
<1>13. volume' \in [Volume -> [Slot -> SlotContent]]
  BY <1>1 DEF ServerInv, StateOk
<1>14. /\ DOMAIN call' = Call /\ DOMAIN worker' = Call /\ worker'[c] = vs /\ call'[c] = k
       /\ \A d \in Call : d # c => call'[d] = call[d] /\ worker'[d] = worker[d]
  BY <1>3, <1>7, <1>9
<1>. QED  BY <1>1, <1>2, <1>6, <1>12, <1>13, <1>14, CallStepOk

LEMMA CallerGivesUpOk ==
    ASSUME ServerInv, NEW c \in Call, CallerGivesUp(c)
    PROVE  ServerInv'
<1>1. /\ call[c].pc # "idle" /\ call' = [call EXCEPT ![c].late = TRUE]
      /\ content' = content /\ promised' = promised /\ volume' = volume
      /\ pool' = pool /\ freed' = freed /\ buffer' = buffer /\ worker' = worker
  BY DEF CallerGivesUp
<1>2. call[c] \in CallSet /\ Busy(call[c], worker[c], buffer)
  BY <1>1, BusyFacts
<1>3. DOMAIN call = Call /\ DOMAIN worker = Call
  BY DEF ServerInv, StateOk
<1>4. PICK k : k = [call[c] EXCEPT !.late = TRUE]
  OBVIOUS
<1>5. /\ k \in CallSet /\ k.pc = call[c].pc /\ k.vol = call[c].vol /\ k.batch = call[c].batch
      /\ k.chunks = call[c].chunks /\ k.bufs = call[c].bufs
  BY <1>2, <1>4 DEF CallSet
<1>6. call' = [call EXCEPT ![c] = k]
  BY <1>1, <1>3, <1>4
<1>7. /\ DOMAIN call' = Call /\ DOMAIN worker' = Call /\ call'[c] = k
      /\ \A d \in Call : d # c => call'[d] = call[d]
  BY <1>1, <1>3, <1>6
<1>8. Busy(k, worker[c], buffer)
  BY <1>2, <1>5 DEF Busy
<1>9. volume' \in [Volume -> [Slot -> SlotContent]]
  BY <1>1 DEF ServerInv, StateOk
<1>. QED  BY <1>1, <1>5, <1>7, <1>8, <1>9, CallStepOk

LEMMA LeaderWritesOk ==
    ASSUME ServerInv, NEW s \in Reused, LeaderWrites(s)
    PROVE  ServerInv'
<1>1. /\ content' = [content EXCEPT ![s] = @ + RingSize]
      /\ promised' = [v \in Volume |-> promised[v] \ {s}]
      /\ volume' = volume /\ pool' = pool /\ freed' = freed /\ buffer' = buffer
      /\ call' = call /\ worker' = worker
  BY DEF LeaderWrites
<1>2. RingSize \in Nat /\ s \in Slot
  BY BlockCopyAssumptions DEF Slot
<1>3. content' \in [Slot -> Nat]
  BY <1>1, <1>2 DEF ServerInv, StateOk
<1>4. promised' \in [Volume -> SUBSET Slot]
  BY <1>1 DEF ServerInv, StateOk
<1>5. StateOk'
  BY <1>1, <1>3, <1>4 DEF ServerInv, StateOk
<1>6. HeldBy' = HeldBy
  BY <1>1 DEF HeldBy, Held
<1>. QED  BY <1>1, <1>5, <1>6 DEF ServerInv, CapsOk

LEMMA ServerNext == ServerInv /\ [Next]_vars => ServerInv'
<1>. SUFFICES ASSUME ServerInv, [Next]_vars
              PROVE  ServerInv'
  OBVIOUS
<1>1. CASE UNCHANGED vars
  BY <1>1 DEF vars, ServerInv, StateOk, CapsOk, HeldBy, Held
<1>2. ASSUME NEW c \in Call, ServerStep(c)
      PROVE  ServerInv'
  BY <1>2, AcquirePooledOk, AcquireNewOk, AcquireFailsOk, FinishOk, ReadOk, WriteOk, CopyFailsOk
  DEF ServerStep
<1>3. ASSUME NEW c \in Call, CallerGivesUp(c)
      PROVE  ServerInv'
  BY <1>3, CallerGivesUpOk
<1>4. ASSUME NEW c \in Call, NEW v \in Volume, NEW b \in Batches[v], Request(c, v, b)
      PROVE  ServerInv'
  BY <1>4, RequestOk
<1>5. ASSUME NEW s \in Reused, LeaderWrites(s)
      PROVE  ServerInv'
  BY <1>5, LeaderWritesOk
<1>. QED  BY <1>1, <1>2, <1>3, <1>4, <1>5 DEF Next

(* The storage server's state keeps its shape, each buffer is in one       *)
(* place, and a request's buffers are large enough for its chunks.         *)
THEOREM ServerInvariant == Spec => []ServerInv
<1>1. Init => ServerInv
  BY ServerInit
<1>2. ServerInv /\ [Next]_vars => ServerInv'
  BY ServerNext
<1>. QED  BY <1>1, <1>2, PTL DEF Spec

-----------------------------------------------------------------------------
(* What ServerInv says *)

(* In a state of ServerInv each buffer is in one place. *)
LEMMA SoundBuffers == ServerInv => BuffersSound
<1>. SUFFICES ASSUME ServerInv, NEW b \in Buffers
              PROVE  /\ Cardinality({i \in DOMAIN pool : pool[i] = b})
                          + Cardinality({x \in Call \X (1..Workers) :
                               x[2] \in DOMAIN Held(x[1]) /\ Held(x[1])[x[2]] = b})
                          + (IF b \in freed THEN 1 ELSE 0) = 1
                     /\ Len(buffer[b].data) <= buffer[b].cap
  BY DEF BuffersSound
<1>. DEFINE A == {i \in DOMAIN pool : pool[i] = b}
            B == {x \in Call \X (1..Workers) :
                     x[2] \in DOMAIN Held(x[1]) /\ Held(x[1])[x[2]] = b}
<1>1. /\ Sound(Len(buffer), pool, HeldBy, freed) /\ b \in 1..Len(buffer)
      /\ DOMAIN pool = 1..Len(pool)
  BY DEF ServerInv, Buffers, Sound
<1>2. \A c \in Call : Held(c) = HeldBy[c] /\ DOMAIN Held(c) = 1..Len(HeldBy[c])
  BY <1>1 DEF HeldBy, Sound
<1>3. ASSUME NEW c \in Call, NEW j \in 1..Len(HeldBy[c])
      PROVE  j \in 1..Workers
  <2>1. Workers \in Nat
    BY BlockCopyAssumptions
  <2>2. CASE call[c].pc = "idle"
    BY <1>3, <2>2 DEF HeldBy, Held
  <2>3. CASE call[c].pc # "idle"
    <3>1. /\ call[c] \in CallSet /\ Busy(call[c], worker[c], buffer)
          /\ WorkerCount(call[c].chunks) \in 1..Workers
          /\ HeldBy[c] = call[c].bufs /\ call[c].bufs \in Seq(1..Len(buffer))
      BY <2>3, BusyFacts
    <3>2. PICK n \in Nat : n = WorkerCount(call[c].chunks) /\ n <= Workers
      BY <2>1, <3>1
    <3>3. PICK m \in Nat : m = Len(call[c].bufs)
      BY <3>1
    <3>4. m <= n
      <4>1. call[c].pc = "acquire" \/ call[c].pc = "copy"
        BY <3>1 DEF CallSet
      <4>. QED  BY <3>1, <3>2, <3>3, <4>1 DEF Busy
    <3>. QED  BY <2>1, <3>1, <3>2, <3>3, <3>4
  <2>. QED  BY <2>2, <2>3
<1>4. CASE b \in freed
  <2>1. A = {}
    BY <1>1, <1>4 DEF Sound, PoolNotIn
  <2>2. B = {}
    BY <1>1, <1>2, <1>4 DEF Sound, HeldNotIn
  <2>. HIDE DEF A, B
  <2>3. Cardinality(A) = 0 /\ Cardinality(B) = 0
    BY <2>1, <2>2, FS_EmptySet
  <2>. QED  BY <1>4, <2>3 DEF A, B, ServerInv, CapsOk, Buffers
<1>5. CASE \E i \in 1..Len(pool) : pool[i] = b
  <2>1. PICK i \in 1..Len(pool) : pool[i] = b
    BY <1>5
  <2>2. A = {i} /\ b \notin freed
    BY <1>1, <2>1 DEF Sound, PoolOnce, PoolNotIn
  <2>3. B = {}
    BY <1>1, <1>2, <2>1 DEF Sound, PoolNotHeld
  <2>. HIDE DEF A, B
  <2>4. Cardinality(A) = 1 /\ Cardinality(B) = 0
    BY <2>2, <2>3, FS_EmptySet, FS_Singleton
  <2>. QED  BY <2>2, <2>4 DEF A, B, ServerInv, CapsOk, Buffers
<1>6. CASE \E c \in Call : \E j \in 1..Len(HeldBy[c]) : HeldBy[c][j] = b
  <2>1. PICK c \in Call : \E j \in 1..Len(HeldBy[c]) : HeldBy[c][j] = b
    BY <1>6
  <2>2. PICK j \in 1..Len(HeldBy[c]) : HeldBy[c][j] = b
    BY <2>1
  <2>3. b \notin freed
    BY <1>1, <2>2 DEF Sound, HeldNotIn
  <2>4. A = {}
    BY <1>1, <2>2 DEF Sound, PoolNotHeld
  <2>5. B = {<<c, j>>}
    <3>1. <<c, j>> \in B
      BY <1>2, <1>3, <2>2
    <3>2. ASSUME NEW x \in B
          PROVE  x = <<c, j>>
      <4>1. PICK d \in Call, i \in 1..Workers : x = <<d, i>>
        OBVIOUS
      <4>2. i \in 1..Len(HeldBy[d]) /\ HeldBy[d][i] = b
        BY <1>2, <4>1
      <4>3. HeldOnce(HeldBy)
        BY <1>1 DEF Sound
      <4>4. d = c /\ i = j
        BY <2>2, <4>2, <4>3 DEF HeldOnce
      <4>. QED  BY <4>1, <4>4
    <3>. HIDE DEF B
    <3>. QED  BY <3>1, <3>2
  <2>. HIDE DEF A, B
  <2>6. Cardinality(A) = 0 /\ Cardinality(B) = 1
    BY <2>4, <2>5, FS_EmptySet, FS_Singleton
  <2>. QED  BY <2>3, <2>6 DEF A, B, ServerInv, CapsOk, Buffers
<1>. QED  BY <1>1, <1>4, <1>5, <1>6 DEF Sound, Somewhere

(* Every buffer of the storage server is in the pool, or with one worker   *)
(* of one request, or freed, and never read past its capacity, whatever    *)
(* requests of whatever sizes come, fail and give up (acquire, release).   *)
THEOREM BuffersSoundTheorem == Spec => []BuffersSound
<1>1. ServerInv => BuffersSound
  BY SoundBuffers
<1>. QED  BY <1>1, ServerInvariant, PTL

(* The chunks do_pba_copy cuts a batch into are a seamless tiling of its   *)
(* pages, inside the extents, the ring and the largest chunk, for every    *)
(* ring, page, extent list and batch.                                      *)
THEOREM ChunksTileTheorem == Spec => []ChunksTile
<1>1. ServerInv => ChunksTile
  <2>. SUFFICES ASSUME ServerInv, NEW c \in Call, call[c].pc # "idle", NEW k, k = call[c].chunks
                PROVE  /\ k[1].src = call[c].batch.start
                       /\ \A i \in DOMAIN k :
                             /\ k[i].n \in 1..MaxChunk
                             /\ k[i].dst + k[i].n <= RingSize
                             /\ \A e \in ExtentStart : ~(k[i].dst < e /\ e < k[i].dst + k[i].n)
                       /\ \A i \in 1..Len(k) - 1 : k[i + 1].src = k[i].src + k[i].n
                       /\ k[Len(k)].src + k[Len(k)].n
                            = call[c].batch.start + AlignUp(call[c].batch.len)
    BY DEF ChunksTile
  <2>1. call[c] \in CallSet /\ Busy(call[c], worker[c], buffer)
    BY BusyFacts
  <2>2. PICK v \in Volume : v = call[c].vol
    BY <2>1 DEF CallSet
  <2>3. PICK b \in Batches[v] : b = call[c].batch /\ k = Chunks(b)
    BY <2>1, <2>2 DEF Busy
  <2>4. /\ k \in Seq(ChunkSet) /\ Len(k) > 0
        /\ k[1].src = b.start
        /\ \A i \in 1..Len(k) :
              /\ k[i].dst + k[i].n <= RingSize
              /\ \A e \in ExtentStart : ~(k[i].dst < e /\ e < k[i].dst + k[i].n)
        /\ \A i \in 1..Len(k) - 1 : k[i + 1].src = k[i].src + k[i].n
        /\ k[Len(k)].src + k[Len(k)].n = b.start + AlignUp(b.len)
    BY <2>3, ChunksShape
  <2>5. DOMAIN k = 1..Len(k) /\ \A i \in 1..Len(k) : k[i] \in ChunkSet
    BY <2>4
  <2>6. \A p \in ChunkSet : p.n \in 1..MaxChunk
    BY DEF ChunkSet
  <2>. QED  BY <2>3, <2>4, <2>5, <2>6
<1>. QED  BY <1>1, ServerInvariant, PTL

(* The shape of the storage server's state; a volume holds only what a     *)
(* leader's slot held.                                                     *)
THEOREM BlockCopyTypes == Spec => []TypeOK
<1>1. ServerInv => TypeOK
  <2>. SUFFICES ASSUME ServerInv PROVE TypeOK
    OBVIOUS
  <2>1. /\ content \in [Slot -> Nat]
        /\ volume \in [Volume -> [Slot -> Nat \cup {Garbage}]]
        /\ promised \in [Volume -> SUBSET Slot]
    BY DEF ServerInv, StateOk, SlotContent
  <2>2. pool \in Seq(Buffers) /\ freed \subseteq Buffers
    BY DEF ServerInv, Sound, Buffers
  <2>3. \A i \in Buffers : buffer[i].cap % PageSlots = 0
    BY DEF ServerInv, CapsOk, Buffers
  <2>4. \A c \in Call : call[c] = Idle => worker[c] = <<>>
    BY CallCases DEF ServerInv
  <2>. QED  BY <2>1, <2>2, <2>3, <2>4 DEF TypeOK
<1>. QED  BY <1>1, ServerInvariant, PTL

-----------------------------------------------------------------------------
(* What the volumes hold, when no situation of Situation occurs *)

(* What the buffer b, which chunk p was read into, has for slot x. *)
HasRead(b, p, ct, x) == b.data[x - p.src + 1] = ct[x]

(* What a worker has read is what the leader holds, where it matters. *)
DataRight(k, ws, bs, ct, pr) ==
    \A w \in 1..Len(k.bufs) : ws[w].read /\ ws[w].next <= Len(k.chunks) =>
        \A x \in From(k.chunks[ws[w].next]) :
            x \in pr \/ (~k.late /\ x \in OwnSlots(k.batch)) =>
                HasRead(bs[k.bufs[w]], k.chunks[ws[w].next], ct, x)

(* A worker takes every w-th chunk, *)
InStep(k, ws) ==
    ~k.error => \A w \in 1..Len(k.bufs) : ws[w].next % Len(k.bufs) = w % Len(k.bufs)

(* and those behind it are on the volume. *)
DoneRight(k, ws, ct, vl) ==
    ~k.error /\ ~k.late =>
        \A w \in 1..Len(k.bufs) : \A j \in 1..Len(k.chunks) :
            j < ws[w].next /\ j % Len(k.bufs) = w % Len(k.bufs) =>
                \A x \in From(k.chunks[j]) : x \in OwnSlots(k.batch) => vl[x] = ct[x]

CopyRight(k, ws, bs, ct, vl, pr) ==
    /\ k.batch.start + AlignUp(k.batch.len) <= RingSize
    /\ k.pc = "copy" => /\ DataRight(k, ws, bs, ct, pr)
                        /\ InStep(k, ws)
                        /\ DoneRight(k, ws, ct, vl)

(* One request per volume. *)
OneEach ==
    \A c, d \in Call :
        (call[c] \in CallSet /\ call[d] \in CallSet /\ call[c].vol = call[d].vol) => c = d

Right(c) ==
    call[c] \in CallSet => CopyRight(call[c], worker[c], buffer, content,
                                     volume[call[c].vol], promised[call[c].vol])

(* The inductive invariant for PromiseKept. *)
CopyInv ==
    /\ ServerInv
    /\ OneEach
    /\ \A c \in Call : Right(c)
    /\ PromiseKept

(* DataRight, for one worker and one slot. *)
LEMMA DataRead ==
    ASSUME NEW k, NEW ws, NEW bs, NEW ct, NEW pr, DataRight(k, ws, bs, ct, pr),
           NEW w \in 1..Len(k.bufs), ws[w].read, ws[w].next <= Len(k.chunks),
           NEW x \in From(k.chunks[ws[w].next]),
           x \in pr \/ (~k.late /\ x \in OwnSlots(k.batch))
    PROVE  HasRead(bs[k.bufs[w]], k.chunks[ws[w].next], ct, x)
  BY Zenon DEF DataRight

(* Nothing a request relies on changes, but that less may be promised. *)
LEMMA RightFrame ==
    ASSUME NEW k, NEW ws, NEW bs, NEW bt, NEW ct, NEW vl, NEW pr, NEW pt,
           CopyRight(k, ws, bs, ct, vl, pr), \A x \in pt : x \in pr,
           \A j \in 1..Len(k.bufs) : bt[k.bufs[j]] = bs[k.bufs[j]]
    PROVE  CopyRight(k, ws, bt, ct, vl, pt)
<1>1. DataRight(k, ws, bs, ct, pr) => DataRight(k, ws, bt, ct, pt)
  <2>. SUFFICES ASSUME DataRight(k, ws, bs, ct, pr),
                       NEW w \in 1..Len(k.bufs), ws[w].read, ws[w].next <= Len(k.chunks),
                       NEW x \in From(k.chunks[ws[w].next]),
                       x \in pt \/ (~k.late /\ x \in OwnSlots(k.batch))
                PROVE  HasRead(bt[k.bufs[w]], k.chunks[ws[w].next], ct, x)
    BY Zenon DEF DataRight
  <2>1. x \in pr \/ (~k.late /\ x \in OwnSlots(k.batch))
    BY Zenon
  <2>2. HasRead(bs[k.bufs[w]], k.chunks[ws[w].next], ct, x)
    BY <2>1, DataRead, SMTT(30)
  <2>3. bt[k.bufs[w]] = bs[k.bufs[w]]
    BY Zenon
  <2>. QED  BY <2>2, <2>3, Zenon
<1>. QED  BY <1>1 DEF CopyRight

(* A step of another request, or of none. *)
LEMMA OthersRight ==
    ASSUME ServerInv, NEW c \in Call, NEW d \in Call, d # c, Right(d),
           call'[d] = call[d], worker'[d] = worker[d], content' = content,
           call[d] \in CallSet => volume'[call[d].vol] = volume[call[d].vol],
           call[d] \in CallSet => \A x \in promised'[call[d].vol] : x \in promised[call[d].vol],
           \A i \in 1..Len(buffer) :
               (\A j \in 1..Len(HeldBy[c]) : i # HeldBy[c][j]) => buffer'[i] = buffer[i]
    PROVE  Right(d)'
<1>. SUFFICES ASSUME call[d] \in CallSet
              PROVE  CopyRight(call[d], worker[d], buffer', content,
                               volume[call[d].vol], promised'[call[d].vol])
  BY DEF Right
<1>1. call[d].pc # "idle"
  BY DEF CallSet
<1>2. HeldBy[d] = call[d].bufs /\ call[d].bufs \in Seq(1..Len(buffer))
  BY <1>1, BusyFacts
<1>3. ASSUME NEW j \in 1..Len(call[d].bufs)
      PROVE  buffer'[call[d].bufs[j]] = buffer[call[d].bufs[j]]
  <2>1. PICK i \in 1..Len(buffer) : i = call[d].bufs[j]
    BY <1>2
  <2>2. HeldOnce(HeldBy) /\ j \in 1..Len(HeldBy[d]) /\ i = HeldBy[d][j]
    BY <1>2, <2>1 DEF ServerInv, Sound
  <2>3. \A e \in 1..Len(HeldBy[c]) : i # HeldBy[c][e]
    BY <2>2 DEF HeldOnce
  <2>. QED  BY <2>1, <2>3
<1>4. CopyRight(call[d], worker[d], buffer, content, volume[call[d].vol], promised[call[d].vol])
  BY DEF Right
<1>. QED  BY <1>3, <1>4, RightFrame

(* The slots of a batch are slots of the ring. *)
LEMMA OwnInRing ==
    ASSUME ServerInv, NEW c \in Call, call[c] \in CallSet
    PROVE  \A x \in OwnSlots(call[c].batch) : x \in Slot
<1>1. call[c].pc # "idle"
  BY DEF CallSet
<1>2. Busy(call[c], worker[c], buffer)
  BY <1>1, BusyFacts
<1>3. PICK v \in Volume : v = call[c].vol
  BY DEF CallSet
<1>4. PICK b \in Batches[v] : b = call[c].batch
  BY <1>2, <1>3 DEF Busy
<1>5. b.start \in Nat /\ b.len \in Nat /\ b.start + b.len <= RingSize /\ RingSize \in Nat
  BY ChunksAre, BlockCopyAssumptions
<1>. QED  BY <1>4, <1>5 DEF OwnSlots, Slot

LEMMA CopyInit == Init => CopyInv
<1>. SUFFICES ASSUME Init PROVE CopyInv
  OBVIOUS
<1>1. \A c \in Call : call[c] \notin CallSet
  <2>1. \A c \in Call : call[c].pc = "idle"
    BY DEF Init, Idle
  <2>2. \A k \in CallSet : k.pc # "idle"
    BY DEF CallSet
  <2>. QED  BY <2>1, <2>2
<1>2. PromiseKept
  BY DEF Init, PromiseKept
<1>. QED  BY <1>1, <1>2, ServerInit DEF CopyInv, OneEach, Right

LEMMA RequestRight ==
    ASSUME Excluded = Situation, CopyInv, ServerInv',
           NEW c \in Call, NEW v \in Volume, NEW b \in Batches[v], Request(c, v, b)
    PROVE  CopyInv'
<1>1. PICK k : k = [pc |-> "acquire", vol |-> v, batch |-> b, chunks |-> Chunks(b),
                    bufs |-> <<>>, error |-> FALSE, late |-> FALSE]
  OBVIOUS
<1>2. /\ call' = [call EXCEPT ![c] = k] /\ call[c] = Idle
      /\ content' = content /\ volume' = volume /\ buffer' = buffer /\ worker' = worker
      /\ promised' = [promised EXCEPT ![v] = @ \ OwnSlots(b)]
  BY <1>1 DEF Request
<1>3. "lateCopy" \in Excluded /\ "ringEnd" \in Excluded
  BY DEF Situation
<1>4. /\ b.start + AlignUp(b.len) <= RingSize
      /\ \A d \in Call : call[d].pc # "idle" => call[d].vol # v
  BY <1>3 DEF Request
<1>5. /\ ServerInv /\ DOMAIN call = Call /\ promised \in [Volume -> SUBSET Slot]
  BY DEF CopyInv, ServerInv, StateOk
<1>6. call'[c] = k /\ \A d \in Call : d # c => call'[d] = call[d]
  BY <1>2, <1>5
<1>7. \A d \in Call : call[d] \in CallSet => call[d].vol # v /\ call[d].vol \in Volume
  BY <1>4 DEF CallSet
<1>8. k.vol = v /\ k.batch = b /\ k.pc = "acquire"
  BY <1>1
<1>9. OneEach'
  BY <1>6, <1>7, <1>8 DEF CopyInv, OneEach
<1>10. \A u \in Volume : \A x \in promised'[u] : x \in promised[u]
  BY <1>2, <1>5
<1>11. ASSUME NEW d \in Call
       PROVE  Right(d)'
  <2>1. CASE d = c
    BY <1>4, <1>6, <1>8, <2>1 DEF Right, CopyRight
  <2>2. CASE d # c
    <3>1. Right(d)
      BY DEF CopyInv
    <3>2. call'[d] = call[d]
      BY <1>6, <2>2
    <3>. QED  BY <1>2, <1>5, <1>7, <1>10, <2>2, <3>1, <3>2, OthersRight
  <2>. QED  BY <2>1, <2>2
<1>12. PromiseKept'
  BY <1>2, <1>10 DEF CopyInv, PromiseKept
<1>. QED  BY <1>9, <1>11, <1>12 DEF CopyInv

(* A request with a new buffer: its workers have read and written nothing. *)
LEMMA TakeRight ==
    ASSUME CopyInv, ServerInv', NEW c \in Call, call[c].pc = "acquire", NEW p, Take(c, p),
           \A i \in 1..Len(buffer) : buffer'[i] = buffer[i]
    PROVE  CopyInv'
<1>1. ServerInv /\ DOMAIN call = Call /\ DOMAIN worker = Call
  BY DEF CopyInv, ServerInv, StateOk
<1>2. call[c].pc # "idle"
  OBVIOUS
<1>3. /\ call[c] \in CallSet /\ Busy(call[c], worker[c], buffer)
      /\ call[c].bufs \in Seq(1..Len(buffer))
  BY <1>1, <1>2, BusyFacts
<1>4. PICK bufs : bufs = Append(call[c].bufs, p)
  OBVIOUS
<1>5. PICK full \in BOOLEAN : full = (Len(bufs) = WorkerCount(call[c].chunks))
  OBVIOUS
<1>6. /\ call' = [call EXCEPT ![c].bufs = bufs, ![c].pc = IF full THEN "copy" ELSE @]
      /\ worker' = IF full
                   THEN [worker EXCEPT ![c] = [w \in 1..Len(bufs) |->
                                                  [next |-> w, read |-> FALSE]]]
                   ELSE worker
      /\ content' = content /\ volume' = volume /\ promised' = promised
  BY <1>4, <1>5 DEF Take
<1>7. PICK k : k = [call[c] EXCEPT !.bufs = bufs, !.pc = IF full THEN "copy" ELSE @]
  OBVIOUS
<1>8. call'[c] = k /\ \A d \in Call : d # c => call'[d] = call[d] /\ worker'[d] = worker[d]
  BY <1>1, <1>6, <1>7
<1>9. /\ k.bufs = bufs /\ k.vol = call[c].vol /\ k.batch = call[c].batch
      /\ k.chunks = call[c].chunks /\ k.pc = IF full THEN "copy" ELSE "acquire"
  BY <1>3, <1>7 DEF CallSet
<1>10. OneEach'
  BY <1>3, <1>8, <1>9 DEF CopyInv, OneEach
<1>11. k.batch.start + AlignUp(k.batch.len) <= RingSize
  BY <1>3, <1>9 DEF CopyInv, Right, CopyRight
<1>12. PICK S \in Nat : S = Len(bufs) /\ S > 0
  <2>1. call[c].bufs \in Seq(Nat)
    BY <1>3 DEF CallSet
  <2>2. Len(bufs) = Len(call[c].bufs) + 1
    BY <1>4, <2>1
  <2>. QED  BY <2>1, <2>2
<1>13. ASSUME full
       PROVE  \A w \in 1..S : worker'[c][w].next = w /\ ~worker'[c][w].read
  BY <1>1, <1>6, <1>12, <1>13
<1>14. CopyRight(k, worker'[c], buffer', content, volume[k.vol], promised[k.vol])
  <2>1. CASE ~full
    BY <1>9, <1>11, <2>1 DEF CopyRight
  <2>2. CASE full
    <3>1. DataRight(k, worker'[c], buffer', content, promised[k.vol])
      BY <1>9, <1>12, <1>13, <2>2 DEF DataRight
    <3>2. InStep(k, worker'[c])
      BY <1>9, <1>12, <1>13, <2>2 DEF InStep
    <3>3. ASSUME NEW w \in 1..S, NEW j \in 1..Len(k.chunks), j < w, j % S = w % S
          PROVE  FALSE
      <4>1. j \in Nat /\ j > 0 /\ w \in Nat /\ w <= S /\ S \in Nat \ {0}
        BY <1>12, <3>3
      <4>2. j + S <= w
        BY <3>3, <4>1, ModApart
      <4>. QED  BY <4>1, <4>2
    <3>4. DoneRight(k, worker'[c], content, volume[k.vol])
      BY <1>9, <1>12, <1>13, <2>2, <3>3 DEF DoneRight
    <3>. QED  BY <1>11, <3>1, <3>2, <3>4 DEF CopyRight
  <2>. QED  BY <2>1, <2>2
<1>15. ASSUME NEW d \in Call
       PROVE  Right(d)'
  <2>1. CASE d = c
    BY <1>6, <1>8, <1>14, <2>1 DEF Right
  <2>2. CASE d # c
    <3>1. Right(d)
      BY DEF CopyInv
    <3>. QED  BY <1>1, <1>6, <1>8, <2>2, <3>1, OthersRight
  <2>. QED  BY <2>1, <2>2
<1>16. PromiseKept'
  BY <1>6 DEF CopyInv, PromiseKept
<1>. QED  BY <1>10, <1>15, <1>16 DEF CopyInv

LEMMA AcquireRight ==
    ASSUME CopyInv, ServerInv', NEW c \in Call, AcquirePooled(c) \/ AcquireNew(c)
    PROVE  CopyInv'
<1>1. CASE AcquirePooled(c)
  <2>1. call[c].pc = "acquire" /\ buffer' = buffer /\ \E p : Take(c, p)
    BY <1>1 DEF AcquirePooled
  <2>. QED  BY <2>1, TakeRight
<1>2. CASE AcquireNew(c)
  <2>1. buffer \in Seq(BufferSet)
    BY DEF CopyInv, ServerInv, StateOk
  <2>2. PICK e : buffer' = Append(buffer, e)
    BY <1>2 DEF AcquireNew
  <2>3. call[c].pc = "acquire" /\ Take(c, Len(buffer) + 1)
    BY <1>2 DEF AcquireNew
  <2>4. \A i \in 1..Len(buffer) : buffer'[i] = buffer[i]
    BY <2>1, <2>2
  <2>. QED  BY <2>3, <2>4, TakeRight
<1>. QED  BY <1>1, <1>2

(* A request has ended, and nothing else changes but what it held. *)
LEMMA EndRight ==
    ASSUME CopyInv, ServerInv', NEW c \in Call,
           call' = [call EXCEPT ![c] = Idle],
           \A d \in Call : d # c => worker'[d] = worker[d],
           content' = content, volume' = volume,
           \A d \in Call : d # c /\ call[d] \in CallSet =>
               promised'[call[d].vol] = promised[call[d].vol],
           \A i \in 1..Len(buffer) :
               (\A j \in 1..Len(HeldBy[c]) : i # HeldBy[c][j]) => buffer'[i] = buffer[i],
           PromiseKept'
    PROVE  CopyInv'
<1>1. ServerInv /\ DOMAIN call = Call
  BY DEF CopyInv, ServerInv, StateOk
<1>2. call'[c] = Idle /\ \A d \in Call : d # c => call'[d] = call[d]
  BY <1>1
<1>3. Idle \notin CallSet
  <2>1. Idle.pc = "idle" /\ \A k \in CallSet : k.pc # "idle"
    BY DEF CallSet, Idle
  <2>. QED  BY <2>1
<1>4. OneEach'
  BY <1>2, <1>3 DEF CopyInv, OneEach
<1>5. ASSUME NEW d \in Call
      PROVE  Right(d)'
  <2>1. CASE d = c
    BY <1>2, <1>3, <2>1 DEF Right
  <2>2. CASE d # c
    <3>1. Right(d)
      BY DEF CopyInv
    <3>. QED  BY <1>1, <1>2, <2>2, <3>1, OthersRight
  <2>. QED  BY <2>1, <2>2
<1>. QED  BY <1>4, <1>5 DEF CopyInv

LEMMA AcquireFailsRight ==
    ASSUME CopyInv, ServerInv', NEW c \in Call, AcquireFails(c)
    PROVE  CopyInv'
<1>1. /\ call' = [call EXCEPT ![c] = Idle]
      /\ content' = content /\ volume' = volume /\ promised' = promised
      /\ buffer' = buffer /\ worker' = worker
  BY DEF AcquireFails
<1>2. PromiseKept'
  BY <1>1 DEF CopyInv, PromiseKept
<1>. QED  BY <1>1, <1>2, EndRight

LEMMA FinishRight ==
    ASSUME CopyInv, ServerInv', NEW c \in Call, Finish(c)
    PROVE  CopyInv'
<1>1. /\ call[c].pc = "copy" /\ \A w \in DOMAIN worker[c] : ~Ready(c, w)
      /\ call' = [call EXCEPT ![c] = Idle] /\ worker' = [worker EXCEPT ![c] = <<>>]
      /\ content' = content /\ volume' = volume
      /\ promised' = IF Succeeded(c)
                     THEN [promised EXCEPT ![call[c].vol] = @ \cup OwnSlots(call[c].batch)]
                     ELSE promised
  BY DEF Finish
<1>2. /\ ServerInv /\ DOMAIN worker = Call /\ buffer \in Seq(BufferSet)
      /\ promised \in [Volume -> SUBSET Slot]
  BY DEF CopyInv, ServerInv, StateOk
<1>3. call[c].pc # "idle"
  BY <1>1
<1>4. /\ call[c] \in CallSet /\ Busy(call[c], worker[c], buffer)
      /\ HeldBy[c] = call[c].bufs /\ call[c].bufs \in Seq(1..Len(buffer))
      /\ call[c].chunks \in Seq(ChunkSet) /\ WorkerCount(call[c].chunks) \in 1..Workers
  BY <1>2, <1>3, BusyFacts
<1>5. PICK v \in Volume : v = call[c].vol
  BY <1>4 DEF CallSet
<1>6. PICK b \in Batches[v] : b = call[c].batch /\ call[c].chunks = Chunks(b)
  BY <1>4, <1>5 DEF Busy
<1>7. PICK q : q = call[c].chunks
  OBVIOUS
<1>8. PICK S \in Nat \ {0} : S = Len(call[c].bufs)
  <2>1. Workers \in Nat
    BY BlockCopyAssumptions
  <2>2. Len(call[c].bufs) = WorkerCount(call[c].chunks)
    BY <1>1, <1>4 DEF Busy
  <2>. QED  BY <1>4, <2>1, <2>2
<1>9. worker[c] \in [1..S -> WorkerSet]
  BY <1>1, <1>4, <1>8 DEF Busy
<1>10. ASSUME Succeeded(c), NEW x \in OwnSlots(b)
       PROVE  volume[v][x] = content[x]
  <2>1. PICK i \in 1..Len(q) : x \in From(q[i])
    BY <1>6, <1>7, <1>10, ChunksShape
  <2>2. Len(q) \in Nat /\ i \in Nat
    BY <1>4, <1>7
  <2>3. PICK w \in 1..S : w % S = i % S
    BY <2>2, ModOfOne
  <2>4. i < worker[c][w].next
    <3>1. w \in DOMAIN worker[c] /\ worker[c][w] \in WorkerSet
      BY <1>9
    <3>2. ~Ready(c, w) /\ worker[c][w].next \in Nat
      BY <1>1, <3>1 DEF WorkerSet
    <3>3. ~(worker[c][w].next <= Len(q))
      BY <1>1, <1>7, <3>2 DEF Ready
    <3>. QED  BY <2>2, <3>2, <3>3
  <2>5. DoneRight(call[c], worker[c], content, volume[v])
    BY <1>1, <1>4, <1>5 DEF CopyInv, Right, CopyRight
  <2>6. ~call[c].error /\ ~call[c].late
    BY <1>10 DEF Succeeded
  <2>. QED  BY <1>6, <1>7, <1>8, <1>10, <2>1, <2>3, <2>4, <2>5, <2>6 DEF DoneRight
<1>11. PromiseKept'
  <2>1. ASSUME NEW u \in Volume, NEW x \in promised'[u]
        PROVE  volume[u][x] = content[x]
    <3>1. CASE x \in promised[u]
      BY <3>1 DEF CopyInv, PromiseKept
    <3>2. CASE x \notin promised[u]
      <4>1. Succeeded(c) /\ u = v /\ x \in OwnSlots(b)
        BY <1>1, <1>2, <1>5, <1>6, <2>1, <3>2
      <4>. QED  BY <1>10, <4>1
    <3>. QED  BY <3>1, <3>2
  <2>. QED  BY <1>1, <2>1 DEF PromiseKept
<1>12. \A d \in Call : d # c => worker'[d] = worker[d]
  BY <1>1, <1>2
<1>13. ASSUME NEW d \in Call, d # c, call[d] \in CallSet
       PROVE  promised'[call[d].vol] = promised[call[d].vol]
  <2>1. call[d].vol \in Volume /\ call[d].vol # v
    BY <1>4, <1>5, <1>13 DEF CopyInv, OneEach, CallSet
  <2>. QED  BY <1>1, <1>2, <1>5, <2>1
<1>14. ASSUME NEW i \in 1..Len(buffer), \A j \in 1..Len(HeldBy[c]) : i # HeldBy[c][j]
       PROVE  buffer'[i] = buffer[i]
  <2>1. i \notin Range(call[c].bufs)
    <3>1. Range(call[c].bufs) = {call[c].bufs[j] : j \in DOMAIN call[c].bufs}
      BY DEF Range
    <3>2. DOMAIN call[c].bufs = 1..Len(HeldBy[c])
      BY <1>4
    <3>. QED  BY <1>4, <1>14, <3>1, <3>2
  <2>2. i \in DOMAIN buffer
    BY <1>2
  <2>. QED  BY <2>1, <2>2 DEF Finish
<1>. QED  BY <1>1, <1>11, <1>12, <1>13, <1>14, EndRight

LEMMA ReadRight ==
    ASSUME CopyInv, ServerInv', NEW c \in Call, NEW w \in DOMAIN worker[c], Read(c, w)
    PROVE  CopyInv'
<1>1. PICK p : p = ChunkOf(c, w)
  OBVIOUS
<1>2. PICK x : x = BufferOf(c, w)
  OBVIOUS
<1>3. PICK D : D = [i \in 1..p.n |-> IF p.src + i - 1 \in Slot
                                     THEN content[p.src + i - 1] ELSE Garbage]
  OBVIOUS
<1>4. /\ Ready(c, w) /\ buffer' = [buffer EXCEPT ![x].data = D]
      /\ worker' = [worker EXCEPT ![c][w].read = TRUE]
      /\ content' = content /\ volume' = volume /\ promised' = promised /\ call' = call
  BY <1>1, <1>2, <1>3 DEF Read
<1>5. ServerInv /\ DOMAIN worker = Call /\ buffer \in Seq(BufferSet)
  BY DEF CopyInv, ServerInv, StateOk
<1>6. /\ call[c].pc # "idle" /\ call[c].pc = "copy"
      /\ call[c] \in CallSet /\ Busy(call[c], worker[c], buffer)
      /\ w \in 1..Len(call[c].bufs)
      /\ worker[c] \in [1..Len(call[c].bufs) -> WorkerSet]
      /\ worker[c][w].next \in 1..Len(call[c].chunks)
      /\ p \in ChunkSet /\ x \in 1..Len(buffer) /\ p.n \in Nat
  BY <1>1, <1>2, <1>4, <1>5, WorkerFacts
<1>7. HeldBy[c] = call[c].bufs /\ call[c].bufs \in Seq(1..Len(buffer))
  BY <1>5, <1>6, BusyFacts
<1>8. buffer[x] \in BufferSet /\ x \in DOMAIN buffer
  BY <1>5, <1>6
<1>9. /\ buffer'[x].data = D
      /\ \A i \in 1..Len(buffer) : i # x => buffer'[i] = buffer[i]
  <2>1. PICK e : e = [buffer[x] EXCEPT !.data = D]
    OBVIOUS
  <2>2. e.data = D
    BY <1>8, <2>1 DEF BufferSet
  <2>3. buffer' = [buffer EXCEPT ![x] = e]
    BY <1>4, <2>1
  <2>. QED  BY <1>5, <1>8, <2>2, <2>3
<1>10. PICK k : k = call[c]
  OBVIOUS
<1>11. CopyRight(k, worker[c], buffer, content, volume[k.vol], promised[k.vol])
  BY <1>6, <1>10 DEF CopyInv, Right
<1>12. /\ worker'[c][w].next = worker[c][w].next
       /\ \A i \in 1..Len(k.bufs) : worker'[c][i].next = worker[c][i].next
       /\ \A i \in 1..Len(k.bufs) : i # w => worker'[c][i] = worker[c][i]
  <2>1. worker[c][w] \in WorkerSet
    BY <1>6
  <2>2. PICK r : r = [worker[c][w] EXCEPT !.read = TRUE]
    OBVIOUS
  <2>3. r.next = worker[c][w].next
    BY <2>1, <2>2 DEF WorkerSet
  <2>4. PICK ws : ws = [worker[c] EXCEPT ![w] = r]
    OBVIOUS
  <2>5. worker'[c] = ws
    BY <1>4, <1>5, <2>2, <2>4
  <2>. QED  BY <1>6, <1>10, <2>3, <2>4, <2>5
<1>13. \A y \in From(p) : D[y - p.src + 1] = content[y]
  <2>1. PICK v \in Volume : v = k.vol
    BY <1>6, <1>10 DEF CallSet
  <2>2. PICK b \in Batches[v] : b = k.batch /\ k.chunks = Chunks(b)
    BY <1>6, <1>10, <2>1 DEF Busy
  <2>3. p = k.chunks[worker[c][w].next]
    BY <1>1, <1>10 DEF ChunkOf
  <2>4. p.src + p.n <= b.start + AlignUp(b.len)
    BY <1>6, <1>10, <2>2, <2>3, ChunksShape
  <2>5. b.start + AlignUp(b.len) <= RingSize
    BY <1>11, <2>2 DEF CopyRight
  <2>6. b.start \in Nat /\ AlignUp(b.len) \in Nat /\ RingSize \in Nat
    BY ChunksAre, BlockCopyAssumptions
  <2>7. p.src \in Nat
    BY <1>6 DEF ChunkSet
  <2>8. PICK s \in Nat, n \in Nat : s = p.src /\ n = p.n /\ s + n <= RingSize
    BY <1>6, <2>4, <2>5, <2>6, <2>7
  <2>9. ASSUME NEW y \in From(p)
        PROVE  D[y - p.src + 1] = content[y]
    <3>1. y \in s..s + n - 1
      BY <2>8 DEF From
    <3>2. PICK i \in 1..n : i = y - s + 1
      BY <3>1
    <3>3. s + i - 1 = y /\ y \in Slot
      BY <2>6, <2>8, <3>1, <3>2 DEF Slot
    <3>. QED  BY <1>3, <2>8, <3>2, <3>3
  <2>. QED  BY <2>9
<1>14. DataRight(k, worker'[c], buffer', content, promised[k.vol])
  <2>1. ASSUME NEW i \in 1..Len(k.bufs), worker'[c][i].read, worker'[c][i].next <= Len(k.chunks),
               NEW y \in From(k.chunks[worker'[c][i].next]),
               y \in promised[k.vol] \/ (~k.late /\ y \in OwnSlots(k.batch))
        PROVE  HasRead(buffer'[k.bufs[i]], k.chunks[worker'[c][i].next], content, y)
    <3>1. CASE i = w
      <4>1. k.bufs[i] = x /\ k.chunks[worker'[c][i].next] = p
        BY <1>1, <1>2, <1>10, <1>12, <3>1 DEF BufferOf, ChunkOf
      <4>. QED  BY <1>9, <1>13, <2>1, <4>1 DEF HasRead
    <3>2. CASE i # w
      <4>1. HeldOnce(HeldBy) /\ i \in 1..Len(HeldBy[c]) /\ w \in 1..Len(HeldBy[c])
        BY <1>5, <1>6, <1>7, <1>10 DEF ServerInv, Sound
      <4>2. HeldBy[c][i] # HeldBy[c][w]
        BY <3>2, <4>1 DEF HeldOnce
      <4>3. k.bufs[i] # x /\ k.bufs[i] \in 1..Len(buffer)
        BY <1>2, <1>7, <1>10, <4>2 DEF BufferOf
      <4>4. buffer'[k.bufs[i]] = buffer[k.bufs[i]] /\ worker'[c][i] = worker[c][i]
        BY <1>9, <1>12, <3>2, <4>3
      <4>5. DataRight(k, worker[c], buffer, content, promised[k.vol])
        BY <1>6, <1>10, <1>11 DEF CopyRight
      <4>6. /\ worker[c][i].read /\ worker[c][i].next <= Len(k.chunks)
            /\ y \in From(k.chunks[worker[c][i].next])
        BY <2>1, <4>4, Zenon
      <4>7. HasRead(buffer[k.bufs[i]], k.chunks[worker[c][i].next], content, y)
        BY <2>1, <4>5, <4>6, DataRead, SMTT(30)
      <4>. QED  BY <4>4, <4>7, Zenon
    <3>. QED  BY <3>1, <3>2
  <2>. QED  BY <2>1 DEF DataRight
<1>15. InStep(k, worker'[c]) /\ DoneRight(k, worker'[c], content, volume[k.vol])
  BY <1>6, <1>10, <1>11, <1>12 DEF CopyRight, InStep, DoneRight
<1>16. ASSUME NEW d \in Call
       PROVE  Right(d)'
  <2>1. CASE d = c
    <3>1. CopyRight(k, worker'[c], buffer', content, volume[k.vol], promised[k.vol])
      BY <1>11, <1>14, <1>15 DEF CopyRight
    <3>. QED  BY <1>4, <1>10, <2>1, <3>1 DEF Right
  <2>2. CASE d # c
    <3>1. Right(d)
      BY DEF CopyInv
    <3>2. worker'[d] = worker[d]
      BY <1>4, <1>5, <2>2
    <3>3. \A i \in 1..Len(buffer) :
             (\A j \in 1..Len(HeldBy[c]) : i # HeldBy[c][j]) => buffer'[i] = buffer[i]
      <4>1. x = HeldBy[c][w] /\ w \in 1..Len(HeldBy[c])
        BY <1>2, <1>6, <1>7 DEF BufferOf
      <4>. QED  BY <1>9, <4>1
    <3>. QED  BY <1>4, <1>5, <2>2, <3>1, <3>2, <3>3, OthersRight
  <2>. QED  BY <2>1, <2>2
<1>17. OneEach' /\ PromiseKept'
  BY <1>4 DEF CopyInv, OneEach, PromiseKept
<1>. QED  BY <1>16, <1>17 DEF CopyInv

(* A worker moves on, or the caller gives up: what has been read stays. *)
LEMMA DataStays ==
    ASSUME NEW k, NEW kk, NEW ws, NEW vs, NEW bs, NEW ct, NEW pr, DataRight(k, ws, bs, ct, pr),
           kk.bufs = k.bufs, kk.chunks = k.chunks, kk.batch = k.batch, k.late => kk.late,
           \A i \in 1..Len(k.bufs) :
               (vs[i].read /\ vs[i].next <= Len(k.chunks)) => vs[i] = ws[i]
    PROVE  DataRight(kk, vs, bs, ct, pr)
<1>. SUFFICES ASSUME NEW i \in 1..Len(kk.bufs), vs[i].read, vs[i].next <= Len(kk.chunks),
                     NEW x \in From(kk.chunks[vs[i].next]),
                     x \in pr \/ (~kk.late /\ x \in OwnSlots(kk.batch))
              PROVE  HasRead(bs[kk.bufs[i]], kk.chunks[vs[i].next], ct, x)
  BY Zenon DEF DataRight
<1>1. i \in 1..Len(k.bufs) /\ vs[i].next <= Len(k.chunks)
  BY Zenon
<1>2. vs[i] = ws[i]
  BY <1>1, Zenon
<1>3. ws[i].read /\ ws[i].next <= Len(k.chunks)
  BY <1>1, <1>2, Zenon
<1>4. x \in From(k.chunks[ws[i].next])
  BY <1>2, Zenon
<1>5. x \in pr \/ (~k.late /\ x \in OwnSlots(k.batch))
  BY Zenon
<1>6. HasRead(bs[k.bufs[i]], k.chunks[ws[i].next], ct, x)
  BY <1>1, <1>3, <1>4, <1>5, DataRead, SMTT(30)
<1>. QED  BY <1>2, <1>6, Zenon

LEMMA WriteRight ==
    ASSUME CopyInv, ServerInv', NEW c \in Call, NEW w \in DOMAIN worker[c], Write(c, w)
    PROVE  CopyInv'
<1>1. PICK p : p = ChunkOf(c, w)
  OBVIOUS
<1>2. PICK data : data = buffer[BufferOf(c, w)].data
  OBVIOUS
<1>3. /\ Ready(c, w) /\ worker[c][w].read
      /\ volume' = [volume EXCEPT ![call[c].vol] =
                       [s \in Slot |-> IF s \in p.dst..p.dst + p.n - 1
                                       THEN data[s - p.dst + 1] ELSE @[s]]]
      /\ worker' = [worker EXCEPT ![c][w] = [next |-> @.next + Stride(c), read |-> FALSE]]
      /\ content' = content /\ promised' = promised /\ call' = call /\ buffer' = buffer
  BY <1>1, <1>2 DEF Write
<1>4. /\ ServerInv /\ DOMAIN worker = Call
      /\ volume \in [Volume -> [Slot -> SlotContent]] /\ promised \in [Volume -> SUBSET Slot]
  BY DEF CopyInv, ServerInv, StateOk
<1>5. /\ call[c].pc # "idle" /\ call[c].pc = "copy"
      /\ call[c] \in CallSet /\ Busy(call[c], worker[c], buffer)
      /\ w \in 1..Len(call[c].bufs)
      /\ worker[c] \in [1..Len(call[c].bufs) -> WorkerSet]
      /\ worker[c][w].next \in 1..Len(call[c].chunks)
      /\ p \in ChunkSet /\ p.n \in Nat
  BY <1>1, <1>3, <1>4, WorkerFacts
<1>6. PICK k : k = call[c]
  OBVIOUS
<1>7. CopyRight(k, worker[c], buffer, content, volume[k.vol], promised[k.vol])
  BY <1>5, <1>6 DEF CopyInv, Right
<1>8. PICK v \in Volume : v = k.vol
  BY <1>5, <1>6 DEF CallSet
<1>9. PICK b \in Batches[v] : b = k.batch /\ k.chunks = Chunks(b)
  BY <1>5, <1>6, <1>8 DEF Busy
<1>10. PICK m \in 1..Len(k.chunks) : m = worker[c][w].next /\ p = k.chunks[m]
  BY <1>1, <1>5, <1>6 DEF ChunkOf
<1>11. p.dst = p.src
  <2>1. b.start + AlignUp(b.len) <= RingSize
    BY <1>7, <1>9 DEF CopyRight
  <2>. QED  BY <1>9, <1>10, <2>1, ChunksShape
<1>12. PICK S \in Nat \ {0} : S = Len(k.bufs) /\ S = Stride(c)
  <2>1. call[c].bufs \in Seq(1..Len(buffer))
    BY <1>4, <1>5, BusyFacts
  <2>2. Len(call[c].bufs) \in Nat /\ Len(call[c].bufs) # 0
    BY <1>5, <2>1
  <2>. QED  BY <1>6, <2>2 DEF Stride
<1>13. m \in Nat /\ Len(k.chunks) \in Nat
  <2>1. call[c].chunks \in Seq(ChunkSet)
    BY <1>4, <1>5, BusyFacts
  <2>. QED  BY <1>6, <2>1
<1>14. /\ worker'[c][w].next = m + S /\ ~worker'[c][w].read
       /\ \A i \in 1..S : i # w => worker'[c][i] = worker[c][i]
  <2>1. PICK r : r = [next |-> m + S, read |-> FALSE]
    OBVIOUS
  <2>2. PICK ws : ws = [worker[c] EXCEPT ![w] = r]
    OBVIOUS
  <2>3. worker'[c] = ws
    BY <1>3, <1>4, <1>10, <1>12, <2>1, <2>2
  <2>. QED  BY <1>5, <1>6, <1>12, <2>1, <2>2, <2>3
<1>15. DataRight(k, worker[c], buffer, content, promised[v])
  BY <1>5, <1>6, <1>7, <1>8 DEF CopyRight
<1>16. ASSUME NEW x \in Slot, x \in promised[v] \/ (~k.late /\ x \in OwnSlots(k.batch))
       PROVE  IF x \in From(p) THEN volume'[v][x] = content[x] ELSE volume'[v][x] = volume[v][x]
  <2>1. volume'[v][x] = IF x \in From(p) THEN data[x - p.src + 1] ELSE volume[v][x]
    BY <1>3, <1>4, <1>6, <1>8, <1>11 DEF From
  <2>2. ASSUME x \in From(p)
        PROVE  data[x - p.src + 1] = content[x]
    <3>1. worker[c][w].read /\ worker[c][w].next <= Len(k.chunks) /\ w \in 1..Len(k.bufs)
      BY <1>3, <1>5, <1>6 DEF Ready
    <3>2. buffer[k.bufs[w]].data[x - k.chunks[m].src + 1] = content[x]
      BY <1>10, <1>15, <1>16, <2>2, <3>1 DEF DataRight, HasRead
    <3>. QED  BY <1>2, <1>6, <1>10, <3>2 DEF BufferOf
  <2>. QED  BY <2>1, <2>2
<1>17. \A u \in Volume : u # v => volume'[u] = volume[u]
  BY <1>3, <1>4, <1>6, <1>8
<1>18. PromiseKept'
  <2>1. ASSUME NEW u \in Volume, NEW x \in promised[u]
        PROVE  volume'[u][x] = content[x]
    <3>1. volume[u][x] = content[x] /\ x \in Slot
      BY <1>4 DEF CopyInv, PromiseKept
    <3>. QED  BY <1>16, <1>17, <3>1
  <2>. QED  BY <1>3, <2>1 DEF PromiseKept
<1>19. DataRight(k, worker'[c], buffer, content, promised[v])
  <2>1. \A i \in 1..S : worker'[c][i].read => worker'[c][i] = worker[c][i]
    BY <1>14
  <2>. QED  BY <1>12, <1>15, <2>1, DataStays
<1>20. InStep(k, worker'[c])
  <2>. SUFFICES ASSUME ~k.error, NEW i \in 1..S
                PROVE  worker'[c][i].next % S = i % S
    BY <1>12 DEF InStep
  <2>1. worker[c][i].next % S = i % S
    BY <1>5, <1>6, <1>7, <1>12 DEF CopyRight, InStep
  <2>2. (m + S) % S = m % S
    BY <1>13, ModStep
  <2>. QED  BY <1>10, <1>14, <2>1, <2>2
<1>21. DoneRight(k, worker'[c], content, volume'[v])
  <2>. SUFFICES ASSUME ~k.error, ~k.late, NEW i \in 1..S, NEW j \in 1..Len(k.chunks),
                       j < worker'[c][i].next, j % S = i % S,
                       NEW x \in From(k.chunks[j]), x \in OwnSlots(k.batch)
                PROVE  volume'[v][x] = content[x]
    BY <1>12 DEF DoneRight
  <2>1. x \in Slot
    BY <1>4, <1>5, <1>6, OwnInRing
  <2>2. DoneRight(k, worker[c], content, volume[v])
    BY <1>5, <1>6, <1>7, <1>8 DEF CopyRight
  <2>3. CASE j < worker[c][i].next
    <3>1. volume[v][x] = content[x]
      BY <1>12, <2>2, <2>3 DEF DoneRight
    <3>. QED  BY <1>16, <2>1, <3>1
  <2>4. CASE ~(j < worker[c][i].next)
    <3>1. i = w
      BY <1>14, <2>4
    <3>2. j \in Nat /\ m <= j /\ j < m + S
      BY <1>10, <1>12, <1>13, <1>14, <2>4, <3>1
    <3>3. m % S = j % S
      <4>1. InStep(k, worker[c])
        BY <1>5, <1>6, <1>7 DEF CopyRight
      <4>. QED  BY <1>10, <1>12, <3>1, <4>1 DEF InStep
    <3>4. m = j
      <4>1. ASSUME m < j
            PROVE  FALSE
        <5>1. m + S <= j
          BY <1>13, <3>2, <3>3, <4>1, ModApart
        <5>. QED  BY <1>13, <3>2, <5>1
      <4>. QED  BY <1>13, <3>2, <4>1
    <3>5. x \in From(p)
      BY <1>10, <3>4
    <3>. QED  BY <1>16, <2>1, <3>5
  <2>. QED  BY <2>3, <2>4
<1>22. ASSUME NEW d \in Call
       PROVE  Right(d)'
  <2>1. CASE d = c
    <3>1. CopyRight(k, worker'[c], buffer, content, volume'[v], promised[v])
      BY <1>7, <1>19, <1>20, <1>21 DEF CopyRight
    <3>. QED  BY <1>3, <1>6, <1>8, <2>1, <3>1 DEF Right
  <2>2. CASE d # c
    <3>1. Right(d)
      BY DEF CopyInv
    <3>2. worker'[d] = worker[d]
      BY <1>3, <1>4, <2>2
    <3>3. call[d] \in CallSet => call[d].vol # v /\ call[d].vol \in Volume
      BY <1>5, <1>6, <1>8, <2>2 DEF CopyInv, OneEach, CallSet
    <3>4. call[d] \in CallSet => volume'[call[d].vol] = volume[call[d].vol]
      BY <1>17, <3>3
    <3>. QED  BY <1>3, <1>4, <2>2, <3>1, <3>2, <3>4, OthersRight
  <2>. QED  BY <2>1, <2>2
<1>23. OneEach'
  BY <1>3 DEF CopyInv, OneEach
<1>. QED  BY <1>18, <1>22, <1>23 DEF CopyInv

LEMMA CopyFailsRight ==
    ASSUME CopyInv, ServerInv', NEW c \in Call, NEW w \in DOMAIN worker[c], CopyFails(c, w)
    PROVE  CopyInv'
<1>1. /\ Ready(c, w) /\ call' = [call EXCEPT ![c].error = TRUE]
      /\ worker' = [worker EXCEPT ![c][w].next = Len(call[c].chunks) + 1]
      /\ content' = content /\ promised' = promised /\ volume' = volume /\ buffer' = buffer
  BY DEF CopyFails
<1>2. ServerInv /\ DOMAIN call = Call /\ DOMAIN worker = Call
  BY DEF CopyInv, ServerInv, StateOk
<1>3. /\ call[c].pc # "idle" /\ call[c].pc = "copy" /\ call[c] \in CallSet
      /\ w \in 1..Len(call[c].bufs)
      /\ worker[c] \in [1..Len(call[c].bufs) -> WorkerSet]
  BY <1>1, <1>2, WorkerFacts
<1>4. PICK n \in Nat : n = Len(call[c].chunks)
  BY <1>2, <1>3, BusyFacts
<1>5. PICK k : k = [call[c] EXCEPT !.error = TRUE]
  OBVIOUS
<1>6. /\ k.pc = "copy" /\ k.vol = call[c].vol /\ k.batch = call[c].batch /\ k.error
      /\ k.chunks = call[c].chunks /\ k.bufs = call[c].bufs /\ k.late = call[c].late
  BY <1>3, <1>5 DEF CallSet
<1>7. call'[c] = k /\ \A d \in Call : d # c => call'[d] = call[d] /\ worker'[d] = worker[d]
  BY <1>1, <1>2, <1>5
<1>8. /\ worker'[c][w].next = n + 1
      /\ \A i \in 1..Len(k.bufs) : i # w => worker'[c][i] = worker[c][i]
  <2>1. worker[c][w] \in WorkerSet
    BY <1>3
  <2>2. PICK r : r = [worker[c][w] EXCEPT !.next = n + 1]
    OBVIOUS
  <2>3. r.next = n + 1
    BY <2>1, <2>2 DEF WorkerSet
  <2>4. PICK ws : ws = [worker[c] EXCEPT ![w] = r]
    OBVIOUS
  <2>5. worker'[c] = ws
    BY <1>1, <1>2, <1>4, <2>2, <2>4
  <2>. QED  BY <1>3, <1>6, <2>3, <2>4, <2>5
<1>9. CopyRight(call[c], worker[c], buffer, content, volume[k.vol], promised[k.vol])
  BY <1>3, <1>6 DEF CopyInv, Right
<1>10. DataRight(k, worker'[c], buffer, content, promised[k.vol])
  <2>1. DataRight(call[c], worker[c], buffer, content, promised[k.vol])
    BY <1>3, <1>9 DEF CopyRight
  <2>2. \A i \in 1..Len(k.bufs) :
           worker'[c][i].next <= Len(k.chunks) => worker'[c][i] = worker[c][i]
    BY <1>4, <1>6, <1>8
  <2>. QED  BY <1>6, <2>1, <2>2, DataStays
<1>11. CopyRight(k, worker'[c], buffer, content, volume[k.vol], promised[k.vol])
  BY <1>6, <1>9, <1>10 DEF CopyRight, InStep, DoneRight
<1>12. ASSUME NEW d \in Call
       PROVE  Right(d)'
  <2>1. CASE d = c
    BY <1>1, <1>7, <1>11, <2>1 DEF Right
  <2>2. CASE d # c
    <3>1. Right(d)
      BY DEF CopyInv
    <3>. QED  BY <1>1, <1>2, <1>7, <2>2, <3>1, OthersRight
  <2>. QED  BY <2>1, <2>2
<1>13. OneEach'
  BY <1>3, <1>6, <1>7 DEF CopyInv, OneEach
<1>14. PromiseKept'
  BY <1>1 DEF CopyInv, PromiseKept
<1>. QED  BY <1>12, <1>13, <1>14 DEF CopyInv

LEMMA CallerGivesUpRight ==
    ASSUME CopyInv, ServerInv', NEW c \in Call, CallerGivesUp(c)
    PROVE  CopyInv'
<1>1. /\ call[c].pc # "idle" /\ call' = [call EXCEPT ![c].late = TRUE]
      /\ content' = content /\ promised' = promised /\ volume' = volume
      /\ buffer' = buffer /\ worker' = worker
  BY DEF CallerGivesUp
<1>2. ServerInv /\ DOMAIN call = Call
  BY DEF CopyInv, ServerInv, StateOk
<1>3. call[c] \in CallSet
  BY <1>1, <1>2, BusyFacts
<1>4. PICK k : k = [call[c] EXCEPT !.late = TRUE]
  OBVIOUS
<1>5. /\ k.pc = call[c].pc /\ k.vol = call[c].vol /\ k.batch = call[c].batch /\ k.late
      /\ k.chunks = call[c].chunks /\ k.bufs = call[c].bufs /\ k.error = call[c].error
  BY <1>3, <1>4 DEF CallSet
<1>6. call'[c] = k /\ \A d \in Call : d # c => call'[d] = call[d]
  BY <1>1, <1>2, <1>4
<1>7. CopyRight(call[c], worker[c], buffer, content, volume[k.vol], promised[k.vol])
  BY <1>3, <1>5 DEF CopyInv, Right
<1>8. CopyRight(k, worker[c], buffer, content, volume[k.vol], promised[k.vol])
  <2>1. k.pc = "copy" => DataRight(k, worker[c], buffer, content, promised[k.vol])
    BY <1>5, <1>7, DataStays DEF CopyRight
  <2>2. k.pc = "copy" => InStep(k, worker[c])
    BY <1>5, <1>7 DEF CopyRight, InStep
  <2>3. DoneRight(k, worker[c], content, volume[k.vol])
    BY <1>5 DEF DoneRight
  <2>. QED  BY <1>5, <1>7, <2>1, <2>2, <2>3 DEF CopyRight
<1>9. ASSUME NEW d \in Call
      PROVE  Right(d)'
  <2>1. CASE d = c
    BY <1>1, <1>6, <1>8, <2>1 DEF Right
  <2>2. CASE d # c
    <3>1. Right(d)
      BY DEF CopyInv
    <3>. QED  BY <1>1, <1>2, <1>6, <2>2, <3>1, OthersRight
  <2>. QED  BY <2>1, <2>2
<1>10. OneEach'
  BY <1>3, <1>5, <1>6 DEF CopyInv, OneEach
<1>11. PromiseKept'
  BY <1>1 DEF CopyInv, PromiseKept
<1>. QED  BY <1>9, <1>10, <1>11 DEF CopyInv

LEMMA LeaderWritesRight ==
    ASSUME CopyInv, ServerInv', NEW s \in Reused, LeaderWrites(s)
    PROVE  CopyInv'
<1>1. /\ content' = [content EXCEPT ![s] = @ + RingSize]
      /\ promised' = [v \in Volume |-> promised[v] \ {s}]
      /\ volume' = volume /\ buffer' = buffer /\ call' = call /\ worker' = worker
      /\ \A c \in Call : call[c].pc # "idle" /\ ~call[c].late => s \notin OwnSlots(call[c].batch)
  BY DEF LeaderWrites
<1>2. ServerInv /\ content \in [Slot -> Nat] /\ promised \in [Volume -> SUBSET Slot]
  BY DEF CopyInv, ServerInv, StateOk
<1>3. \A x \in Slot : x # s => content'[x] = content[x]
  BY <1>1, <1>2
<1>4. \A v \in Volume : \A x \in promised'[v] : x \in promised[v] /\ x # s /\ x \in Slot
  BY <1>1, <1>2
<1>5. ASSUME NEW c \in Call, call[c] \in CallSet
      PROVE  CopyRight(call[c], worker[c], buffer, content',
                       volume[call[c].vol], promised'[call[c].vol])
  <2>1. call[c].pc # "idle" /\ call[c].vol \in Volume
    BY <1>5 DEF CallSet
  <2>2. CopyRight(call[c], worker[c], buffer, content, volume[call[c].vol], promised[call[c].vol])
    BY <1>5 DEF CopyInv, Right
  <2>3. \A x \in OwnSlots(call[c].batch) : ~call[c].late => content'[x] = content[x]
    BY <1>1, <1>2, <1>3, <1>5, <2>1, OwnInRing
  <2>4. \A x \in promised'[call[c].vol] : x \in promised[call[c].vol] /\ content'[x] = content[x]
    BY <1>3, <1>4, <2>1
  <2>5. DataRight(call[c], worker[c], buffer, content, promised[call[c].vol])
          => DataRight(call[c], worker[c], buffer, content', promised'[call[c].vol])
    BY <2>3, <2>4 DEF DataRight, HasRead
  <2>6. DoneRight(call[c], worker[c], content, volume[call[c].vol])
          => DoneRight(call[c], worker[c], content', volume[call[c].vol])
    BY <2>3 DEF DoneRight
  <2>. QED  BY <2>2, <2>5, <2>6 DEF CopyRight
<1>6. \A c \in Call : Right(c)'
  BY <1>1, <1>5 DEF Right
<1>7. OneEach'
  BY <1>1 DEF CopyInv, OneEach
<1>8. PromiseKept'
  BY <1>1, <1>3, <1>4 DEF CopyInv, PromiseKept
<1>. QED  BY <1>6, <1>7, <1>8 DEF CopyInv

LEMMA CopyStep ==
    ASSUME Excluded = Situation, CopyInv, [Next]_vars
    PROVE  CopyInv'
<1>0. ServerInv'
  BY ServerNext DEF CopyInv
<1>1. CASE UNCHANGED vars
  BY <1>0, <1>1 DEF vars, CopyInv, OneEach, Right, PromiseKept
<1>2. ASSUME NEW c \in Call, ServerStep(c)
      PROVE  CopyInv'
  BY <1>0, <1>2, AcquireRight, AcquireFailsRight, FinishRight, ReadRight, WriteRight,
     CopyFailsRight
  DEF ServerStep
<1>3. ASSUME NEW c \in Call, CallerGivesUp(c)
      PROVE  CopyInv'
  BY <1>0, <1>3, CallerGivesUpRight
<1>4. ASSUME NEW c \in Call, NEW v \in Volume, NEW b \in Batches[v], Request(c, v, b)
      PROVE  CopyInv'
  BY <1>0, <1>4, RequestRight
<1>5. ASSUME NEW s \in Reused, LeaderWrites(s)
      PROVE  CopyInv'
  BY <1>0, <1>5, LeaderWritesRight
<1>. QED  BY <1>1, <1>2, <1>3, <1>4, <1>5 DEF Next

(* If no page of a batch reaches past the ring's end and no copy outlives  *)
(* its caller while the volume is written again, then a follower's volume  *)
(* holds every block of a batch whose WritePBABatch was a success, until   *)
(* the leader uses the slot again.                                         *)
THEOREM PromiseKeptTheorem ==
    ASSUME Excluded = Situation
    PROVE  Spec => []PromiseKept
<1>1. Init => CopyInv
  BY CopyInit
<1>2. CopyInv /\ [Next]_vars => CopyInv'
  BY CopyStep
<1>3. CopyInv => PromiseKept
  BY DEF CopyInv
<1>. QED  BY <1>1, <1>2, <1>3, PTL DEF Spec
=============================================================================
