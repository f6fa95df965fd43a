------------------------- MODULE FollowerLogProofs --------------------------
(***************************************************************************)
(* What a follower's log is worth, for every number of terms and handler   *)
(* threads and every set of leaders' logs that agree with each other, if   *)
(* no second batch arrives while one is copied.                            *)
(***************************************************************************)
EXTENDS FollowerLog, TLAPS

(* No second request with entries arrives during a copy. *)
Timely == TimelyCopy = TRUE

(* The leaders' logs agree wherever two of them have an entry. *)
Agreeing ==
    /\ MaxTerm > 0
    /\ \A t, u \in 1..MaxTerm :
          \A i \in 1..Len(LeaderLog[t]) :
             i <= Len(LeaderLog[u]) => LeaderLog[t][i] = LeaderLog[u][i]

Entry == [term : Nat, slot : Nat, data : Nat, told : BOOLEAN]

(* The batch a handler copies still fits the log: nobody has moved the     *)
(* tail or the slot since its first critical section.                      *)
CopyCurrent(c) ==
    /\ c.req.prev < tail
    /\ c.skip = tail - (c.req.prev + 1)
    /\ c.skip < c.req.num
    /\ c.slot = StartSlot(c.req)
    /\ tailSlot = c.slot

CopiesCurrent ==
    /\ \A g, h \in Thread : copies[g] # NoCopy /\ copies[h] # NoCopy => g = h
    /\ \A h \in Thread : copies[h] # NoCopy => CopyCurrent(copies[h])

(* IndexFromOne and ReadsWhatWasCopied rest on the copies under way. *)
HandlerInv ==
    /\ TypeOK
    /\ tail = Len(log) + 1
    /\ commitIndex < tail
    /\ CopiesCurrent
    /\ ReadsWhatWasCopied

-----------------------------------------------------------------------------
(* The leaders' logs have a length. *)
LEMMA LeaderLogType ==
    /\ MaxTerm \in Nat
    /\ \A t \in 1..MaxTerm : LeaderLog[t] \in Seq(1..MaxTerm) /\ Len(LeaderLog[t]) \in Nat
BY FollowerLogAssumptions

(* What a request of a leader looks like. *)
LEMMA RequestFacts ==
    ASSUME NEW r \in Request
    PROVE  /\ r.term \in 1..MaxTerm /\ r.prev \in Nat /\ r.num \in Nat /\ r.commit \in Nat
           /\ r.applied \in Nat
           /\ r.prev + r.num <= Len(LeaderLog[r.term])
           /\ LeaderLog[r.term] \in Seq(1..MaxTerm) /\ Len(LeaderLog[r.term]) \in Nat
<1>1. PICK t \in 1..MaxTerm : r \in RequestOf(t)
  BY DEF Request
<1>2. LeaderLog[t] \in Seq(1..MaxTerm) /\ Len(LeaderLog[t]) \in Nat
  BY <1>1, FollowerLogAssumptions
<1>3. r.term = t /\ r.prev \in 0..Len(LeaderLog[t]) /\ r.num \in 0..Len(LeaderLog[t])
      /\ r.commit \in 0..Len(LeaderLog[t]) /\ r.prev + r.num <= Len(LeaderLog[t])
      /\ r.applied \in 0..Len(LeaderLog[t])
  BY <1>1 DEF RequestOf
<1>. QED  BY <1>1, <1>2, <1>3

(* Distances between slots in order are natural numbers. *)
LEMMA NotNegative ==
    ASSUME NEW b \in Nat, NEW p \in Nat, NEW v \in Nat, NEW w \in Nat, NEW z \in Nat,
           p <= b, w <= v, z <= v
    PROVE  b - p + v - z \in Nat /\ v - w \in Nat
OBVIOUS

(* The slots of a batch: they are counted as they lie when no entry of it  *)
(* has been applied.                                                       *)
LEMMA BatchSlots ==
    ASSUME NEW r \in Request, NEW j \in Nat, r.prev < j, j <= r.prev + r.num + 1
    PROVE  /\ Counted(r, j) \in Nat /\ Lies(r, j) \in Nat
           /\ LengthsTrue(r) => Counted(r, j) = Lies(r, j)
<1>1. PICK t \in 1..MaxTerm, p \in Nat, m \in Nat, a \in Nat, n \in Nat :
         /\ r.term = t /\ r.prev = p /\ r.num = m /\ r.applied = a
         /\ n = Len(LeaderLog[t]) /\ p + m <= n
  BY RequestFacts
<1>2. PICK s \in Seq(Nat) : s = LeaderSlot[t] /\ Len(s) = n + 1
  BY <1>1, FollowerLogAssumptions
<1>3. \A i, k \in 1..n + 1 : i < k => s[i] < s[k]
  BY <1>1, <1>2, FollowerLogAssumptions
<1>4. \A i \in 1..n + 1 : s[i] \in Nat
  BY <1>2
<1>5. j \in 1..n + 1 /\ p + 1 \in 1..n + 1 /\ p < j
  BY <1>1
<1>6. Lies(r, j) = s[j] - s[p + 1]
  BY <1>1, <1>2 DEF Lies
<1>7. PICK b \in Nat :
         /\ p <= b /\ b < j
         /\ a <= p => b = p
         /\ Counted(r, j) = b - p + s[j] - s[b + 1]
  <2>. DEFINE upto == IF a < j THEN a ELSE j - 1
              b == IF upto < p THEN p ELSE upto
  <2>1. b \in Nat /\ p <= b /\ b < j /\ (a <= p => b = p)
    BY <1>5
  <2>2. Counted(r, j) = b - p + s[j] - s[b + 1]
    BY <1>1, <1>2 DEF Counted
  <2>. HIDE DEF b
  <2>. QED  BY <2>1, <2>2
<1>8. PICK v \in Nat, w \in Nat, z \in Nat :
         v = s[j] /\ w = s[p + 1] /\ z = s[b + 1] /\ w <= v /\ z <= v
  <2>1. b + 1 \in 1..n + 1 /\ b + 1 <= j /\ p + 1 <= j
    BY <1>5, <1>7
  <2>2. s[j] \in Nat /\ s[p + 1] \in Nat /\ s[b + 1] \in Nat
    BY <1>4, <1>5, <2>1
  <2>3. s[p + 1] <= s[j]
    <3>1. CASE p + 1 = j
      BY <2>2, <3>1
    <3>2. CASE p + 1 < j
      BY <1>3, <1>5, <2>2, <3>2
    <3>. QED  BY <1>5, <2>1, <3>1, <3>2
  <2>4. s[b + 1] <= s[j]
    <3>1. CASE b + 1 = j
      BY <2>2, <3>1
    <3>2. CASE b + 1 < j
      BY <1>3, <1>5, <2>1, <2>2, <3>2
    <3>. QED  BY <1>5, <2>1, <3>1, <3>2
  <2>. QED  BY <2>2, <2>3, <2>4
<1>9. Counted(r, j) = b - p + v - z /\ Lies(r, j) = v - w
  BY <1>6, <1>7, <1>8
<1>10. Counted(r, j) \in Nat /\ Lies(r, j) \in Nat
  <2>1. b - p + v - z \in Nat /\ v - w \in Nat
    <3>1. p <= b /\ w <= v /\ z <= v
      BY <1>7, <1>8
    <3>. QED  BY <3>1, NotNegative
  <2>. QED  BY <1>9, <2>1, Zenon
<1>11. ASSUME LengthsTrue(r) PROVE Counted(r, j) = Lies(r, j)
  <2>1. b = p
    BY <1>1, <1>7, <1>11 DEF LengthsTrue
  <2>2. z = w
    BY <1>8, <2>1
  <2>. QED  BY <1>8, <1>9, <2>1, <2>2
<1>. QED  BY <1>10, <1>11

(* The batch's first slot is one of the leader's. *)
LEMMA StartType ==
    ASSUME NEW r \in Request, r.num > 0
    PROVE  StartSlot(r) \in Nat
<1>1. PICK t \in 1..MaxTerm, p \in Nat, n \in Nat :
         r.term = t /\ r.prev = p /\ n = Len(LeaderLog[t]) /\ p <= n
  BY RequestFacts
<1>2. PICK s \in Seq(Nat) : s = LeaderSlot[t] /\ Len(s) = n + 1
  BY <1>1, FollowerLogAssumptions
<1>3. p + 1 \in 1..n + 1
  BY <1>1
<1>. QED  BY <1>1, <1>2, <1>3 DEF StartSlot

(* What passes the checks of the first critical section. *)
LEMMA PrevInside ==
    ASSUME HandlerInv, NEW r \in Request, PrevOk(r)
    PROVE  /\ r.prev < tail
           /\ SkipEntries(r) = tail - (r.prev + 1)
<1>1. tail \in Nat /\ Len(log) \in Nat /\ tail = Len(log) + 1
  BY DEF HandlerInv, TypeOK
<1>2. r.prev \in Nat
  BY RequestFacts
<1>3. r.prev < tail
  BY <1>1, <1>2 DEF PrevOk
<1>. QED  BY <1>1, <1>2, <1>3 DEF SkipEntries

(* The commit index moves forward and stays inside the log. *)
LEMMA CommitForward ==
    ASSUME commitIndex \in Nat, NEW c \in Nat, NEW n \in Nat, commitIndex < n
    PROVE  /\ CommitAfter(c, n) \in Nat
           /\ CommitAfter(c, n) >= commitIndex
           /\ CommitAfter(c, n) < n
BY DEF CommitAfter

(* A success reply has the type of a reply. *)
LEMMA SuccessType ==
    ASSUME TypeOK, NEW r \in Request, Success(r)
    PROVE  acks' \in [1..MaxTerm -> Nat]
<1>1. r.term \in 1..MaxTerm /\ r.prev + r.num \in Nat
  BY RequestFacts
<1>. QED  BY <1>1 DEF TypeOK, Success

(* The first lines of the handler leave a typed state. *)
LEMMA ReceivedType ==
    ASSUME TypeOK, NEW r \in Request, Received(r)
    PROVE  state' \in {"Follower", "Candidate"} /\ term' \in Nat
<1>1. r.term \in Nat
  BY RequestFacts, LeaderLogType
<1>. QED  BY <1>1 DEF TypeOK, Received

(* An element of a sequence is of its type. *)
LEMMA ElementType ==
    ASSUME NEW S, NEW s \in Seq(S), NEW i \in 1..Len(s)
    PROVE  s[i] \in S
OBVIOUS

(* Appending t to s, index by index. *)
LEMMA Appended ==
    ASSUME NEW S, NEW s \in Seq(S), NEW t \in Seq(S), NEW k \in Nat, NEW n \in Nat,
           Len(s) = k, Len(t) = n
    PROVE  /\ s \o t \in Seq(S) /\ Len(s \o t) = k + n
           /\ \A i \in 1..k : (s \o t)[i] = s[i]
           /\ \A i \in 1..k + n : i > k => (s \o t)[i] = t[i - k]
OBVIOUS

(* The arithmetic of a batch of m entries after p, of which the log of     *)
(* length len has k and lacks n.                                           *)
LEMMA BatchIndices ==
    ASSUME NEW p \in Nat, NEW k \in Nat, NEW m \in Nat, NEW n \in Nat, NEW len \in Nat,
           p + k = len, len + n = p + m, n > 0
    PROVE  /\ p + 1 + m = len + n + 1 /\ p + 1 + m > len + 1 /\ len <= len + n
           /\ \A b \in Nat : p + m <= b => \A i \in 1..n : p + k + i \in 1..b
OBVIOUS

(* The second critical section appends the missing entries at the right    *)
(* indices and slots.                                                      *)
LEMMA AppendKeeps ==
    ASSUME HandlerInv, NEW c, c.req \in Request, c.skip \in Nat, c.slot \in Nat,
           c.req.prev < tail, c.skip = tail - (c.req.prev + 1), c.skip < c.req.num,
           c.slot = StartSlot(c.req), AppendBatch(c, c.slot)
    PROVE  /\ log' \in Seq(Entry) /\ tail' = Len(log') + 1 /\ tail' > tail /\ tail' \in Nat
           /\ tailSlot' \in Nat /\ acks' \in [1..MaxTerm -> Nat]
           /\ commitIndex' \in Nat /\ commitIndex' >= commitIndex /\ commitIndex' < tail'
           /\ ReadsWhatWasCopied'
           /\ tail' = c.req.prev + c.req.num + 1
           /\ Len(log) <= Len(log')
           /\ \A i \in 1..Len(log) : log'[i] = log[i]
           /\ \A i \in 1..Len(log') : i > Len(log) => log'[i].term = LeaderLog[c.req.term][i]
<1>1. PICK t \in 1..MaxTerm, p \in Nat, m \in Nat, d \in Nat, k \in Nat, z \in Nat :
         /\ c.req.term = t /\ c.req.prev = p /\ c.req.num = m /\ c.req.commit = d
         /\ c.skip = k /\ c.slot = z
  BY RequestFacts
<1>2. p + m <= Len(LeaderLog[t]) /\ LeaderLog[t] \in Seq(1..MaxTerm) /\ Len(LeaderLog[t]) \in Nat
  BY <1>1, RequestFacts
<1>3. /\ log \in Seq(Entry) /\ Len(log) \in Nat /\ tail = Len(log) + 1 /\ tail \in Nat
      /\ commitIndex \in Nat /\ commitIndex < tail /\ MaxTerm \in Nat
  BY LeaderLogType DEF HandlerInv, TypeOK, Entry
<1>4. PICK len \in Nat : Len(log) = len
  BY <1>3
<1>5. p <= len /\ k = len - p /\ k < m
  BY <1>1, <1>3, <1>4
<1>6. PICK n \in Nat : n = m - k /\ n > 0 /\ p + k = len /\ len + n = p + m
  BY <1>5
<1>. DEFINE e(i) == [term |-> LeaderLog[t][p + k + i],
                     slot |-> z + Counted(c.req, p + k + i),
                     data |-> z + Lies(c.req, p + k + i), told |-> LengthsTrue(c.req)]
            new == [i \in 1..n |-> e(i)]
<1>7. Pushed(c, c.slot) = new
  BY <1>1, <1>6 DEF Pushed
<1>8. \A i \in 1..n : e(i) \in Entry
  <2>. SUFFICES ASSUME NEW i \in 1..n
                PROVE  e(i) \in Entry
    OBVIOUS
  <2>1. p + k + i \in 1..Len(LeaderLog[t])
    BY <1>2, <1>6, BatchIndices
  <2>2. LeaderLog[t][p + k + i] \in 1..MaxTerm
    BY <1>2, <2>1, ElementType
  <2>3. LeaderLog[t][p + k + i] \in Nat
    BY <1>3, <2>2
  <2>4. Counted(c.req, p + k + i) \in Nat /\ Lies(c.req, p + k + i) \in Nat
    <3>1. p + k + i \in Nat /\ p < p + k + i /\ p + k + i <= p + m + 1
      BY <1>6
    <3>. QED  BY <1>1, <3>1, BatchSlots
  <2>5. z + Counted(c.req, p + k + i) \in Nat /\ z + Lies(c.req, p + k + i) \in Nat
    BY <2>4
  <2>6. LengthsTrue(c.req) \in BOOLEAN
    BY DEF LengthsTrue
  <2>. QED  BY <2>3, <2>5, <2>6 DEF Entry
<1>. HIDE DEF e
<1>9. new \in Seq(Entry) /\ Len(new) = n /\ \A i \in 1..n : new[i] = e(i)
  BY <1>8
<1>. HIDE DEF new
<1>10. log' = log \o new
  BY <1>7 DEF AppendBatch
<1>11. /\ log' \in Seq(Entry) /\ Len(log') = len + n
       /\ \A i \in 1..len : log'[i] = log[i]
       /\ \A i \in 1..len + n : i > len => log'[i] = new[i - len]
  <2>1. /\ log \o new \in Seq(Entry) /\ Len(log \o new) = len + n
        /\ \A i \in 1..len : (log \o new)[i] = log[i]
        /\ \A i \in 1..len + n : i > len => (log \o new)[i] = new[i - len]
    <3>1. log \in Seq(Entry) /\ Len(log) = len /\ new \in Seq(Entry) /\ Len(new) = n
      BY <1>3, <1>4, <1>9
    <3>. HIDE DEF Entry
    <3>. QED  BY <3>1, Appended, SMTT(30)
  <2>. QED  BY <1>10, <2>1, Zenon
<1>12. /\ tail' = p + 1 + m /\ Success(c.req)
       /\ commitIndex' = CommitAfter(d, p + 1 + m)
       /\ tailSlot' = z + Counted(c.req, p + m + 1)
  BY <1>1 DEF AppendBatch
<1>18. Counted(c.req, p + m + 1) \in Nat
  <2>1. p + m + 1 \in Nat /\ p < p + m + 1 /\ p + m + 1 <= p + m + 1
    OBVIOUS
  <2>. QED  BY <1>1, <2>1, BatchSlots
<1>13. /\ tail' = Len(log') + 1 /\ tail' > tail /\ tail' \in Nat /\ tail' = p + m + 1
       /\ tailSlot' \in Nat /\ Len(log) <= Len(log')
  <2>1. p + 1 + m = len + n + 1 /\ p + 1 + m > len + 1 /\ len <= len + n
    BY <1>6, BatchIndices
  <2>2. Len(log') = len + n /\ tail = len + 1
    BY <1>3, <1>4, <1>11
  <2>3. tail' = p + m + 1 /\ tail' \in Nat /\ tailSlot' \in Nat
    BY <1>12, <1>18
  <2>4. tail' > tail /\ tail' = Len(log') + 1
    BY <1>12, <2>1, <2>2
  <2>. QED  BY <1>4, <2>1, <2>2, <2>3, <2>4
<1>14. commitIndex' \in Nat /\ commitIndex' >= commitIndex /\ commitIndex' < tail'
  <2>1. p + 1 + m \in Nat /\ commitIndex < p + 1 + m
    BY <1>3, <1>4, <1>6, SMTT(30)
  <2>. QED  BY <1>3, <1>12, <2>1, CommitForward
<1>15. acks' \in [1..MaxTerm -> Nat]
  BY <1>12, SuccessType DEF HandlerInv
<1>16. ASSUME NEW i \in 1..Len(log'), i > Len(log)
       PROVE  /\ log'[i].term = LeaderLog[t][i]
              /\ log'[i].told => log'[i].slot = log'[i].data
  <2>1. i \in 1..len + n /\ i > len
    BY <1>4, <1>11, <1>16
  <2>2. i - len \in 1..n /\ p + k + (i - len) = i
    BY <1>6, <2>1
  <2>3. log'[i] = e(i - len)
    BY <1>9, <1>11, <2>1, <2>2
  <2>4. LengthsTrue(c.req) => Counted(c.req, i) = Lies(c.req, i)
    <3>1. i \in Nat /\ p < i /\ i <= p + m + 1
      BY <1>5, <1>6, <2>1
    <3>. QED  BY <1>1, <3>1, BatchSlots
  <2>. QED  BY <2>2, <2>3, <2>4 DEF e
<1>17. ReadsWhatWasCopied'
  <2>. SUFFICES ASSUME NEW i \in 1..Len(log')
                PROVE  log'[i].told => log'[i].slot = log'[i].data
    BY DEF ReadsWhatWasCopied
  <2>1. CASE i > Len(log)
    BY <1>16, <2>1
  <2>2. CASE ~(i > Len(log))
    <3>1. i \in 1..Len(log) /\ i \in 1..len
      BY <1>3, <1>4, <1>11, <2>2
    <3>. QED  BY <1>11, <3>1 DEF HandlerInv, ReadsWhatWasCopied
  <2>. QED  BY <2>1, <2>2
<1>. QED  BY <1>1, <1>4, <1>11, <1>13, <1>14, <1>15, <1>16, <1>17

-----------------------------------------------------------------------------
(* The steps *)

(* The invariant holds after init_storage. *)
LEMMA HandlerInit == Init => HandlerInv
<1>. SUFFICES ASSUME Init
              PROVE  HandlerInv
  OBVIOUS
<1>1. log \in Seq(Entry) /\ Len(log) = 0
  BY DEF Init
<1>2. copies \in [Thread -> Copy \cup {NoCopy}] /\ acks \in [1..MaxTerm -> Nat]
  BY DEF Init
<1>3. TypeOK
  BY <1>1, <1>2 DEF Init, TypeOK, Entry
<1>4. CopiesCurrent
  BY DEF Init, CopiesCurrent
<1>5. ReadsWhatWasCopied
  BY <1>1 DEF ReadsWhatWasCopied
<1>. QED  BY <1>1, <1>3, <1>4, <1>5 DEF Init, HandlerInv

(* A step that leaves log, tail, slot and copies alone. *)
LEMMA QuietStep ==
    ASSUME HandlerInv, UNCHANGED <<log, tail, tailSlot, copies>>,
           state' \in {"Follower", "Candidate"}, term' \in Nat,
           commitIndex' \in Nat, commitIndex' < tail, acks' \in [1..MaxTerm -> Nat]
    PROVE  HandlerInv'
<1>1. TypeOK'
  BY DEF HandlerInv, TypeOK
<1>2. CopiesCurrent'
  BY DEF HandlerInv, CopiesCurrent, CopyCurrent
<1>. QED  BY <1>1, <1>2 DEF HandlerInv, ReadsWhatWasCopied

(* A batch appended when no copy is left under way. *)
LEMMA AppendStep ==
    ASSUME HandlerInv, NEW c, c.req \in Request, c.skip \in Nat, c.slot \in Nat,
           c.req.prev < tail, c.skip = tail - (c.req.prev + 1), c.skip < c.req.num,
           c.slot = StartSlot(c.req), AppendBatch(c, c.slot),
           state' \in {"Follower", "Candidate"}, term' \in Nat,
           copies' \in [Thread -> Copy \cup {NoCopy}],
           \A h \in Thread : copies'[h] = NoCopy
    PROVE  HandlerInv'
<1>1. /\ log' \in Seq(Entry) /\ tail' = Len(log') + 1 /\ tail' > tail /\ tail' \in Nat
      /\ tailSlot' \in Nat /\ acks' \in [1..MaxTerm -> Nat]
      /\ commitIndex' \in Nat /\ commitIndex' >= commitIndex /\ commitIndex' < tail'
      /\ ReadsWhatWasCopied'
  BY AppendKeeps
<1>2. TypeOK'
  BY <1>1 DEF TypeOK, Entry
<1>3. CopiesCurrent'
  BY DEF CopiesCurrent
<1>. QED  BY <1>1, <1>2, <1>3 DEF HandlerInv

(* What the first critical section keeps on the stack. *)
LEMMA CopyOfFacts ==
    ASSUME HandlerInv, NEW r \in Request, PrevOk(r), SkipEntries(r) < r.num,
           NEW c, c = CopyOf(r)
    PROVE  /\ c \in Copy
           /\ c.req \in Request /\ c.skip \in Nat /\ c.slot \in Nat
           /\ c.req = r
           /\ c.req.prev < tail /\ c.skip = tail - (c.req.prev + 1) /\ c.skip < c.req.num
           /\ c.slot = StartSlot(c.req)
<1>1. r.prev \in Nat /\ r.num \in Nat /\ tail \in Nat
  BY RequestFacts DEF HandlerInv, TypeOK
<1>2. r.prev < tail /\ SkipEntries(r) = tail - (r.prev + 1)
  BY PrevInside
<1>3. c.req = r /\ c.skip = SkipEntries(r) /\ c.slot = StartSlot(r)
  BY DEF CopyOf
<1>4. SkipEntries(r) \in Nat /\ StartSlot(r) \in Nat
  <2>1. SkipEntries(r) \in Nat /\ r.num > 0
    BY <1>1, <1>2
  <2>. QED  BY <2>1, StartType
<1>5. c \in Copy
  BY <1>4 DEF CopyOf, Copy
<1>. QED  BY <1>2, <1>3, <1>4, <1>5

(* Every step of the handlers keeps the invariant. *)
LEMMA HandlerStep ==
    ASSUME Timely, HandlerInv, [Next]_vars
    PROVE  HandlerInv'
<1>1. /\ TypeOK /\ tail \in Nat /\ commitIndex \in Nat /\ commitIndex < tail
      /\ acks \in [1..MaxTerm -> Nat] /\ term \in Nat /\ state \in {"Follower", "Candidate"}
      /\ copies \in [Thread -> Copy \cup {NoCopy}]
  BY DEF HandlerInv, TypeOK
<1>2. ASSUME NEW r \in Request, Refuse(r)
      PROVE  HandlerInv'
  <2>1. state' \in {"Follower", "Candidate"} /\ term' \in Nat
    BY <1>1, <1>2, ReceivedType DEF Refuse
  <2>2. UNCHANGED <<log, tail, tailSlot, commitIndex, copies, acks>>
    BY <1>2 DEF Refuse
  <2>3. commitIndex' \in Nat /\ commitIndex' < tail /\ acks' \in [1..MaxTerm -> Nat]
    BY <1>1, <2>2
  <2>. QED  BY <2>1, <2>2, <2>3, QuietStep
<1>3. ASSUME NEW r \in Request, NothingNew(r)
      PROVE  HandlerInv'
  <2>1. state' \in {"Follower", "Candidate"} /\ term' \in Nat
    BY <1>1, <1>3, ReceivedType DEF NothingNew
  <2>2. acks' \in [1..MaxTerm -> Nat]
    BY <1>1, <1>3, SuccessType DEF NothingNew
  <2>3. UNCHANGED <<log, tail, tailSlot, copies>> /\ commitIndex' = CommitAfter(r.commit, tail)
    BY <1>3 DEF NothingNew
  <2>4. commitIndex' \in Nat /\ commitIndex' < tail
    BY <1>1, <2>3, RequestFacts, CommitForward
  <2>. QED  BY <2>1, <2>2, <2>3, <2>4, QuietStep
<1>4. ASSUME NEW r \in Request, AppendAtOnce(r)
      PROVE  HandlerInv'
  <2>1. state' \in {"Follower", "Candidate"} /\ term' \in Nat
    BY <1>1, <1>4, ReceivedType DEF AppendAtOnce
  <2>2. PICK c : c = CopyOf(r)
    OBVIOUS
  <2>3. /\ c.req \in Request /\ c.skip \in Nat /\ c.slot \in Nat
        /\ c.req = r
        /\ c.req.prev < tail /\ c.skip = tail - (c.req.prev + 1) /\ c.skip < c.req.num
        /\ c.slot = StartSlot(c.req)
    BY <1>4, <2>2, CopyOfFacts DEF AppendAtOnce
  <2>4. AppendBatch(CopyOf(r), StartSlot(r)) /\ copies' = copies
    BY <1>4 DEF AppendAtOnce
  <2>5. AppendBatch(c, c.slot)
    BY <2>2, <2>3, <2>4
  <2>6. \A h \in Thread : copies'[h] = NoCopy
    BY <1>4, <2>4 DEF AppendAtOnce, Undisturbed, Timely
  <2>. QED  BY <1>1, <2>1, <2>3, <2>4, <2>5, <2>6, AppendStep
<1>5. ASSUME NEW r \in Request, NEW h \in Thread, BeginCopy(h, r)
      PROVE  HandlerInv'
  <2>1. state' \in {"Follower", "Candidate"} /\ term' \in Nat
    BY <1>1, <1>5, ReceivedType DEF BeginCopy
  <2>2. PICK c : c = CopyOf(r)
    OBVIOUS
  <2>3. /\ c \in Copy /\ c.slot \in Nat /\ c.req = r
        /\ c.req.prev < tail /\ c.skip = tail - (c.req.prev + 1) /\ c.skip < c.req.num
        /\ c.slot = StartSlot(c.req)
    BY <1>5, <2>2, CopyOfFacts DEF BeginCopy
  <2>4. /\ tailSlot' = StartSlot(r) /\ copies' = [copies EXCEPT ![h] = c]
        /\ UNCHANGED <<log, tail, commitIndex, acks>>
    BY <1>5, <2>2 DEF BeginCopy
  <2>5. \A g \in Thread : copies[g] = NoCopy
    BY <1>5 DEF BeginCopy, Undisturbed, Timely
  <2>6. copies' \in [Thread -> Copy \cup {NoCopy}] /\ copies'[h] = c
        /\ \A g \in Thread : g # h => copies'[g] = NoCopy
    BY <1>1, <2>3, <2>4, <2>5
  <2>7. tailSlot' = c.slot
    BY <2>3, <2>4
  <2>8. CopiesCurrent'
    BY <2>3, <2>4, <2>6, <2>7 DEF CopiesCurrent, CopyCurrent
  <2>9. TypeOK'
    BY <1>1, <2>1, <2>3, <2>4, <2>6, <2>7 DEF TypeOK
  <2>. QED  BY <2>4, <2>8, <2>9 DEF HandlerInv, ReadsWhatWasCopied
<1>6. ASSUME NEW h \in Thread, CopyFails(h)
      PROVE  HandlerInv'
  <2>1. copies' = [copies EXCEPT ![h] = NoCopy]
        /\ UNCHANGED <<state, term, log, tail, tailSlot, commitIndex, acks>>
    BY <1>6 DEF CopyFails
  <2>2. copies' \in [Thread -> Copy \cup {NoCopy}]
        /\ \A g \in Thread : copies'[g] # NoCopy => copies'[g] = copies[g]
    BY <1>1, <2>1
  <2>3. CopiesCurrent'
    BY <2>1, <2>2 DEF HandlerInv, CopiesCurrent, CopyCurrent
  <2>4. TypeOK'
    BY <1>1, <2>1, <2>2 DEF TypeOK
  <2>. QED  BY <2>1, <2>3, <2>4 DEF HandlerInv, ReadsWhatWasCopied
<1>7. ASSUME NEW h \in Thread, FinishCopy(h)
      PROVE  HandlerInv'
  <2>1. PICK c : c = copies[h]
    OBVIOUS
  <2>2. c \in Copy /\ CopyCurrent(c) /\ \A g \in Thread : g # h => copies[g] = NoCopy
    BY <1>1, <1>7, <2>1 DEF FinishCopy, HandlerInv, CopiesCurrent
  <2>3. /\ c.req \in Request /\ c.skip \in Nat /\ c.slot \in Nat
        /\ c.req.prev < tail /\ c.skip = tail - (c.req.prev + 1) /\ c.skip < c.req.num
        /\ c.slot = StartSlot(c.req) /\ tailSlot = c.slot
    BY <2>2 DEF Copy, CopyCurrent
  <2>4. AppendBatch(copies[h], tailSlot) /\ copies' = [copies EXCEPT ![h] = NoCopy]
        /\ UNCHANGED <<state, term>>
    BY <1>7 DEF FinishCopy
  <2>5. AppendBatch(c, c.slot)
    BY <2>1, <2>3, <2>4
  <2>6. copies' \in [Thread -> Copy \cup {NoCopy}] /\ \A g \in Thread : copies'[g] = NoCopy
    BY <1>1, <2>2, <2>4
  <2>7. state' \in {"Follower", "Candidate"} /\ term' \in Nat
    BY <1>1, <2>4
  <2>. QED  BY <2>3, <2>5, <2>6, <2>7, AppendStep
<1>8. ASSUME Timeout \/ \E t \in 1..MaxTerm : HigherTerm(t)
      PROVE  HandlerInv'
  <2>1. state' \in {"Follower", "Candidate"} /\ term' \in Nat
    BY <1>1, <1>8, LeaderLogType DEF Timeout, HigherTerm
  <2>2. UNCHANGED <<log, tail, tailSlot, commitIndex, copies, acks>>
    BY <1>8 DEF Timeout, HigherTerm
  <2>3. commitIndex' \in Nat /\ commitIndex' < tail /\ acks' \in [1..MaxTerm -> Nat]
    BY <1>1, <2>2
  <2>. QED  BY <2>1, <2>2, <2>3, QuietStep
<1>9. ASSUME UNCHANGED vars
      PROVE  HandlerInv'
  <2>1. UNCHANGED <<state, term, log, tail, tailSlot, commitIndex, copies, acks>>
    BY <1>9 DEF vars
  <2>2. /\ commitIndex' \in Nat /\ commitIndex' < tail /\ acks' \in [1..MaxTerm -> Nat]
        /\ state' \in {"Follower", "Candidate"} /\ term' \in Nat
    BY <1>1, <2>1
  <2>. QED  BY <2>1, <2>2, QuietStep
<1>. QED
  BY <1>2, <1>3, <1>4, <1>5, <1>6, <1>7, <1>8, <1>9 DEF Next

(* The inductive invariant of the handler: the vector and tail_log_index   *)
(* agree, and a copy under way still fits where it will be appended.       *)
THEOREM HandlerInvariant == Timely => (Spec => []HandlerInv)
<1>1. ASSUME Timely
      PROVE  Spec => []HandlerInv
  <2>1. HandlerInv /\ [Next]_vars => HandlerInv'
    BY <1>1, HandlerStep
  <2>. QED  BY <2>1, HandlerInit, PTL DEF Spec
<1>. QED  BY <1>1

(* The vector and tail_log_index agree for ever, so log_slice finds every  *)
(* entry, whatever is repeated, lost or late (init_storage, push loop).    *)
THEOREM IndicesFromOne == Timely => (Spec => []IndexFromOne)
<1>1. ASSUME Timely
      PROVE  Spec => []IndexFromOne
  <2>1. HandlerInv => IndexFromOne
    <3>1. HandlerInv => Len(log) \in Nat /\ tail = Len(log) + 1
      BY DEF HandlerInv, TypeOK
    <3>. QED  BY <3>1 DEF IndexFromOne, OldestLogIndex
  <2>2. Spec => []HandlerInv
    BY <1>1, HandlerInvariant
  <2>. QED  BY <2>1, <2>2, PTL
<1>. QED  BY <1>1

(* An entry whose batch carried true lengths is looked for in the slot its *)
(* blocks were copied to, in both replication modes, over failed copies    *)
(* and repeated batches, wherever the leaders keep their entries.          *)
THEOREM ReadsItsCopies == Timely => (Spec => []ReadsWhatWasCopied)
<1>1. ASSUME Timely
      PROVE  Spec => []ReadsWhatWasCopied
  <2>1. HandlerInv => ReadsWhatWasCopied
    BY DEF HandlerInv
  <2>2. Spec => []HandlerInv
    BY <1>1, HandlerInvariant
  <2>. QED  BY <2>1, <2>2, PTL
<1>. QED  BY <1>1

-----------------------------------------------------------------------------
(* Commits *)

(* No step takes a commit back or commits what is missing. *)
LEMMA CommitStep ==
    ASSUME Timely, HandlerInv, HandlerInv', [Next]_vars
    PROVE  [commitIndex' >= commitIndex /\ commitIndex' < tail']_vars
<1>1. commitIndex \in Nat /\ tail \in Nat /\ commitIndex < tail /\ commitIndex' < tail'
  BY DEF HandlerInv, TypeOK
<1>2. ASSUME commitIndex' = commitIndex
      PROVE  commitIndex' >= commitIndex
  BY <1>1, <1>2
<1>3. ASSUME NEW r \in Request, NothingNew(r)
      PROVE  commitIndex' >= commitIndex
  <2>1. commitIndex' = CommitAfter(r.commit, tail) /\ r.commit \in Nat
    BY <1>3, RequestFacts DEF NothingNew
  <2>. QED  BY <1>1, <2>1, CommitForward
<1>4. ASSUME NEW r \in Request, AppendAtOnce(r)
      PROVE  commitIndex' >= commitIndex
  <2>1. PICK c : c = CopyOf(r)
    OBVIOUS
  <2>2. /\ c.req \in Request /\ c.skip \in Nat /\ c.slot \in Nat /\ c.req = r
        /\ c.req.prev < tail /\ c.skip = tail - (c.req.prev + 1) /\ c.skip < c.req.num
        /\ c.slot = StartSlot(c.req)
    BY <1>4, <2>1, CopyOfFacts DEF AppendAtOnce
  <2>3. AppendBatch(c, c.slot)
    BY <1>4, <2>1, <2>2 DEF AppendAtOnce
  <2>. QED  BY <2>2, <2>3, AppendKeeps
<1>5. ASSUME NEW h \in Thread, FinishCopy(h)
      PROVE  commitIndex' >= commitIndex
  <2>1. PICK c : c = copies[h]
    OBVIOUS
  <2>2. c \in Copy /\ CopyCurrent(c)
    BY <1>5, <2>1 DEF FinishCopy, HandlerInv, TypeOK, CopiesCurrent
  <2>3. /\ c.req \in Request /\ c.skip \in Nat /\ c.slot \in Nat
        /\ c.req.prev < tail /\ c.skip = tail - (c.req.prev + 1) /\ c.skip < c.req.num
        /\ c.slot = StartSlot(c.req) /\ tailSlot = c.slot
    BY <2>2 DEF Copy, CopyCurrent
  <2>4. AppendBatch(c, c.slot)
    BY <1>5, <2>1, <2>3 DEF FinishCopy
  <2>. QED  BY <2>3, <2>4, AppendKeeps
<1>6. ASSUME NEW r \in Request, Refuse(r) \/ \E h \in Thread : BeginCopy(h, r)
      PROVE  commitIndex' = commitIndex
  BY <1>6 DEF Refuse, BeginCopy
<1>7. ASSUME \/ \E h \in Thread : CopyFails(h)
             \/ Timeout
             \/ \E t \in 1..MaxTerm : HigherTerm(t)
      PROVE  commitIndex' = commitIndex
  BY <1>7 DEF CopyFails, Timeout, HigherTerm
<1>. QED  BY <1>1, <1>2, <1>3, <1>4, <1>5, <1>6, <1>7 DEF Next

(* The follower commits what it has, and takes no commit back. *)
THEOREM CommitsInsideLog == Timely => (Spec => CommitInsideLog)
<1>1. ASSUME Timely
      PROVE  Spec => CommitInsideLog
  <2>1. HandlerInv /\ HandlerInv' /\ [Next]_vars
           => [commitIndex' >= commitIndex /\ commitIndex' < tail']_vars
    BY <1>1, CommitStep
  <2>2. Spec => []HandlerInv
    BY <1>1, HandlerInvariant
  <2>. QED  BY <2>1, <2>2, PTL DEF Spec, CommitInsideLog
<1>. QED  BY <1>1

-----------------------------------------------------------------------------
(* Promises to the leaders *)

(* What was confirmed to a leader lies inside both logs. *)
AcksInside ==
    \A t \in 1..MaxTerm : acks[t] <= Len(log) /\ acks[t] <= Len(LeaderLog[t])

PromiseInv == PrefixOfLeader /\ AcksInside

(* A success reply confirms no more than the log has. *)
LEMMA SuccessInside ==
    ASSUME HandlerInv, AcksInside, NEW r \in Request, Success(r),
           Len(log') \in Nat, Len(log) <= Len(log'), r.prev + r.num <= Len(log')
    PROVE  AcksInside'
<1>1. /\ r.term \in 1..MaxTerm /\ r.prev + r.num \in Nat
      /\ r.prev + r.num <= Len(LeaderLog[r.term])
  BY RequestFacts
<1>2. PICK k \in Nat : k = r.prev + r.num
  BY <1>1
<1>3. acks' = [acks EXCEPT ![r.term] = IF k > @ THEN k ELSE @] /\ k <= Len(log')
      /\ k <= Len(LeaderLog[r.term])
  BY <1>1, <1>2 DEF Success
<1>4. acks \in [1..MaxTerm -> Nat] /\ Len(log) \in Nat
  BY DEF HandlerInv, TypeOK
<1>. SUFFICES ASSUME NEW t \in 1..MaxTerm
              PROVE  acks'[t] <= Len(log') /\ acks'[t] <= Len(LeaderLog[t])
  BY DEF AcksInside
<1>5. acks[t] <= Len(log) /\ acks[t] <= Len(LeaderLog[t]) /\ acks[t] \in Nat
  BY <1>4 DEF AcksInside
<1>6. acks'[t] = acks[t] \/ (t = r.term /\ acks'[t] = k)
  BY <1>1, <1>3, <1>4
<1>. QED  BY <1>3, <1>4, <1>5, <1>6

(* A batch appended at its place keeps the log a leader's. *)
LEMMA AppendPromises ==
    ASSUME Agreeing, HandlerInv, PromiseInv,
           NEW c, c.req \in Request, c.skip \in Nat, c.slot \in Nat,
           c.req.prev < tail, c.skip = tail - (c.req.prev + 1), c.skip < c.req.num,
           c.slot = StartSlot(c.req), AppendBatch(c, c.slot)
    PROVE  PromiseInv'
<1>1. /\ log' \in Seq(Entry) /\ tail' = Len(log') + 1
      /\ tail' = c.req.prev + c.req.num + 1
      /\ Len(log) <= Len(log')
      /\ \A i \in 1..Len(log) : log'[i] = log[i]
      /\ \A i \in 1..Len(log') : i > Len(log) => log'[i].term = LeaderLog[c.req.term][i]
  BY AppendKeeps
<1>2. PICK t \in 1..MaxTerm : c.req.term = t
  BY RequestFacts
<1>3. PICK k \in Nat : k = c.req.prev + c.req.num /\ k <= Len(LeaderLog[t])
  BY <1>2, RequestFacts, SMTT(30)
<1>4. Len(log') \in Nat /\ Len(log) \in Nat /\ Len(LeaderLog[t]) \in Nat
  BY <1>1, <1>2, RequestFacts DEF HandlerInv, TypeOK
<1>5. Len(log') = k
  BY <1>1, <1>3, <1>4
<1>6. AcksInside'
  <2>1. Success(c.req)
    BY DEF AppendBatch
  <2>2. c.req.prev + c.req.num <= Len(log')
    BY <1>3, <1>5
  <2>. QED  BY <1>1, <1>4, <2>1, <2>2, SuccessInside DEF PromiseInv
<1>7. PICK u \in 1..MaxTerm : /\ Len(log) <= Len(LeaderLog[u])
                              /\ \A i \in 1..Len(log) : log[i].term = LeaderLog[u][i]
  BY DEF PromiseInv, PrefixOfLeader
<1>8. Len(LeaderLog[u]) \in Nat
  BY <1>7, LeaderLogType
<1>9. ASSUME NEW i \in 1..Len(log')
      PROVE  log'[i].term = LeaderLog[t][i]
  <2>1. CASE i > Len(log)
    BY <1>1, <1>2, <2>1
  <2>2. CASE ~(i > Len(log))
    <3>1. i \in 1..Len(log) /\ i \in 1..Len(LeaderLog[u]) /\ i <= Len(LeaderLog[t])
      BY <1>3, <1>4, <1>5, <1>7, <1>8, <1>9, <2>2
    <3>2. LeaderLog[u][i] = LeaderLog[t][i]
      BY <1>7, <3>1 DEF Agreeing
    <3>. QED  BY <1>1, <1>7, <3>1, <3>2
  <2>. QED  BY <2>1, <2>2
<1>10. PrefixOfLeader'
  BY <1>3, <1>5, <1>9 DEF PrefixOfLeader
<1>. QED  BY <1>6, <1>10 DEF PromiseInv

(* Every step keeps the log a leader's and the replies true. *)
LEMMA PromiseStep ==
    ASSUME Timely, Agreeing, HandlerInv, PromiseInv, [Next]_vars
    PROVE  PromiseInv'
<1>1. ASSUME UNCHANGED <<log, acks>>
      PROVE  PromiseInv'
  BY <1>1 DEF PromiseInv, PrefixOfLeader, AcksInside
<1>2. ASSUME NEW r \in Request, NothingNew(r)
      PROVE  PromiseInv'
  <2>1. /\ log' = log /\ Success(r) /\ PrevOk(r) /\ SkipEntries(r) >= r.num
    BY <1>2 DEF NothingNew
  <2>2. Len(log) \in Nat /\ tail = Len(log) + 1 /\ r.prev \in Nat /\ r.num \in Nat
    BY RequestFacts DEF HandlerInv, TypeOK
  <2>3. r.prev < tail /\ SkipEntries(r) = tail - (r.prev + 1)
    BY <2>1, PrevInside
  <2>4. r.prev + r.num <= Len(log)
    BY <2>1, <2>2, <2>3
  <2>5. AcksInside'
    BY <2>1, <2>2, <2>4, SuccessInside DEF PromiseInv
  <2>6. PrefixOfLeader'
    BY <2>1 DEF PromiseInv, PrefixOfLeader
  <2>. QED  BY <2>5, <2>6 DEF PromiseInv
<1>3. ASSUME NEW r \in Request, AppendAtOnce(r)
      PROVE  PromiseInv'
  <2>1. PICK c : c = CopyOf(r)
    OBVIOUS
  <2>2. /\ c.req \in Request /\ c.skip \in Nat /\ c.slot \in Nat /\ c.req = r
        /\ c.req.prev < tail /\ c.skip = tail - (c.req.prev + 1) /\ c.skip < c.req.num
        /\ c.slot = StartSlot(c.req)
    BY <1>3, <2>1, CopyOfFacts DEF AppendAtOnce
  <2>3. AppendBatch(c, c.slot)
    BY <1>3, <2>1, <2>2 DEF AppendAtOnce
  <2>. QED  BY <2>2, <2>3, AppendPromises
<1>4. ASSUME NEW h \in Thread, FinishCopy(h)
      PROVE  PromiseInv'
  <2>1. PICK c : c = copies[h]
    OBVIOUS
  <2>2. c \in Copy /\ CopyCurrent(c)
    BY <1>4, <2>1 DEF FinishCopy, HandlerInv, TypeOK, CopiesCurrent
  <2>3. /\ c.req \in Request /\ c.skip \in Nat /\ c.slot \in Nat
        /\ c.req.prev < tail /\ c.skip = tail - (c.req.prev + 1) /\ c.skip < c.req.num
        /\ c.slot = StartSlot(c.req) /\ tailSlot = c.slot
    BY <2>2 DEF Copy, CopyCurrent
  <2>4. AppendBatch(c, c.slot)
    BY <1>4, <2>1, <2>3 DEF FinishCopy
  <2>. QED  BY <2>3, <2>4, AppendPromises
<1>5. ASSUME NEW r \in Request, Refuse(r) \/ \E h \in Thread : BeginCopy(h, r)
      PROVE  UNCHANGED <<log, acks>>
  BY <1>5 DEF Refuse, BeginCopy
<1>6. ASSUME \/ \E h \in Thread : CopyFails(h)
             \/ Timeout
             \/ \E t \in 1..MaxTerm : HigherTerm(t)
      PROVE  UNCHANGED <<log, acks>>
  BY <1>6 DEF CopyFails, Timeout, HigherTerm
<1>7. ASSUME UNCHANGED vars
      PROVE  UNCHANGED <<log, acks>>
  BY <1>7 DEF vars
<1>. QED  BY <1>1, <1>2, <1>3, <1>4, <1>5, <1>6, <1>7 DEF Next

(* Nothing has been promised at the start. *)
LEMMA PromiseInit ==
    ASSUME Agreeing, Init
    PROVE  PromiseInv
<1>1. Len(log) = 0
  BY DEF Init
<1>2. \A t \in 1..MaxTerm : Len(LeaderLog[t]) \in Nat
  BY LeaderLogType
<1>3. PrefixOfLeader
  <2>1. 1 \in 1..MaxTerm
    BY LeaderLogType DEF Agreeing
  <2>. QED  BY <1>1, <1>2, <2>1 DEF PrefixOfLeader
<1>4. AcksInside
  BY <1>1, <1>2 DEF Init, AcksInside
<1>. QED  BY <1>3, <1>4 DEF PromiseInv

(* What a success promised is there. *)
LEMMA PromisesHeld ==
    ASSUME Agreeing, HandlerInv, PromiseInv
    PROVE  AckedPresent
<1>. SUFFICES ASSUME NEW t \in 1..MaxTerm, NEW i \in 1..acks[t]
              PROVE  i < tail /\ TermAt(i) = LeaderLog[t][i]
  BY DEF AckedPresent
<1>1. /\ Len(log) \in Nat /\ tail = Len(log) + 1 /\ acks[t] \in Nat
      /\ acks[t] <= Len(log) /\ acks[t] <= Len(LeaderLog[t])
  <2>1. Len(log) \in Nat /\ tail = Len(log) + 1 /\ acks \in [1..MaxTerm -> Nat]
    BY DEF HandlerInv, TypeOK
  <2>2. acks[t] <= Len(log) /\ acks[t] <= Len(LeaderLog[t])
    BY DEF PromiseInv, AcksInside
  <2>. QED  BY <2>1, <2>2
<1>2. PICK u \in 1..MaxTerm : /\ Len(log) <= Len(LeaderLog[u])
                              /\ \A j \in 1..Len(log) : log[j].term = LeaderLog[u][j]
  BY DEF PromiseInv, PrefixOfLeader
<1>3. Len(LeaderLog[u]) \in Nat /\ Len(LeaderLog[t]) \in Nat
  BY <1>2, LeaderLogType
<1>4. i \in 1..Len(log) /\ i \in 1..Len(LeaderLog[u]) /\ i <= Len(LeaderLog[t]) /\ i < tail
  BY <1>1, <1>2, <1>3
<1>5. LeaderLog[u][i] = LeaderLog[t][i]
  BY <1>2, <1>4 DEF Agreeing
<1>6. i - OldestLogIndex + 1 = i
  BY <1>1, <1>4 DEF OldestLogIndex
<1>7. TermAt(i) = log[i].term
  BY <1>6 DEF TermAt
<1>. QED  BY <1>2, <1>4, <1>5, <1>7

(* The follower repeats a leader's log, whatever is lost, repeated or      *)
(* late, as long as the leaders' logs agree.                               *)
THEOREM RepeatsALeader == Timely /\ Agreeing => (Spec => []PrefixOfLeader)
<1>1. ASSUME Timely, Agreeing
      PROVE  Spec => []PrefixOfLeader
  <2>1. Init => PromiseInv
    BY <1>1, PromiseInit
  <2>2. HandlerInv /\ PromiseInv /\ [Next]_vars => PromiseInv'
    BY <1>1, PromiseStep
  <2>3. PromiseInv => PrefixOfLeader
    BY DEF PromiseInv
  <2>4. Spec => []HandlerInv
    BY <1>1, HandlerInvariant
  <2>. QED  BY <2>1, <2>2, <2>3, <2>4, PTL DEF Spec
<1>. QED  BY <1>1

(* Every success reply stays true: what it confirmed to a leader of any    *)
(* term is in the log for ever.                                            *)
THEOREM AcksStayPresent == Timely /\ Agreeing => (Spec => []AckedPresent)
<1>1. ASSUME Timely, Agreeing
      PROVE  Spec => []AckedPresent
  <2>1. Init => PromiseInv
    BY <1>1, PromiseInit
  <2>2. HandlerInv /\ PromiseInv /\ [Next]_vars => PromiseInv'
    BY <1>1, PromiseStep
  <2>3. HandlerInv /\ PromiseInv => AckedPresent
    BY <1>1, PromisesHeld
  <2>4. Spec => []HandlerInv
    BY <1>1, HandlerInvariant
  <2>. QED  BY <2>1, <2>2, <2>3, <2>4, PTL DEF Spec
<1>. QED  BY <1>1
=============================================================================
