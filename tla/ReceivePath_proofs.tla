-------------------------- MODULE ReceivePath_proofs --------------------------
(***************************************************************************)
(* Proofs about the receive path: first MultiBearer, for every number of   *)
(* bearers, topics and frames and every size of the memory and of the      *)
(* ring; then the copies of a frame and what apps get of them, for any     *)
(* sealed frames and depths.                                               *)
(***************************************************************************)
EXTENDS ReceivePath, SequenceTheorems, TLAPS

USE SeenMaxAssumption, RxMaxAssumption, BoundAssumption

-----------------------------------------------------------------------------
\* The memory after a new frame: how long it is and what it holds, entry by
\* entry, while the oldest entry makes room.
LEMMA MemoryAfterNew ==
  ASSUME TypeOK, MemoryAgrees, NEW f \in Frame, IngestNew(f)
  PROVE  /\ m_seenOrder' \in Seq(Ids)
         /\ Len(m_seenOrder') = IF Len(m_seenOrder) >= SeenMax
                                THEN Len(m_seenOrder) ELSE Len(m_seenOrder) + 1
         /\ m_seenOrder'[Len(m_seenOrder')] = FrameId(f)
         /\ \A i \in 1..(Len(m_seenOrder') - 1) :
              m_seenOrder'[i] = IF Len(m_seenOrder) >= SeenMax
                                THEN m_seenOrder[i + 1] ELSE m_seenOrder[i]
<1>1. FrameId(f) \in Ids
  BY DEF Frame, FrameId, Ids
<1>2. m_seenOrder \in Seq(Ids) /\ Len(m_seenOrder) \in Nat
  BY DEF TypeOK
<1> DEFINE new == Append(Kept, FrameId(f))
<1>0. m_seenOrder' = new
  BY DEF IngestNew
<1>3. CASE Len(m_seenOrder) >= SeenMax
  <2>1. m_seenOrder # << >> /\ Kept = Tail(m_seenOrder)
    BY <1>2, <1>3 DEF Kept, Full
  <2>2. Kept \in Seq(Ids) /\ Len(Kept) = Len(m_seenOrder) - 1
    BY <1>2, <2>1
  <2>3. \A i \in 1..(Len(m_seenOrder) - 1) : Kept[i] = m_seenOrder[i + 1]
    BY <1>2, <2>1
  <2>4. new \in Seq(Ids) /\ Len(new) = Len(m_seenOrder) /\ new[Len(new)] = FrameId(f)
    BY <1>1, <1>2, <2>2
  <2>5. \A i \in 1..(Len(m_seenOrder) - 1) : new[i] = Kept[i]
    BY <1>1, <1>2, <2>2
  <2> HIDE DEF new
  <2> QED
    BY <1>0, <1>2, <1>3, <2>3, <2>4, <2>5
<1>4. CASE ~(Len(m_seenOrder) >= SeenMax)
  <2>1. Kept = m_seenOrder
    BY <1>4 DEF Kept, Full
  <2>2. new \in Seq(Ids) /\ Len(new) = Len(m_seenOrder) + 1 /\ new[Len(new)] = FrameId(f)
    BY <1>1, <1>2, <2>1
  <2>3. \A i \in 1..Len(m_seenOrder) : new[i] = m_seenOrder[i]
    BY <1>1, <1>2, <2>1
  <2> HIDE DEF new
  <2> QED
    BY <1>0, <1>2, <1>4, <2>2, <2>3
<1> QED
  BY <1>3, <1>4

-----------------------------------------------------------------------------
\* Type correctness of the receive path.
THEOREM TypeCorrect == Spec => []TypeOK
<1>1. Init => TypeOK
  BY DEF Init, TypeOK
<1>2. TypeOK /\ [Next]_vars => TypeOK'
  <2> SUFFICES ASSUME TypeOK, [Next]_vars PROVE TypeOK'
    OBVIOUS
  <2>1. ASSUME NEW f \in Frame, IngestDuplicate(f) PROVE TypeOK'
    <3>1. FrameId(f) \in Ids
      BY DEF Frame, FrameId, Ids
    <3> QED
      BY <2>1, <3>1 DEF TypeOK, IngestDuplicate
  <2>2. ASSUME NEW f \in Frame, IngestNew(f) PROVE TypeOK'
    <3>1. FrameId(f) \in Ids
      BY DEF Frame, FrameId, Ids
    <3>2. Kept \in Seq(Ids)
      BY DEF Kept, Full, TypeOK
    <3>3. m_seenOrder' \in Seq(Ids)
      BY <2>2, <3>1, <3>2 DEF IngestNew
    <3>4. m_rxLog' \in Seq(Frame) /\ delivered' \in Seq(Frame)
      BY <2>2 DEF TypeOK, IngestNew, OnReceived
    <3>5. m_seen' \subseteq Ids /\ offered' \subseteq Ids /\ drained' \in Nat
      BY <2>2, <3>1 DEF TypeOK, IngestNew
    <3> QED
      BY <3>3, <3>4, <3>5 DEF TypeOK
  <2>3. CASE RecentReceived
    BY <2>3 DEF TypeOK, RecentReceived
  <2>4. CASE UNCHANGED vars
    BY <2>4 DEF TypeOK, vars
  <2> QED
    BY <2>1, <2>2, <2>3, <2>4 DEF Next
<1> QED
  BY <1>1, <1>2, PTL DEF Spec

-----------------------------------------------------------------------------
\* Inserting a new frame keeps the set and the queue of the memory in step.
LEMMA NewKeepsMemoryAgrees ==
  ASSUME TypeOK, MemoryAgrees, NEW f \in Frame, IngestNew(f)
  PROVE  MemoryAgrees'
<1> DEFINE n == Len(m_seenOrder)
           m == Len(m_seenOrder')
           full == n >= SeenMax
<1>1. n \in Nat /\ n <= SeenMax /\ m = IF full THEN n ELSE n + 1
  <2>1. m = IF full THEN n ELSE n + 1
    BY MemoryAfterNew
  <2> QED
    BY <2>1 DEF TypeOK, MemoryAgrees
<1>2. m \in Nat /\ m >= 1 /\ m <= SeenMax
  BY <1>1
<1>3. m_seenOrder'[m] = FrameId(f)
  BY MemoryAfterNew
<1>4. \A i \in 1..(m - 1) :
        m_seenOrder'[i] = IF full THEN m_seenOrder[i + 1] ELSE m_seenOrder[i]
  BY MemoryAfterNew
<1>5. \A i \in 1..n : m_seenOrder[i] # FrameId(f)
  BY DEF IngestNew, MemoryAgrees
<1>6. \A i, j \in 1..n : i # j => m_seenOrder[i] # m_seenOrder[j]
  BY DEF MemoryAgrees
<1>7. \A i, j \in 1..m : i # j => m_seenOrder'[i] # m_seenOrder'[j]
  <2> SUFFICES ASSUME NEW i \in 1..m, NEW j \in 1..m, i < j
               PROVE  m_seenOrder'[i] # m_seenOrder'[j]
    BY <1>2
  <2>1. i \in 1..(m - 1)
    BY <1>2
  <2>2. CASE j = m
    BY <2>1, <2>2, <1>1, <1>3, <1>4, <1>5
  <2>3. CASE j # m
    <3>1. j \in 1..(m - 1)
      BY <2>3, <1>2
    <3>2. CASE full
      <4>1. i + 1 \in 1..n /\ j + 1 \in 1..n /\ i + 1 # j + 1
        BY <2>1, <3>1, <3>2, <1>1
      <4> QED
        BY <4>1, <2>1, <3>1, <3>2, <1>4, <1>6
    <3>3. CASE ~full
      <4>1. i \in 1..n /\ j \in 1..n /\ i # j
        BY <2>1, <3>1, <3>3, <1>1
      <4> QED
        BY <4>1, <2>1, <3>1, <3>3, <1>4, <1>6
    <3> QED
      BY <3>2, <3>3
  <2> QED
    BY <2>2, <2>3
<1>8. m_seen' = {m_seenOrder'[i] : i \in 1..m}
  <2>1. m_seen = {m_seenOrder[i] : i \in 1..n}
    BY DEF MemoryAgrees
  <2>2. CASE full
    <3>1. n >= 1 /\ m = n
      BY <2>2, <1>1
    <3>2. m_seen' = (m_seen \cup {FrameId(f)}) \ {m_seenOrder[1]}
      BY <2>2, <3>1 DEF IngestNew, Evicted, Full, TypeOK
    <3>3. ASSUME NEW x \in m_seen' PROVE \E i \in 1..m : m_seenOrder'[i] = x
      <4>1. CASE x = FrameId(f)
        BY <4>1, <1>2, <1>3
      <4>2. CASE x # FrameId(f)
        <5>1. PICK k \in 1..n : m_seenOrder[k] = x
          BY <4>2, <3>2, <2>1, <3>3
        <5>2. k # 1
          BY <5>1, <3>2, <3>3
        <5>3. k - 1 \in 1..(m - 1) /\ (k - 1) + 1 = k
          BY <5>2, <3>1
        <5>4. m_seenOrder'[k - 1] = x
          BY <5>1, <5>3, <1>4, <2>2
        <5> QED
          BY <5>3, <5>4, <1>2
      <4> QED
        BY <4>1, <4>2
    <3>4. ASSUME NEW i \in 1..m PROVE m_seenOrder'[i] \in m_seen'
      <4>1. CASE i = m
        <5>1. FrameId(f) # m_seenOrder[1]
          BY <1>5, <3>1
        <5> QED
          BY <4>1, <5>1, <1>3, <3>2
      <4>2. CASE i # m
        <5>1. i \in 1..(m - 1) /\ i + 1 \in 1..n /\ i + 1 # 1 /\ 1 \in 1..n
          BY <4>2, <3>1
        <5>2. m_seenOrder'[i] = m_seenOrder[i + 1]
          BY <5>1, <1>4, <2>2
        <5>3. m_seenOrder[i + 1] # m_seenOrder[1]
          BY <5>1, <1>6
        <5> QED
          BY <5>1, <5>2, <5>3, <2>1, <3>2
      <4> QED
        BY <4>1, <4>2
    <3> QED
      BY <3>3, <3>4
  <2>3. CASE ~full
    <3>1. m = n + 1 /\ m_seen' = m_seen \cup {FrameId(f)}
      BY <2>3, <1>1 DEF IngestNew, Evicted, Full
    <3>2. \A i \in 1..n : m_seenOrder'[i] = m_seenOrder[i]
      BY <3>1, <1>1, <1>4, <2>3
    <3> QED
      BY <3>1, <3>2, <2>1, <1>1, <1>3
  <2> QED
    BY <2>2, <2>3
<1> QED
  BY <1>2, <1>7, <1>8 DEF MemoryAgrees

\* Appending a frame to the history: its length, its new entry, its old ones.
LEMMA HistoryAfterNew ==
  ASSUME TypeOK, NEW f \in Frame, IngestNew(f)
  PROVE  /\ Len(delivered) \in Nat
         /\ Len(delivered') = Len(delivered) + 1
         /\ delivered'[Len(delivered) + 1] = f
         /\ \A i \in 1..Len(delivered) : delivered'[i] = delivered[i]
BY DEF TypeOK, IngestNew, OnReceived

\* The memory stays the newest kSeenMax frames of the history.
LEMMA NewKeepsMemoryIsRecent ==
  ASSUME TypeOK, MemoryAgrees, MemoryIsRecent, NEW f \in Frame, IngestNew(f)
  PROVE  MemoryIsRecent'
<1> DEFINE n == Len(m_seenOrder)
           m == Len(m_seenOrder')
           d == Len(delivered)
           full == n >= SeenMax
<1>1. n \in Nat /\ d \in Nat /\ n = IF d < SeenMax THEN d ELSE SeenMax
  BY DEF TypeOK, MemoryIsRecent
<1>2. Len(delivered') = d + 1 /\ delivered'[d + 1] = f
      /\ \A i \in 1..d : delivered'[i] = delivered[i]
  BY HistoryAfterNew
<1>3. m = IF full THEN n ELSE n + 1
  BY MemoryAfterNew
<1>4. m = IF d + 1 < SeenMax THEN d + 1 ELSE SeenMax
  BY <1>1, <1>3
<1>5. ASSUME NEW i \in 1..m
      PROVE  m_seenOrder'[i] = FrameId(delivered'[(d + 1) - m + i])
  <2>1. CASE i = m
    <3>1. (d + 1) - m + i = d + 1
      BY <2>1, <1>1, <1>4
    <3>2. m_seenOrder'[m] = FrameId(f)
      BY MemoryAfterNew
    <3> QED
      BY <2>1, <3>1, <3>2, <1>2
  <2>2. CASE i # m
    <3>1. i \in 1..(m - 1)
      BY <2>2, <1>1, <1>4
    <3>2. m_seenOrder'[i] = IF full THEN m_seenOrder[i + 1] ELSE m_seenOrder[i]
      BY <3>1, MemoryAfterNew
    <3>3. \A k \in 1..n : m_seenOrder[k] = FrameId(delivered[d - n + k])
      BY DEF MemoryIsRecent
    <3>4. CASE full
      <4>1. m = n /\ i \in 1..(n - 1) /\ n <= d
        BY <3>1, <3>4, <1>1, <1>3
      <4>2. i + 1 \in 1..n /\ (d + 1) - m + i = d - n + (i + 1)
            /\ (d + 1) - m + i \in 1..d
        BY <4>1, <1>1
      <4> QED
        BY <4>2, <3>2, <3>3, <3>4, <1>2
    <3>5. CASE ~full
      <4>1. m = n + 1 /\ i \in 1..n /\ n <= d
        BY <3>1, <3>5, <1>1, <1>3
      <4>2. (d + 1) - m + i = d - n + i /\ (d + 1) - m + i \in 1..d
        BY <4>1, <1>1
      <4> QED
        BY <4>1, <4>2, <3>2, <3>3, <3>5, <1>2
    <3> QED
      BY <3>4, <3>5
  <2> QED
    BY <2>1, <2>2
<1> QED
  BY <1>2, <1>4, <1>5 DEF MemoryIsRecent

\* The identities of the memory are those of the newest frames announced.
LEMMA MemoryMeaning ==
  ASSUME TypeOK, MemoryAgrees, MemoryIsRecent, NEW id
  PROVE  id \in m_seen <=>
           \E i \in 1..Len(delivered) :
             i + SeenMax > Len(delivered) /\ FrameId(delivered[i]) = id
<1> DEFINE n == Len(m_seenOrder)
           d == Len(delivered)
<1>1. n \in Nat /\ d \in Nat /\ n = IF d < SeenMax THEN d ELSE SeenMax
  BY DEF TypeOK, MemoryIsRecent
<1> HIDE DEF n, d
<1>0. n <= d /\ n <= SeenMax /\ (n = d \/ n = SeenMax)
  BY <1>1
<1>2. id \in m_seen <=> \E k \in 1..n : m_seenOrder[k] = id
  BY DEF MemoryAgrees, n
<1>3. \A k \in 1..n : m_seenOrder[k] = FrameId(delivered[d - n + k])
  BY DEF MemoryIsRecent, n, d
<1>4. ASSUME NEW k \in 1..n, m_seenOrder[k] = id
      PROVE  \E i \in 1..d : i + SeenMax > d /\ FrameId(delivered[i]) = id
  <2>1. d - n + k \in 1..d /\ (d - n + k) + SeenMax > d
    BY <1>0, <1>1
  <2> QED
    BY <2>1, <1>3, <1>4
<1>5. ASSUME NEW i \in 1..d, i + SeenMax > d, FrameId(delivered[i]) = id
      PROVE  \E k \in 1..n : m_seenOrder[k] = id
  <2>1. i - (d - n) \in 1..n /\ d - n + (i - (d - n)) = i
    BY <1>0, <1>1, <1>5
  <2> QED
    BY <2>1, <1>3, <1>5
<1> QED
  BY <1>2, <1>4, <1>5 DEF d

\* A new frame differs from each of the last kSeenMax announced.
LEMMA NewKeepsNoRedelivery ==
  ASSUME TypeOK, MemoryAgrees, MemoryIsRecent, NoRedelivery,
         NEW f \in Frame, IngestNew(f)
  PROVE  NoRedelivery'
<1> DEFINE d == Len(delivered)
<1>1. d \in Nat /\ Len(delivered') = d + 1 /\ delivered'[d + 1] = f
      /\ \A i \in 1..d : delivered'[i] = delivered[i]
  BY HistoryAfterNew
<1>2. \A i \in 1..d : i + SeenMax > d => FrameId(delivered[i]) # FrameId(f)
  BY MemoryMeaning DEF IngestNew
<1>3. ASSUME NEW i \in 1..(d + 1), NEW j \in 1..(d + 1), i < j, j <= i + SeenMax
      PROVE  FrameId(delivered'[i]) # FrameId(delivered'[j])
  <2>1. i \in 1..d
    BY <1>1, <1>3
  <2>2. CASE j = d + 1
    <3>1. i + SeenMax > d
      BY <2>2, <1>1, <1>3
    <3> QED
      BY <2>1, <2>2, <3>1, <1>1, <1>2
  <2>3. CASE j # d + 1
    <3>1. j \in 1..d
      BY <2>3, <1>1, <1>3
    <3> QED
      BY <2>1, <3>1, <1>1, <1>3 DEF NoRedelivery
  <2> QED
    BY <2>2, <2>3
<1> QED
  BY <1>1, <1>3 DEF NoRedelivery

\* Appending to the ring keeps it equal to the newest undrained frames.
LEMMA NewKeepsRing ==
  ASSUME TypeOK, RingIsNewest, NEW f \in Frame, IngestNew(f)
  PROVE  RingIsNewest'
<1> DEFINE r == Len(m_rxLog)
           q == Len(m_rxLog')
           d == Len(delivered)
           full == ~(r < RxMax)
<1>1. d \in Nat /\ Len(delivered') = d + 1 /\ delivered'[d + 1] = f
      /\ \A i \in 1..d : delivered'[i] = delivered[i]
  BY HistoryAfterNew
<1>2. r \in Nat /\ drained \in Nat /\ drained <= d
      /\ r = IF d - drained < RxMax THEN d - drained ELSE RxMax
  BY DEF TypeOK, RingIsNewest
<1>3. \A i \in 1..r : m_rxLog[i] = delivered[d - r + i]
  BY DEF RingIsNewest
<1>0. r <= d
  BY <1>1, <1>2
<1>4. CASE full
  <2>1. m_rxLog' = Append(Tail(m_rxLog), f) /\ r >= 1 /\ m_rxLog \in Seq(Frame)
    BY <1>2, <1>4 DEF IngestNew, OnReceived, TypeOK
  <2>2. q = r /\ m_rxLog'[q] = f /\ \A i \in 1..(r - 1) : m_rxLog'[i] = m_rxLog[i + 1]
    BY <2>1
  <2>3. ASSUME NEW i \in 1..q PROVE m_rxLog'[i] = delivered'[(d + 1) - q + i]
    <3>1. CASE i = q
      <4>0. q \in Nat /\ d \in Nat
        BY <2>2, <1>1, <1>2
      <4> HIDE DEF q, d
      <4>1. (d + 1) - q + q = d + 1
        BY <4>0
      <4> QED
        BY <3>1, <4>1, <2>2, <1>1
    <3>2. CASE i # q
      <4>1. i \in 1..(r - 1) /\ i + 1 \in 1..r
        BY <3>2, <2>2, <1>2
      <4>2. (d + 1) - q + i = d - r + (i + 1) /\ d - r + (i + 1) \in 1..d
        BY <4>1, <2>2, <1>1, <1>2, <1>0
      <4>3. m_rxLog'[i] = m_rxLog[i + 1]
        BY <4>1, <2>2
      <4>4. m_rxLog[i + 1] = delivered[d - r + (i + 1)]
        BY <4>1, <1>3
      <4>5. delivered'[d - r + (i + 1)] = delivered[d - r + (i + 1)]
        BY <4>2, <1>1
      <4> HIDE DEF q, r, d
      <4> QED
        BY <4>2, <4>3, <4>4, <4>5
    <3> QED
      BY <3>1, <3>2
  <2>4. drained' = drained
    BY DEF IngestNew
  <2>5. q = IF (d + 1) - drained < RxMax THEN (d + 1) - drained ELSE RxMax
    BY <2>2, <1>2, <1>4
  <2>6. drained' <= Len(delivered')
    BY <2>4, <1>1, <1>2
  <2>7. Len(m_rxLog') = IF Len(delivered') - drained' < RxMax
                        THEN Len(delivered') - drained' ELSE RxMax
    BY <2>4, <2>5, <1>1
  <2>8. \A i \in 1..Len(m_rxLog') :
          m_rxLog'[i] = delivered'[Len(delivered') - Len(m_rxLog') + i]
    <3> HIDE DEF d
    <3> QED
      BY <2>3, <1>1
  <2> QED
    BY <2>6, <2>7, <2>8 DEF RingIsNewest
<1>5. CASE ~full
  <2>1. m_rxLog' = Append(m_rxLog, f) /\ m_rxLog \in Seq(Frame)
    BY <1>2, <1>5 DEF IngestNew, OnReceived, TypeOK
  <2>2. q = r + 1 /\ m_rxLog'[q] = f /\ \A i \in 1..r : m_rxLog'[i] = m_rxLog[i]
    BY <2>1
  <2>3. ASSUME NEW i \in 1..q PROVE m_rxLog'[i] = delivered'[(d + 1) - q + i]
    <3>1. CASE i = q
      <4>0. q \in Nat /\ d \in Nat
        BY <2>2, <1>1, <1>2
      <4> HIDE DEF q, d
      <4>1. (d + 1) - q + q = d + 1
        BY <4>0
      <4> QED
        BY <3>1, <4>1, <2>2, <1>1
    <3>2. CASE i # q
      <4>1. i \in 1..r
        BY <3>2, <2>2, <1>2
      <4>2. (d + 1) - q + i = d - r + i /\ d - r + i \in 1..d
        BY <4>1, <2>2, <1>1, <1>2, <1>0
      <4> QED
        BY <4>1, <4>2, <2>2, <1>1, <1>3
    <3> QED
      BY <3>1, <3>2
  <2>4. drained' = drained
    BY DEF IngestNew
  <2>5. q = IF (d + 1) - drained < RxMax THEN (d + 1) - drained ELSE RxMax
    BY <2>2, <1>2, <1>5
  <2>6. drained' <= Len(delivered')
    BY <2>4, <1>1, <1>2
  <2>7. Len(m_rxLog') = IF Len(delivered') - drained' < RxMax
                        THEN Len(delivered') - drained' ELSE RxMax
    BY <2>4, <2>5, <1>1
  <2>8. \A i \in 1..Len(m_rxLog') :
          m_rxLog'[i] = delivered'[Len(delivered') - Len(m_rxLog') + i]
    <3> HIDE DEF d
    <3> QED
      BY <2>3, <1>1
  <2> QED
    BY <2>6, <2>7, <2>8 DEF RingIsNewest
<1> QED
  BY <1>4, <1>5

\* What was offered stays announced, and a new frame is announced.
LEMMA NewKeepsNothingLost ==
  ASSUME TypeOK, NothingLost, NEW f \in Frame, IngestNew(f)
  PROVE  NothingLost'
<1> DEFINE d == Len(delivered)
<1>1. d \in Nat /\ Len(delivered') = d + 1 /\ delivered'[d + 1] = f
      /\ \A i \in 1..d : delivered'[i] = delivered[i]
  BY HistoryAfterNew
<1>2. offered' = offered \cup {FrameId(f)}
  BY DEF IngestNew
<1>3. ASSUME NEW id \in offered'
      PROVE  \E i \in 1..(d + 1) : FrameId(delivered'[i]) = id
  <2>1. CASE id = FrameId(f)
    BY <2>1, <1>1
  <2>2. CASE id # FrameId(f)
    <3>1. PICK i \in 1..d : FrameId(delivered[i]) = id
      BY <2>2, <1>2, <1>3 DEF NothingLost
    <3> QED
      BY <3>1, <1>1
  <2> QED
    BY <2>1, <2>2
<1> QED
  BY <1>1, <1>3 DEF NothingLost

\* A dropped duplicate was announced before: it is in the memory, and the memory
\* holds announced frames only.
LEMMA DuplicateWasAnnounced ==
  ASSUME TypeOK, MemoryAgrees, MemoryIsRecent, NEW f \in Frame, IngestDuplicate(f)
  PROVE  \E i \in 1..Len(delivered) : FrameId(delivered[i]) = FrameId(f)
BY MemoryMeaning DEF IngestDuplicate

\* What only speaks of the memory and the history survives a step that leaves
\* both alone.
LEMMA MemoryFrame ==
  ASSUME IInv, m_seen' = m_seen, m_seenOrder' = m_seenOrder, delivered' = delivered
  PROVE  MemoryAgrees' /\ MemoryIsRecent' /\ NoRedelivery'
<1>1. MemoryAgrees'
  BY DEF IInv, MemoryAgrees
<1>2. MemoryIsRecent'
  BY DEF IInv, MemoryIsRecent
<1>3. NoRedelivery'
  BY DEF IInv, NoRedelivery
<1> QED
  BY <1>1, <1>2, <1>3

\* The inductive invariant holds of every behaviour.
THEOREM InvariantHolds == Spec => []IInv
<1>1. Init => IInv
  BY DEF Init, IInv, TypeOK, MemoryAgrees, MemoryIsRecent, NoRedelivery,
         NothingLost, RingIsNewest
<1>2. IInv /\ TypeOK' /\ [Next]_vars => IInv'
  <2> SUFFICES ASSUME IInv, TypeOK', [Next]_vars PROVE IInv'
    OBVIOUS
  <2> USE DEF IInv
  <2>1. ASSUME NEW f \in Frame, IngestDuplicate(f) PROVE IInv'
    <3>1. MemoryAgrees' /\ MemoryIsRecent' /\ NoRedelivery'
      BY <2>1, MemoryFrame DEF IngestDuplicate
    <3>2. RingIsNewest'
      BY <2>1 DEF IngestDuplicate, RingIsNewest
    <3>3. NothingLost'
      BY <2>1, DuplicateWasAnnounced DEF IngestDuplicate, NothingLost
    <3> QED
      BY <3>1, <3>2, <3>3
  <2>2. ASSUME NEW f \in Frame, IngestNew(f) PROVE IInv'
    <3>1. MemoryAgrees'
      BY <2>2, NewKeepsMemoryAgrees
    <3>2. MemoryIsRecent'
      BY <2>2, NewKeepsMemoryIsRecent
    <3>3. NoRedelivery'
      BY <2>2, NewKeepsNoRedelivery
    <3>4. NothingLost'
      BY <2>2, NewKeepsNothingLost
    <3>5. RingIsNewest'
      BY <2>2, NewKeepsRing
    <3> QED
      BY <3>1, <3>2, <3>3, <3>4, <3>5
  <2>3. CASE RecentReceived
    <3>1. MemoryAgrees' /\ MemoryIsRecent' /\ NoRedelivery'
      BY <2>3, MemoryFrame DEF RecentReceived
    <3>2. RingIsNewest'
      BY <2>3 DEF RecentReceived, RingIsNewest, TypeOK
    <3>3. NothingLost'
      BY <2>3 DEF RecentReceived, NothingLost
    <3> QED
      BY <3>1, <3>2, <3>3
  <2>4. CASE UNCHANGED vars
    <3>1. MemoryAgrees' /\ MemoryIsRecent' /\ NoRedelivery'
      BY <2>4, MemoryFrame DEF vars
    <3>2. RingIsNewest'
      BY <2>4 DEF vars, RingIsNewest
    <3>3. NothingLost'
      BY <2>4 DEF vars, NothingLost
    <3> QED
      BY <3>1, <3>2, <3>3
  <2> QED
    BY <2>1, <2>2, <2>3, <2>4 DEF Next
<1> QED
  BY <1>1, <1>2, TypeCorrect, PTL DEF Spec

\* An app never sees a frame twice within kSeenMax announcements.
THEOREM NeverRedelivered == Spec => []NoRedelivery
BY InvariantHolds, PTL DEF IInv

\* No frame a bearer hands up is dropped without having been announced.
THEOREM NeverLost == Spec => []NothingLost
BY InvariantHolds, PTL DEF IInv

\* recentReceived() returns the newest frames since the last call, in order.
THEOREM RingCorrect == Spec => []RingIsNewest
BY InvariantHolds, PTL DEF IInv

-----------------------------------------------------------------------------
\* Reading a history through the identities keeps its length and order.
LEMMA IdsOfHistory ==
  ASSUME NEW h \in Seq(Frame)
  PROVE  /\ IdsOf(h) \in Seq(Ids)
         /\ Len(IdsOf(h)) = Len(h)
         /\ \A i \in 1..Len(h) : IdsOf(h)[i] = FrameId(h[i])
<1>1. \A f \in Frame : FrameId(f) \in Ids
  BY DEF Frame, FrameId, Ids
<1>2. Len(h) \in Nat /\ \A i \in 1..Len(h) : FrameId(h[i]) \in Ids
  BY <1>1
<1>3. IdsOf(h) \in [1..Len(h) -> Ids]
  BY <1>2 DEF IdsOf
<1>4. IdsOf(h) \in Seq(Ids) /\ Len(IdsOf(h)) = Len(h)
  BY <1>2, <1>3
<1> QED
  BY <1>4 DEF IdsOf

\* The abstract window is the memory.
LEMMA WindowIsMemory ==
  ASSUME TypeOK, MemoryAgrees, MemoryIsRecent
  PROVE  Stream!Recent = m_seen
<1> DEFINE log == IdsOf(delivered)
<1>1. Len(delivered) \in Nat
  BY DEF TypeOK
<1>2. Len(log) = Len(delivered)
      /\ \A i \in 1..Len(delivered) : log[i] = FrameId(delivered[i])
  BY IdsOfHistory DEF TypeOK
<1>3. Stream!Recent
        = {log[i] : i \in {j \in 1..Len(log) : j + SeenMax > Len(log)}}
  BY DEF Stream!Recent
<1> HIDE DEF log
<1>4. ASSUME NEW id
      PROVE  id \in Stream!Recent <=>
               \E i \in 1..Len(delivered) :
                 i + SeenMax > Len(delivered) /\ FrameId(delivered[i]) = id
  BY <1>2, <1>3
<1> QED
  BY <1>4, MemoryMeaning

\* The receive path implements the stream promised to apps.
THEOREM Implements == Spec => ImplementsStream
<1>1. Init => Stream!Init
  <2> SUFFICES ASSUME Init PROVE Stream!Init
    OBVIOUS
  <2>1. delivered = << >> /\ offered = {}
    BY DEF Init
  <2>2. IdsOf(delivered) = << >>
    BY <2>1 DEF IdsOf
  <2> QED
    BY <2>1, <2>2 DEF Stream!Init
<1>2. IInv /\ TypeOK' /\ [Next]_vars => [Stream!Next]_<<IdsOf(delivered), offered>>
  <2> SUFFICES ASSUME IInv, TypeOK', [Next]_vars
               PROVE  [Stream!Next]_<<IdsOf(delivered), offered>>
    OBVIOUS
  <2>0. Len(delivered) \in Nat /\ Stream!Recent = m_seen
    BY WindowIsMemory DEF IInv, TypeOK
  <2>1. ASSUME NEW f \in Frame, IngestDuplicate(f)
        PROVE  Stream!Next
    <3>1. FrameId(f) \in Stream!Recent /\ FrameId(f) \in Ids
      BY <2>0, <2>1 DEF IngestDuplicate, Frame, FrameId, Ids
    <3>2. delivered' = delivered /\ offered' = offered \cup {FrameId(f)}
      BY <2>1 DEF IngestDuplicate
    <3>3. Stream!Offer(FrameId(f))
      BY <3>1, <3>2 DEF Stream!Offer
    <3> QED
      BY <3>1, <3>3 DEF Stream!Next
  <2>2. ASSUME NEW f \in Frame, IngestNew(f)
        PROVE  Stream!Next
    <3>1. FrameId(f) \notin Stream!Recent /\ FrameId(f) \in Ids
      BY <2>0, <2>2 DEF IngestNew, Frame, FrameId, Ids
    <3>2. offered' = offered \cup {FrameId(f)}
      BY <2>2 DEF IngestNew
    <3>3. IdsOf(delivered') = Append(IdsOf(delivered), FrameId(f))
      <4>1. Len(delivered') = Len(delivered) + 1
            /\ delivered'[Len(delivered) + 1] = f
            /\ \A i \in 1..Len(delivered) : delivered'[i] = delivered[i]
        BY <2>2, HistoryAfterNew DEF IInv
      <4>2. IdsOf(delivered) \in Seq(Ids) /\ Len(IdsOf(delivered)) = Len(delivered)
            /\ \A i \in 1..Len(delivered) : IdsOf(delivered)[i] = FrameId(delivered[i])
        BY IdsOfHistory DEF IInv, TypeOK
      <4>3. IdsOf(delivered') \in Seq(Ids) /\ Len(IdsOf(delivered')) = Len(delivered')
            /\ \A i \in 1..Len(delivered') : IdsOf(delivered')[i] = FrameId(delivered'[i])
        BY IdsOfHistory DEF TypeOK
      <4>4. Append(IdsOf(delivered), FrameId(f)) \in Seq(Ids)
            /\ Len(Append(IdsOf(delivered), FrameId(f))) = Len(delivered) + 1
            /\ \A i \in 1..(Len(delivered) + 1) :
                 Append(IdsOf(delivered), FrameId(f))[i]
                   = IF i = Len(delivered) + 1 THEN FrameId(f) ELSE IdsOf(delivered)[i]
        BY <4>2, <3>1, <2>0
      <4>5. \A i \in 1..Len(IdsOf(delivered')) : IdsOf(delivered')[i] = Append(IdsOf(delivered), FrameId(f))[i]
        <5> SUFFICES ASSUME NEW i \in 1..(Len(delivered) + 1)
                     PROVE  IdsOf(delivered')[i] = Append(IdsOf(delivered), FrameId(f))[i]
          BY <4>1, <4>3
        <5>1. IdsOf(delivered')[i] = FrameId(delivered'[i])
          BY <4>1, <4>3
        <5>2. CASE i = Len(delivered) + 1
          BY <5>1, <5>2, <4>1, <4>4
        <5>3. CASE i # Len(delivered) + 1
          BY <5>1, <5>3, <4>1, <4>2, <4>4, <2>0
        <5> QED
          BY <5>2, <5>3
      <4> QED
        BY <4>1, <4>3, <4>4, <4>5, SeqEqual
    <3>4. Stream!Offer(FrameId(f))
      BY <3>1, <3>2, <3>3 DEF Stream!Offer
    <3> QED
      BY <3>1, <3>4 DEF Stream!Next
  <2>3. CASE RecentReceived
    BY <2>3 DEF RecentReceived
  <2>4. CASE UNCHANGED vars
    BY <2>4 DEF vars
  <2> QED
    BY <2>1, <2>2, <2>3, <2>4 DEF Next
<1> QED
  BY <1>1, <1>2, InvariantHolds, TypeCorrect, PTL DEF Spec, ImplementsStream, Stream!Spec

-----------------------------------------------------------------------------
\* Every copy that may arrive is a sealed frame, whoever sent it.
LEMMA SendingKeepsSentOK ==
  ASSUME SentOK, NEW t \in Topics, NEW s \in Sealed, SendSealed(t, s) \/ OthersSend(t, s)
  PROVE  SentOK'
<1>1. CASE SendSealed(t, s)
  <2> DEFINE body == Encode([sealed |-> s, depth |-> 0])
  <2>1. body = [sealed |-> s, depth |-> 1]
    BY DEF Encode
  <2>2. PICK shape \in Shapes :
          sent' = sent \cup {Copy("delivery", shape, t, body), Copy("mesh", "plain", t, body)}
    BY <1>1 DEF SendSealed, Sends
  <2> HIDE DEF body
  <2>3. body \in [sealed : Sealed, depth : 0..MaxDepth] /\ body.depth > 0
    BY <2>1, SendAssumption
  <2> QED
    BY <2>2, <2>3, BearersAssumption DEF SentOK, Copy, Shapes, Wrapped
<1>2. CASE OthersSend(t, s)
  <2>1. PICK d \in 0..MaxDepth, shape \in Wrapped \cup {"plain"} :
          /\ shape = "plain" => d > 0
          /\ sent' = sent \cup {Copy("delivery", shape, t, [sealed |-> s, depth |-> d])}
    BY <1>2 DEF OthersSend, Sends
  <2> QED
    BY <2>1, BearersAssumption DEF SentOK, Copy, Shapes, Wrapped
<1> QED
  BY <1>1, <1>2

\* What a bearer hands up of a copy is a frame, and of the sealed frame sent.
LEMMA HandedUpIsSent ==
  ASSUME SentOK, NEW c \in sent, NEW f \in HandedUp(c)
  PROVE  /\ f \in Frame
         /\ f.topic = c.topic
         /\ f.body # Garbled
         /\ f.body.sealed = c.body.sealed
<1>1. f = [topic |-> c.topic, body |-> Peeled(c), bearer |-> c.bearer] /\ c.shape # "part"
  BY DEF HandedUp
<1>2. PICK s \in Sealed, d \in 0..MaxDepth : c.body = [sealed |-> s, depth |-> d]
  BY DEF SentOK
<1>3. s # "garbled" /\ MaxDepth \in Nat
  BY SendAssumption
<1>4. Peeled(c) \in [sealed : Sealed, depth : 0..MaxDepth] /\ Peeled(c).sealed = s
  <2>1. CASE c.shape \in Wrapped
    BY <1>2, <2>1 DEF Peeled
  <2>2. CASE c.shape \notin Wrapped /\ d > 0
    <3>1. Peeled(c) = [sealed |-> s, depth |-> d - 1]
      BY <1>2, <2>2 DEF Peeled, Decode
    <3> QED
      BY <1>3, <2>2, <3>1
  <2>3. c.shape \in Wrapped \/ d > 0
    BY <1>1, <1>2 DEF SentOK, Shapes
  <2> QED
    BY <2>1, <2>2, <2>3
<1>5. Peeled(c) # Garbled
  BY <1>3, <1>4 DEF Garbled
<1>6. f \in Frame
  BY <1>1, <1>4, BodiesAssumption DEF SentOK, Frame
<1> QED
  BY <1>1, <1>2, <1>4, <1>5, <1>6

-----------------------------------------------------------------------------
\* Every step of the receive path, with the copies, is a step of MultiBearer or
\* none.
LEMMA PathStep ==
  ASSUME SentOK, [PathNext]_pathVars
  PROVE  SentOK' /\ [Next]_vars
<1>1. ASSUME NEW t \in Topics, NEW s \in Sealed, SendSealed(t, s) \/ OthersSend(t, s)
      PROVE  SentOK' /\ [Next]_vars
  <2>1. SentOK'
    BY <1>1, SendingKeepsSentOK
  <2>2. UNCHANGED vars
    BY <1>1 DEF SendSealed, OthersSend, Sends
  <2> QED
    BY <2>1, <2>2
<1>2. CASE Receive
  <2>1. PICK c \in sent : \E f \in HandedUp(c) : IngestDuplicate(f) \/ IngestNew(f)
    BY <1>2 DEF Receive
  <2>2. PICK f \in HandedUp(c) : IngestDuplicate(f) \/ IngestNew(f)
    BY <2>1
  <2>3. f \in Frame
    BY <2>2, HandedUpIsSent
  <2> QED
    BY <1>2, <2>2, <2>3 DEF Receive, SentOK, Next
<1>3. CASE RecentReceived /\ UNCHANGED <<sent, sends>>
  BY <1>3 DEF SentOK, Next
<1>4. CASE UNCHANGED pathVars
  BY <1>4 DEF pathVars, SentOK
<1> QED
  BY <1>1, <1>2, <1>3, <1>4 DEF PathNext

\* The copies that may arrive are sealed frames.
THEOREM SentCorrect == PathSpec => []SentOK
<1>1. PathInit => SentOK
  BY DEF PathInit, SentOK
<1> QED
  BY <1>1, PathStep, PTL DEF PathSpec

\* With the copies peeled in front of it, MultiBearer does what it does on frames
\* of any origin: the receive path implements the model its theorems are about.
THEOREM PathIsMultiBearer == PathSpec => Spec
<1>1. PathInit => Init
  BY DEF PathInit
<1> QED
  BY <1>1, SentCorrect, PathStep, PTL DEF PathSpec, Spec

\* The invariant of the seen memory and the ring holds however the copies come.
THEOREM PathInvariant == PathSpec => []IInv
BY PathIsMultiBearer, InvariantHolds, PTL

\* From the copies on the network to the apps, the receive path is the stream of
\* DedupStream.
THEOREM PathImplements == PathSpec => ImplementsStream
BY PathIsMultiBearer, Implements, PTL

-----------------------------------------------------------------------------
\* Whatever is announced is what somebody sealed and sent on that topic.
THEOREM AppsGetWhatWasSealed == PathSpec => []PeelsToSealed
<1>1. PathInit => PeelsToSealed
  BY DEF PathInit, Init, PeelsToSealed
<1>2. ASSUME TypeOK, SentOK, PeelsToSealed, [PathNext]_pathVars PROVE PeelsToSealed'
  <2>1. delivered \in Seq(Frame)
    BY <1>2 DEF TypeOK
  <2>2. ASSUME sent \subseteq sent', delivered' = delivered PROVE PeelsToSealed'
    BY <1>2, <2>2 DEF PeelsToSealed
  <2>3. ASSUME NEW t \in Topics, NEW s \in Sealed, SendSealed(t, s) \/ OthersSend(t, s)
        PROVE  PeelsToSealed'
    <3>1. sent \subseteq sent' /\ delivered' = delivered
      BY <2>3 DEF SendSealed, OthersSend, Sends, vars
    <3> QED
      BY <2>2, <3>1
  <2>4. CASE Receive
    <3>1. PICK c \in sent : \E f \in HandedUp(c) : IngestDuplicate(f) \/ IngestNew(f)
      BY <2>4 DEF Receive
    <3>0. PICK f \in HandedUp(c) : IngestDuplicate(f) \/ IngestNew(f)
      BY <3>1
    <3>2. sent' = sent
      BY <2>4 DEF Receive
    <3>3. CASE IngestDuplicate(f)
      BY <2>2, <3>2, <3>3 DEF IngestDuplicate
    <3>4. CASE IngestNew(f)
      <4>1. /\ f \in Frame /\ f.topic = c.topic
            /\ f.body # Garbled /\ f.body.sealed = c.body.sealed
        BY <1>2, <3>0, HandedUpIsSent
      <4>2. delivered' = Append(delivered, f)
        BY <3>4 DEF IngestNew, OnReceived
      <4>3. Len(delivered') = Len(delivered) + 1 /\ delivered'[Len(delivered')] = f
        BY <2>1, <4>1, <4>2
      <4>4. \A i \in 1..Len(delivered) : delivered'[i] = delivered[i]
        BY <2>1, <4>1, <4>2
      <4>5. Len(delivered) \in Nat
        BY <2>1
      <4>6. ASSUME NEW i \in 1..Len(delivered')
            PROVE  /\ delivered'[i].body # Garbled
                   /\ \E e \in sent : /\ e.topic = delivered'[i].topic
                                      /\ e.body.sealed = delivered'[i].body.sealed
        <5>1. CASE i = Len(delivered')
          BY <4>1, <4>3, <5>1
        <5>2. CASE i # Len(delivered')
          <6>1. i \in 1..Len(delivered)
            BY <4>3, <4>5, <5>2
          <6> QED
            BY <1>2, <4>4, <6>1 DEF PeelsToSealed
        <5> QED
          BY <5>1, <5>2
      <4> QED
        BY <3>2, <4>6 DEF PeelsToSealed
    <3> QED
      BY <3>0, <3>3, <3>4
  <2>5. CASE RecentReceived /\ UNCHANGED <<sent, sends>>
    BY <2>2, <2>5 DEF RecentReceived
  <2>6. CASE UNCHANGED pathVars
    BY <2>2, <2>6 DEF pathVars, vars
  <2> QED
    BY <1>2, <2>3, <2>4, <2>5, <2>6 DEF PathNext
<1>3. IInv => TypeOK
  BY DEF IInv
<1> QED
  BY <1>1, <1>2, <1>3, PathInvariant, SentCorrect, PTL DEF PathSpec
==============================================================================
