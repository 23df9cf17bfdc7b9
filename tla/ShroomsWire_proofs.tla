-------------------------- MODULE ShroomsWire_proofs --------------------------
(***************************************************************************)
(* Proofs about the frames between shrooms_mesh modules, for any peers and *)
(* connections, any frames and any limits.                                 *)
(***************************************************************************)
EXTENDS ShroomsWire, WellFoundedInduction, SequenceTheorems, TLAPS

USE LimitAssumption, PeerAssumption, FrameAssumption

-----------------------------------------------------------------------------
\* A set of numbers that is not empty has a least.
LEMMA Least ==
  ASSUME NEW T, T \subseteq Nat, T # {}
  PROVE  \E x \in T : \A y \in T : x <= y
<1> DEFINE R == OpToRel(<, Nat)
<1>1. \A x, y \in Nat : x < y => <<x, y>> \in R
  BY DEF OpToRel
<1>2. \E x \in T : \A y \in T : <<y, x>> \notin R
  <2> HIDE DEF R
  <2>1. IsWellFoundedOn(R, Nat)
    BY NatLessThanWellFounded DEF R
  <2> QED
    BY <2>1, WFMin
<1> HIDE DEF R
<1>3. PICK x \in T : \A y \in T : <<y, x>> \notin R
  BY <1>2
<1>4. ASSUME NEW y \in T PROVE x <= y
  <2>1. x \in Nat /\ y \in Nat /\ ~(y < x)
    BY <1>1, <1>3
  <2> QED
    BY <2>1
<1> QED
  BY <1>4

\* What holds first, and next wherever it holds, holds of every number up to n.
LEMMA StepByStep ==
  ASSUME NEW n \in Nat, NEW T, 0 \in T, \A k \in 0..n : k \in T /\ k < n => k + 1 \in T
  PROVE  0..n \subseteq T
<1> SUFFICES ASSUME (0..n) \ T # {} PROVE FALSE
  OBVIOUS
<1>1. PICK k \in (0..n) \ T : \A j \in (0..n) \ T : k <= j
  <2>1. (0..n) \ T \subseteq Nat
    OBVIOUS
  <2> QED
    BY <2>1, Least
<1>2. k - 1 \in 0..n /\ k - 1 < n /\ (k - 1) + 1 = k
  BY <1>1
<1>3. k - 1 \in T
  BY <1>1, <1>2
<1> QED
  BY <1>1, <1>2, <1>3

-----------------------------------------------------------------------------
\* The frames of a read are received one after the other: what received() keeps of
\* its memory, a read keeps.
LEMMA ReceivedAllKeeps ==
  ASSUME NEW Good, NEW s \in Good, NEW n \in Nat, NEW ids, n = Len(ids),
         \A t \in Good, k \in 1..n : Received(t, ids[k]) \in Good
  PROVE  ReceivedAll(s, ids) \in Good
<1> DEFINE After(f, k) == IF k = 0 THEN s ELSE Received(f[k - 1], ids[k])
           Run(f, m) == f = [k \in 0..m |-> After(f, k)]
           T == {m \in 0..n : \E f : Run(f, m)}
<1>1. 0 \in T
  <2> DEFINE f == [k \in 0..0 |-> s]
  <2>1. Run(f, 0)
    OBVIOUS
  <2> HIDE DEF f, Run
  <2> QED
    BY <2>1
<1>2. ASSUME NEW m \in 0..n, m \in T, m < n PROVE m + 1 \in T
  <2>1. PICK f : Run(f, m)
    BY <1>2
  <2>2. DOMAIN f = 0..m /\ \A k \in 0..m : f[k] = After(f, k)
    BY <2>1
  <2> DEFINE g == [k \in 0..(m + 1) |-> IF k \in 0..m THEN f[k] ELSE Received(f[m], ids[m + 1])]
  <2>3. ASSUME NEW k \in 0..(m + 1) PROVE g[k] = After(g, k)
    <3>1. CASE k \in 0..m
      <4>1. k # 0 => k - 1 \in 0..m /\ k - 1 \in 0..(m + 1)
        BY <3>1
      <4>2. g[k] = f[k] /\ (k # 0 => g[k - 1] = f[k - 1])
        BY <3>1, <4>1
      <4> HIDE DEF g
      <4> QED
        BY <2>2, <3>1, <4>2
    <3>2. CASE k \notin 0..m
      <4>1. k = m + 1 /\ k # 0 /\ k - 1 = m /\ m \in 0..m /\ m \in 0..(m + 1)
        BY <3>2
      <4>2. g[k] = Received(f[m], ids[m + 1]) /\ g[m] = f[m]
        BY <3>2, <4>1
      <4> HIDE DEF g
      <4> QED
        BY <4>1, <4>2
    <3> QED
      BY <3>1, <3>2
  <2>4. g = [k \in 0..(m + 1) |-> After(g, k)]
    <3>1. g = [k \in 0..(m + 1) |-> g[k]]
      OBVIOUS
    <3> HIDE DEF g, After
    <3> QED
      BY <2>3, <3>1
  <2>5. m + 1 \in 0..n
    BY <1>2
  <2> HIDE DEF g
  <2> QED
    BY <2>4, <2>5
<1>3. \E f : Run(f, n)
  <2>1. n \in T
    <3> HIDE DEF T
    <3>1. \A k \in 0..n : k \in T /\ k < n => k + 1 \in T
      BY <1>2
    <3>2. 0..n \subseteq T
      BY <1>1, <3>1, StepByStep
    <3> QED
      BY <3>2
  <2> QED
    BY <2>1
<1> DEFINE run == CHOOSE f : Run(f, n)
<1>4. Run(run, n)
  BY <1>3
<1>5. \A k \in 0..n : run[k] = After(run, k)
  <2> HIDE DEF run
  <2> QED
    BY <1>4
<1>6. ReceivedAll(s, ids) = run[n]
  BY DEF ReceivedAll
<1> DEFINE G == {k \in 0..n : run[k] \in Good}
<1>7. 0 \in G
  <2> HIDE DEF run
  <2> QED
    BY <1>5
<1>8. ASSUME NEW k \in 0..n, k \in G, k < n PROVE k + 1 \in G
  <2>1. k + 1 \in 1..n /\ k + 1 \in 0..n /\ (k + 1) - 1 = k /\ k + 1 # 0
    BY <1>8
  <2> HIDE DEF run
  <2>2. run[k + 1] = Received(run[k], ids[k + 1])
    BY <1>5, <2>1
  <2> QED
    BY <1>8, <2>1, <2>2
<1>9. n \in G
  <2> HIDE DEF G
  <2>1. \A k \in 0..n : k \in G /\ k < n => k + 1 \in G
    BY <1>8
  <2>2. 0..n \subseteq G
    BY <1>7, <2>1, StepByStep
  <2> QED
    BY <2>2
<1> QED
  BY <1>6, <1>9

-----------------------------------------------------------------------------
Names == {f.id : f \in Frames}

\* A memory m of the newest of what was announced, h, as much as fits.
Newest(m, h) ==
  /\ Len(m) = IF Len(h) < SeenMax THEN Len(h) ELSE SeenMax
  /\ \A i \in 1..Len(m) : m[i] = h[Len(h) - Len(m) + i]

\* No frame is announced twice within the memory's length.
Spaced(h) ==
  \A i, j \in 1..Len(h) : h[i] = h[j] => i = j \/ i - j > SeenMax \/ j - i > SeenMax

Memories == {s \in [seen : Seq(Names), log : Seq(Names)] : Newest(s.seen, s.log) /\ Spaced(s.log)}

\* What the memory becomes: its length and its entries.
LEMMA Remembered ==
  ASSUME NEW m \in Seq(Names), Len(m) <= SeenMax, NEW id \in Names
  PROVE  LET new == IF Len(m) < SeenMax THEN Append(m, id) ELSE Tail(Append(m, id)) IN
           /\ new \in Seq(Names)
           /\ Len(new) = IF Len(m) < SeenMax THEN Len(m) + 1 ELSE Len(m)
           /\ new[Len(new)] = id
           /\ \A i \in 1..(Len(new) - 1) : new[i] = IF Len(m) < SeenMax THEN m[i] ELSE m[i + 1]
<1> DEFINE a == Append(m, id)
<1>1. Len(m) \in Nat
  OBVIOUS
<1>2. /\ a \in Seq(Names) /\ Len(a) = Len(m) + 1 /\ a[Len(m) + 1] = id
      /\ \A i \in 1..Len(m) : a[i] = m[i]
  OBVIOUS
<1> HIDE DEF a
<1>3. a # << >>
  BY <1>1, <1>2
<1>4. /\ Tail(a) \in Seq(Names) /\ Len(Tail(a)) = Len(m)
      /\ \A i \in 1..Len(m) : Tail(a)[i] = a[i + 1]
  BY <1>1, <1>2, <1>3, HeadTailProperties
<1>5. CASE Len(m) < SeenMax
  BY <1>1, <1>2, <1>5 DEF a
<1>6. CASE ~(Len(m) < SeenMax)
  <2>1. Len(m) \in 1..Len(m) /\ \A i \in 1..(Len(m) - 1) : i \in 1..Len(m) /\ i + 1 \in 1..Len(m)
    BY <1>1, <1>6
  <2>2. Tail(a)[Len(m)] = id /\ \A i \in 1..(Len(m) - 1) : Tail(a)[i] = m[i + 1]
    BY <1>2, <1>4, <2>1
  <2> QED
    BY <1>4, <1>6, <2>2 DEF a
<1> QED
  BY <1>5, <1>6

\* received() keeps the memory the newest of what is announced, and what is
\* announced without repetition.
LEMMA ReceivedKeeps ==
  ASSUME NEW s \in Memories, NEW id \in Names
  PROVE  Received(s, id) \in Memories
<1> DEFINE m == s.seen
           h == s.log
           n == Len(m)
           d == Len(h)
<1>1. /\ m \in Seq(Names) /\ h \in Seq(Names) /\ Newest(m, h) /\ Spaced(h)
      /\ s = [seen |-> m, log |-> h]
  BY DEF Memories
<1>2. /\ n \in Nat /\ d \in Nat /\ n = (IF d < SeenMax THEN d ELSE SeenMax)
      /\ \A i \in 1..n : m[i] = h[d - n + i]
  BY <1>1 DEF Newest
<1>3. CASE id \in ToSet(m)
  BY <1>3 DEF Received
<1>4. CASE id \notin ToSet(m)
  <2> DEFINE new == IF n < SeenMax THEN Append(m, id) ELSE Tail(Append(m, id))
             g == Append(h, id)
             k == Len(new)
  <2>1. Received(s, id) = [seen |-> new, log |-> g]
    BY <1>4 DEF Received
  <2>2. /\ new \in Seq(Names) /\ k = (IF n < SeenMax THEN n + 1 ELSE n) /\ new[k] = id
        /\ \A i \in 1..(k - 1) : new[i] = IF n < SeenMax THEN m[i] ELSE m[i + 1]
    <3>1. n <= SeenMax
      <4> HIDE DEF n, d
      <4> QED
        BY <1>2
    <3> HIDE DEF m
    <3>2. m \in Seq(Names) /\ Len(m) <= SeenMax
      BY <1>1, <3>1
    <3> QED
      BY <3>2, Remembered
  <2>3. g \in Seq(Names) /\ Len(g) = d + 1 /\ g[d + 1] = id /\ \A i \in 1..d : g[i] = h[i]
    BY <1>1
  <2>4. \A i \in 1..n : m[i] # id
    <3>1. \A i \in 1..n : m[i] \in ToSet(m)
      BY <1>1 DEF ToSet
    <3> QED
      BY <1>4, <3>1
  <2> HIDE DEF new, g, k, m, h, n, d
  <2>5. n <= d /\ n <= SeenMax /\ (n = d \/ n = SeenMax)
    BY <1>2
  <2>6. k \in Nat \ {0} /\ k = (IF d + 1 < SeenMax THEN d + 1 ELSE SeenMax) /\ k <= d + 1
    BY <1>2, <2>2
  <2>7. ASSUME NEW i \in 1..k PROVE new[i] = g[(d + 1) - k + i]
    <3>1. CASE i = k
      <4>0. k \in Nat /\ d \in Nat
        BY <1>2, <2>6
      <4>1. (d + 1) - k + i = d + 1
        BY <3>1, <4>0
      <4> QED
        BY <2>2, <2>3, <3>1, <4>1
    <3>2. CASE i # k /\ n < SeenMax
      <4>1. /\ i \in 1..(k - 1) /\ i \in 1..n
            /\ (d + 1) - k + i = d - n + i /\ d - n + i \in 1..d
        BY <1>2, <2>2, <2>5, <3>2
      <4> QED
        BY <1>2, <2>2, <2>3, <3>2, <4>1
    <3>3. CASE i # k /\ ~(n < SeenMax)
      <4>0. k = n /\ n \in Nat /\ d \in Nat /\ n <= d
        BY <1>2, <2>2, <2>5, <3>3
      <4>1. /\ i \in 1..(k - 1) /\ i + 1 \in 1..n
            /\ (d + 1) - k + i = d - n + (i + 1) /\ d - n + (i + 1) \in 1..d
        BY <3>3, <4>0
      <4> QED
        BY <1>2, <2>2, <2>3, <3>3, <4>1
    <3> QED
      BY <3>1, <3>2, <3>3
  <2>8. Newest(new, g)
    BY <2>3, <2>6, <2>7 DEF Newest, k
  <2>9. ASSUME NEW i \in 1..d, h[i] = id PROVE (d + 1) - i > SeenMax
    <3>1. CASE i > d - n
      <4>1. i - (d - n) \in 1..n /\ d - n + (i - (d - n)) = i
        BY <1>2, <2>5, <3>1
      <4> QED
        BY <1>2, <2>4, <2>9, <4>1
    <3>2. CASE ~(i > d - n)
      BY <1>2, <2>5, <3>2
    <3> QED
      BY <3>1, <3>2
  <2>10. Spaced(g)
    <3> SUFFICES ASSUME NEW i \in 1..(d + 1), NEW j \in 1..(d + 1), g[i] = g[j], i # j
                 PROVE  i - j > SeenMax \/ j - i > SeenMax
      BY <2>3 DEF Spaced
    <3>1. CASE i \in 1..d /\ j \in 1..d
      <4>1. h[i] = h[j]
        BY <2>3, <3>1
      <4> QED
        BY <1>1, <3>1, <4>1 DEF Spaced, d
    <3>2. CASE i = d + 1 /\ j \in 1..d
      BY <2>3, <2>9, <3>2
    <3>3. CASE j = d + 1 /\ i \in 1..d
      BY <2>3, <2>9, <3>3
    <3> QED
      BY <1>2, <3>1, <3>2, <3>3
  <2> QED
    BY <2>1, <2>2, <2>3, <2>8, <2>10 DEF Memories
<1> QED
  BY <1>3, <1>4

-----------------------------------------------------------------------------
Piece == [frame : Frames, part : 1..2]

\* The stream of a connection: what its reader holds and what it has yet to read.
Stream(c) == m_buf[c] \o unread[c]

\* A stream of whole frames, each of which the reader takes.
Framed(st) == Len(st) % 2 = 0 /\ \A i \in 1..Len(st) : Takes(st, i)

WireTypes ==
  /\ m_buf \in [Conns -> Seq(Piece)] /\ unread \in [Conns -> Seq(Piece)]
  /\ \A c \in Conns : Len(m_buf[c]) <= 1
  /\ written \in [Conns -> SUBSET Frames]
  /\ m_failed \subseteq Conns /\ up \subseteq Conns

MemoryRight == [seen |-> m_seenOrder, log |-> log] \in Memories

\* What waits on a connection that stands is whole frames.
StreamsFramed ==
  /\ \A c \in Kept : Framed(IF c \in up THEN Stream(c) ELSE << >>)
  /\ \A c \in Conns : c \notin up => unread[c] = << >>

IInv == WireTypes /\ MemoryRight /\ StreamsFramed /\ GoodPeersKept

LEMMA EvenOrOdd ==
  ASSUME NEW n \in Nat
  PROVE  /\ n % 2 \in {0, 1} /\ n \div 2 \in Nat
         /\ n = 2 * (n \div 2) + (n % 2)
<1>1. n % 2 \in {0, 1}
  OBVIOUS
<1>2. n \div 2 \in Nat
  OBVIOUS
<1>3. n = 2 * (n \div 2) + (n % 2)
  OBVIOUS
<1> QED
  BY <1>1, <1>2, <1>3

\* Even steps change nothing of whether a number is even.
LEMMA EvenShift ==
  ASSUME NEW i \in Nat, NEW k \in Nat, k % 2 = 0
  PROVE  (i + k) % 2 = i % 2
OBVIOUS

\* What a read takes of a connection, and what it leaves.
LEMMA ReadSplits ==
  ASSUME NEW b \in Seq(Piece), Len(b) <= 1, NEW u \in Seq(Piece), NEW n \in 1..Len(u)
  PROVE  LET buf == b \o SubSeq(u, 1, n)
             st == b \o u
             left == Rest(buf) \o SubSeq(u, n + 1, Len(u))
             k == Len(buf) - (Len(buf) % 2) IN
           /\ buf \in Seq(Piece) /\ Len(buf) \in Nat /\ Len(buf) <= Len(st)
           /\ \A i \in 1..Len(buf) : buf[i] = st[i]
           /\ Rest(buf) \in Seq(Piece) /\ Len(Rest(buf)) <= 1
           /\ SubSeq(u, n + 1, Len(u)) \in Seq(Piece)
           /\ k \in Nat /\ k % 2 = 0 /\ k <= Len(st)
           /\ Len(left) = Len(st) - k /\ Len(st) \in Nat
           /\ \A i \in 1..Len(left) : left[i] = st[i + k]
<1> DEFINE s1 == SubSeq(u, 1, n)
           s2 == SubSeq(u, n + 1, Len(u))
           buf == b \o s1
           st == b \o u
           k == Len(buf) - (Len(buf) % 2)
<1>1. Len(b) \in Nat /\ Len(u) \in Nat /\ n \in Nat /\ n <= Len(u) /\ n >= 1
  OBVIOUS
<1>2. s1 \in Seq(Piece) /\ Len(s1) = n /\ \A i \in 1..n : s1[i] = u[i]
  <2>1. 1 \in Int /\ n \in Int /\ \A i \in 1..n : u[i] \in Piece
    BY <1>1, ElementOfSeq
  <2>2. n - 1 + 1 = n /\ \A i \in 1..n : 1 + i - 1 = i
    BY <1>1
  <2>3. /\ SubSeq(u, 1, n) \in Seq(Piece)
        /\ Len(SubSeq(u, 1, n)) = IF 1 <= n THEN n - 1 + 1 ELSE 0
        /\ \A i \in 1..(n - 1 + 1) : SubSeq(u, 1, n)[i] = u[1 + i - 1]
    BY <2>1, SubSeqProperties
  <2> QED
    BY <1>1, <2>2, <2>3
<1>3. /\ s2 \in Seq(Piece) /\ Len(s2) = Len(u) - n
      /\ \A i \in 1..(Len(u) - n) : s2[i] = u[n + i]
  <2> DEFINE m == Len(u)
  <2>1. n + 1 \in Int /\ m \in Int /\ \A i \in (n + 1)..m : u[i] \in Piece
    BY <1>1, ElementOfSeq
  <2>2. m - (n + 1) + 1 = m - n /\ \A i \in 1..(m - n) : (n + 1) + i - 1 = n + i
    BY <1>1
  <2>3. /\ SubSeq(u, n + 1, m) \in Seq(Piece)
        /\ Len(SubSeq(u, n + 1, m)) = IF n + 1 <= m THEN m - (n + 1) + 1 ELSE 0
        /\ \A i \in 1..(m - (n + 1) + 1) : SubSeq(u, n + 1, m)[i] = u[(n + 1) + i - 1]
    BY <2>1, SubSeqProperties
  <2> HIDE DEF m
  <2>4. (IF n + 1 <= m THEN m - n ELSE 0) = m - n
    BY <1>1 DEF m
  <2>5. /\ SubSeq(u, n + 1, m) \in Seq(Piece) /\ Len(SubSeq(u, n + 1, m)) = m - n
        /\ \A i \in 1..(m - n) : SubSeq(u, n + 1, m)[i] = u[n + i]
    BY <2>2, <2>3, <2>4
  <2> QED
    BY <2>5 DEF m, s2
<1>4. /\ buf \in Seq(Piece) /\ Len(buf) = Len(b) + n
      /\ \A i \in 1..(Len(b) + n) : buf[i] = IF i <= Len(b) THEN b[i] ELSE s1[i - Len(b)]
  <2> HIDE DEF s1
  <2> QED
    BY <1>2, ConcatProperties
<1>5. /\ st \in Seq(Piece) /\ Len(st) = Len(b) + Len(u)
      /\ \A i \in 1..(Len(b) + Len(u)) : st[i] = IF i <= Len(b) THEN b[i] ELSE u[i - Len(b)]
  BY ConcatProperties
<1> HIDE DEF s1, s2, buf, st
<1>6. Len(buf) \in Nat /\ Len(st) \in Nat /\ Len(buf) <= Len(st)
  BY <1>1, <1>4, <1>5
<1>7. \A i \in 1..Len(buf) : buf[i] = st[i]
  <2> SUFFICES ASSUME NEW i \in 1..Len(buf) PROVE buf[i] = st[i]
    OBVIOUS
  <2>1. i \in 1..(Len(b) + n) /\ i \in 1..(Len(b) + Len(u))
    BY <1>1, <1>4
  <2>2. CASE i <= Len(b)
    BY <1>4, <1>5, <2>1, <2>2
  <2>3. CASE ~(i <= Len(b))
    <3>1. i - Len(b) \in 1..n
      BY <1>1, <2>1, <2>3
    <3> QED
      BY <1>2, <1>4, <1>5, <2>1, <2>3, <3>1
  <2> QED
    BY <2>2, <2>3
<1> DEFINE rest == Rest(buf)
           left == rest \o s2
<1>8. /\ rest \in Seq(Piece) /\ Len(rest) = Len(buf) % 2 /\ Len(rest) \in {0, 1}
      /\ Len(rest) = 1 => rest[1] = buf[Len(buf)]
  <2>0. Len(buf) % 2 \in {0, 1}
    BY <1>6, EvenOrOdd
  <2>1. CASE Len(buf) % 2 = 1
    <3>1. Len(buf) \in 1..Len(buf)
      BY <1>6, <2>1
    <3>2. buf[Len(buf)] \in Piece
      BY <1>4, <3>1, ElementOfSeq
    <3>3. rest = <<buf[Len(buf)]>>
      BY <2>1 DEF Rest, Last
    <3> HIDE DEF rest
    <3> QED
      BY <2>1, <3>2, <3>3
  <2>2. CASE Len(buf) % 2 = 0
    <3>1. rest = << >>
      BY <2>2 DEF Rest
    <3> HIDE DEF rest
    <3> QED
      BY <2>2, <3>1
  <2> QED
    BY <2>0, <2>1, <2>2
<1>9. k \in Nat /\ k % 2 = 0 /\ k = Len(buf) - Len(rest) /\ k <= Len(st)
  <2> DEFINE m == Len(buf)
             q == m \div 2
  <2>1. m % 2 \in {0, 1} /\ q \in Nat /\ m = 2 * q + (m % 2)
    BY <1>6, EvenOrOdd
  <2>2. k = 2 * q
    BY <1>6, <2>1
  <2>3. k \in Nat /\ k <= m
    BY <1>6, <2>1, <2>2
  <2>4. (2 * q) % 2 = 0
    BY <2>1
  <2>5. k % 2 = 0
    BY <2>2, <2>4
  <2>6. k = m - Len(rest)
    BY <1>8
  <2> HIDE DEF k
  <2>7. k <= Len(st)
    BY <1>6, <2>3
  <2> QED
    BY <2>3, <2>5, <2>6, <2>7
<1> HIDE DEF rest, k
<1>10. /\ Len(left) = Len(rest) + (Len(u) - n)
       /\ \A i \in 1..(Len(rest) + (Len(u) - n)) :
            left[i] = IF i <= Len(rest) THEN rest[i] ELSE s2[i - Len(rest)]
  <2>1. /\ Len(left) = Len(rest) + Len(s2)
        /\ \A i \in 1..(Len(rest) + Len(s2)) :
             left[i] = IF i <= Len(rest) THEN rest[i] ELSE s2[i - Len(rest)]
    BY <1>3, <1>8, ConcatProperties
  <2> HIDE DEF left
  <2> QED
    BY <1>3, <2>1
<1>11. Len(left) = Len(st) - k
  BY <1>1, <1>4, <1>5, <1>8, <1>9, <1>10
<1>12. ASSUME NEW i \in 1..Len(left) PROVE left[i] = st[i + k]
  <2> HIDE DEF left
  <2>1. /\ i \in 1..(Len(rest) + (Len(u) - n)) /\ k = Len(b) + n - Len(rest)
        /\ i + k \in 1..(Len(b) + Len(u)) /\ Len(rest) \in Nat
    <3> DEFINE x == Len(rest)
               y == Len(u)
               z == Len(b)
    <3>1. x \in Nat /\ y \in Nat /\ z \in Nat /\ n \in 1..y /\ x <= 1
      BY <1>1, <1>8
    <3>2. k = z + n - x /\ i \in 1..(x + (y - n)) /\ k \in Nat
      BY <1>4, <1>9, <1>10
    <3> HIDE DEF x, y, z
    <3>3. i + k \in 1..(z + y)
      BY <3>1, <3>2
    <3> QED
      BY <3>1, <3>2, <3>3 DEF x, y, z
  <2>2. CASE i <= Len(rest)
    <3>1. i = 1 /\ Len(rest) = 1
      <4> DEFINE x == Len(rest)
      <4>1. x \in {0, 1} /\ i <= x
        BY <1>8, <2>2
      <4>2. i \in Nat /\ i > 0
        OBVIOUS
      <4> HIDE DEF x
      <4>3. i = 1 /\ x = 1
        BY <4>1, <4>2
      <4> QED
        BY <4>3 DEF x
    <3>2. i + k = Len(buf) /\ Len(buf) \in 1..Len(buf)
      <4> DEFINE z == Len(b)
                 l == Len(buf)
      <4>1. z \in Nat /\ n \in Nat /\ n > 0 /\ l = z + n /\ k = z + n - 1 /\ i = 1
        BY <1>1, <1>4, <2>1, <3>1
      <4> HIDE DEF z, l
      <4>2. i + k = l /\ l \in 1..l
        BY <4>1
      <4> QED
        BY <4>2 DEF l
    <3> QED
      BY <1>7, <1>8, <1>10, <2>1, <2>2, <3>1, <3>2
  <2>3. CASE ~(i <= Len(rest))
    <3>1. /\ i - Len(rest) \in 1..(Len(u) - n) /\ n + (i - Len(rest)) = (i + k) - Len(b)
          /\ ~(i + k <= Len(b))
      <4> DEFINE x == Len(rest)
                 y == Len(u)
                 z == Len(b)
      <4>1. /\ x \in Nat /\ y \in Nat /\ z \in Nat /\ n \in Nat /\ n > 0 /\ n <= y
            /\ i \in 1..(x + (y - n)) /\ k = z + n - x /\ ~(i <= x)
        BY <1>1, <2>1, <2>3
      <4> HIDE DEF x, y, z
      <4>2. i - x \in 1..(y - n) /\ n + (i - x) = (i + k) - z /\ ~(i + k <= z)
        BY <4>1
      <4> QED
        BY <4>2 DEF x, y, z
    <3>2. left[i] = s2[i - Len(rest)]
      BY <1>10, <2>1, <2>3
    <3>3. s2[i - Len(rest)] = u[n + (i - Len(rest))]
      BY <1>3, <3>1
    <3>4. st[i + k] = u[(i + k) - Len(b)]
      BY <1>5, <2>1, <3>1
    <3> QED
      BY <3>1, <3>2, <3>3, <3>4
  <2> QED
    BY <2>2, <2>3
<1>13. Len(rest) <= 1
  BY <1>8
<1> QED
  BY <1>3, <1>4, <1>6, <1>7, <1>8, <1>9, <1>11, <1>12, <1>13 DEF s1, s2, buf, st, rest, k

\* What the reader takes at a place depends on the pieces there and before.
LEMMA TakesAlike ==
  ASSUME NEW s, NEW t, NEW i \in Nat \ {0}, NEW k \in Nat, k % 2 = 0,
         s[i] = t[i + k], i > 1 => s[i - 1] = t[i + k - 1], Takes(t, i + k)
  PROVE  Takes(s, i)
<1>1. (i + k) % 2 = i % 2
  BY EvenShift
<1>2. i % 2 # 1 => i > 1
  BY EvenOrOdd
<1> QED
  BY <1>1, <1>2 DEF Takes

\* What is left of whole frames after whole frames is whole frames.
LEMMA FramedLeft ==
  ASSUME NEW st, Len(st) \in Nat, NEW left, NEW k \in Nat, k % 2 = 0, k <= Len(st),
         Len(left) = Len(st) - k, \A i \in 1..Len(left) : left[i] = st[i + k], Framed(st)
  PROVE  Framed(left)
<1> DEFINE n == Len(st)
           m == Len(left)
<1>1. n \in Nat /\ m \in Nat /\ m + k = n
  OBVIOUS
<1>2. m % 2 = 0
  <2>1. n % 2 = 0
    BY DEF Framed
  <2> HIDE DEF n, m
  <2>2. (m + k) % 2 = m % 2
    BY <1>1, EvenShift
  <2> QED
    BY <1>1, <2>1, <2>2
<1>3. ASSUME NEW i \in 1..m PROVE Takes(left, i)
  <2> HIDE DEF n, m
  <2>1. i \in Nat \ {0} /\ i + k \in 1..n
    BY <1>1
  <2>2. i > 1 => i - 1 \in 1..m /\ i - 1 + k = i + k - 1
    BY <1>1
  <2>3. left[i] = st[i + k] /\ (i > 1 => left[i - 1] = st[i + k - 1])
    BY <2>2 DEF m
  <2>4. Takes(st, i + k)
    BY <2>1 DEF n, Framed
  <2> QED
    BY <2>1, <2>3, <2>4, TakesAlike
<1> QED
  BY <1>2, <1>3 DEF Framed

\* A frame that flood() agrees to send is one the reader takes.
LEMMA FramedWith ==
  ASSUME NEW st \in Seq(Piece), Framed(st), NEW f \in Frames, Encoded(f), Floods(f)
  PROVE  Framed(st \o Pieces(f))
<1> DEFINE n == Len(st)
           new == st \o Pieces(f)
<1>1. /\ Pieces(f) \in Seq(Piece) /\ Len(Pieces(f)) = 2
      /\ Pieces(f)[1] = [frame |-> f, part |-> 1] /\ Pieces(f)[2] = [frame |-> f, part |-> 2]
  BY DEF Pieces, Piece
<1>2. /\ n \in Nat /\ Len(new) = n + 2
      /\ \A i \in 1..(n + 2) : new[i] = IF i <= n THEN st[i] ELSE Pieces(f)[i - n]
  <2>1. /\ Len(new) = n + Len(Pieces(f))
        /\ \A i \in 1..(n + Len(Pieces(f))) : new[i] = IF i <= n THEN st[i] ELSE Pieces(f)[i - n]
    BY <1>1, ConcatProperties
  <2> HIDE DEF new
  <2> QED
    BY <1>1, <2>1
<1>3. n % 2 = 0 /\ \A i \in 1..n : Takes(st, i)
  BY DEF Framed
<1> HIDE DEF n, new
<1>4. (n + 2) % 2 = 0 /\ (n + 1) % 2 = 1
  BY <1>2, <1>3
<1>5. ASSUME NEW i \in 1..n PROVE Takes(new, i)
  <2>1. i \in Nat \ {0} /\ i + 0 = i /\ i \in 1..(n + 2) /\ i <= n
    BY <1>2
  <2>2. i > 1 => i - 1 \in 1..(n + 2) /\ i - 1 <= n
    BY <1>2
  <2>3. new[i] = st[i + 0] /\ (i > 1 => new[i - 1] = st[i + 0 - 1])
    BY <1>2, <2>1, <2>2
  <2>4. Takes(st, i + 0) /\ 0 \in Nat /\ 0 % 2 = 0
    BY <1>3, <2>1
  <2> QED
    BY <2>1, <2>3, <2>4, TakesAlike
<1>6. /\ new[n + 1] = [frame |-> f, part |-> 1] /\ new[n + 2] = [frame |-> f, part |-> 2]
  <2>1. /\ n + 1 \in 1..(n + 2) /\ n + 2 \in 1..(n + 2) /\ ~(n + 1 <= n) /\ ~(n + 2 <= n)
        /\ (n + 1) - n = 1 /\ (n + 2) - n = 2
    BY <1>2
  <2> QED
    BY <1>1, <1>2, <2>1
<1>7. LengthOf(f) \in 3..MaxFrame /\ f.version = Version /\ f.topic \in 1..MaxTopic /\ f.payload >= 0
  BY DEF Encoded, Floods, LengthOf
<1>8. Takes(new, n + 1)
  BY <1>4, <1>6, <1>7 DEF Takes
<1>9. Takes(new, n + 2)
  <2>1. (n + 2) - 1 = n + 1
    BY <1>2
  <2> QED
    BY <1>4, <1>6, <1>7, <2>1 DEF Takes
<1>10. \A i \in 1..(n + 2) : i \in 1..n \/ i = n + 1 \/ i = n + 2
  BY <1>2
<1> QED
  BY <1>2, <1>4, <1>5, <1>8, <1>9, <1>10 DEF Framed, new

-----------------------------------------------------------------------------
\* The whole frames of a read are received, in order.
LEMMA ReadReceives ==
  ASSUME NEW buf \in Seq(Piece), NEW s \in Memories
  PROVE  ReceivedAll(s, Whole(buf)) \in Memories
<1> DEFINE m == Len(buf)
           q == m \div 2
<1>1. m \in Nat /\ q \in Nat /\ 2 * q <= m
  <2>1. m \in Nat
    OBVIOUS
  <2> HIDE DEF m
  <2>2. q \in Nat /\ m = 2 * q + (m % 2) /\ m % 2 \in {0, 1}
    BY <2>1, EvenOrOdd
  <2> HIDE DEF q
  <2> QED
    BY <2>1, <2>2
<1>2. \A i \in 1..q : 2 * i \in 1..m
  <2> HIDE DEF m, q
  <2> QED
    BY <1>1
<1>3. \A i \in 1..q : buf[2 * i].frame.id \in Names
  <2> SUFFICES ASSUME NEW i \in 1..q PROVE buf[2 * i].frame.id \in Names
    OBVIOUS
  <2>1. buf[2 * i] \in Piece
    BY <1>2, ElementOfSeq
  <2> QED
    BY <2>1 DEF Piece, Names
<1>4. Whole(buf) = [i \in 1..q |-> buf[2 * i].frame.id]
  BY DEF Whole
<1> HIDE DEF q
<1>5. Len(Whole(buf)) = q /\ \A i \in 1..q : Whole(buf)[i] \in Names
  BY <1>1, <1>3, <1>4
<1> QED
  BY <1>1, <1>5, ReceivedAllKeeps, ReceivedKeeps

-----------------------------------------------------------------------------
LEMMA NothingFramed == Framed(<< >>)
BY DEF Framed

\* A reader of a new connection starts with nothing, and so does its stream.
LEMMA Connects ==
  ASSUME IInv, NEW c \in Conns, Connect(c)
  PROVE  IInv'
<1>1. /\ up' = up \cup {c} /\ m_buf' = [m_buf EXCEPT ![c] = << >>] /\ m_failed' = m_failed \ {c}
      /\ UNCHANGED <<m_seenOrder, log, unread, written>> /\ c \notin up
  BY DEF Connect
<1>2. << >> \in Seq(Piece) /\ Len(<< >>) = 0
  OBVIOUS
<1>3. /\ m_buf' \in [Conns -> Seq(Piece)]
      /\ \A e \in Conns : m_buf'[e] = IF e = c THEN << >> ELSE m_buf[e]
  BY <1>1, <1>2 DEF IInv, WireTypes
<1>4. WireTypes'
  BY <1>1, <1>2, <1>3 DEF IInv, WireTypes
<1>5. MemoryRight' /\ GoodPeersKept'
  BY <1>1 DEF IInv, MemoryRight, GoodPeersKept, Kept
<1>6. ASSUME NEW e \in Kept PROVE Framed(IF e \in up' THEN Stream(e)' ELSE << >>)
  <2>1. CASE e = c
    <3>1. m_buf'[e] = << >> /\ unread'[e] = << >>
      BY <1>1, <1>3, <2>1 DEF IInv, StreamsFramed, Kept
    <3>2. Stream(e)' = << >>
      BY <3>1 DEF Stream
    <3> QED
      BY <3>2, NothingFramed
  <2>2. CASE e # c
    <3>1. Stream(e)' = Stream(e) /\ (e \in up' <=> e \in up)
      BY <1>1, <1>3, <2>2 DEF Stream, Kept
    <3> QED
      BY <3>1 DEF IInv, StreamsFramed
  <2> QED
    BY <2>1, <2>2
<1>7. StreamsFramed'
  BY <1>1, <1>6 DEF IInv, StreamsFramed, Kept
<1> QED
  BY <1>4, <1>5, <1>7 DEF IInv

\* A connection goes down with all that was on it.
LEMMA Closes ==
  ASSUME WireTypes, StreamsFramed, NEW c \in Conns, Close(c), m_buf' = m_buf, m_failed' \subseteq Conns
  PROVE  WireTypes' /\ StreamsFramed'
<1>1. /\ up' = up \ {c} /\ unread' = [unread EXCEPT ![c] = << >>]
      /\ written' = [written EXCEPT ![c] = {}]
  BY DEF Close
<1>2. << >> \in Seq(Piece) /\ {} \in SUBSET Frames
  OBVIOUS
<1>3. \A e \in Conns : unread'[e] = IF e = c THEN << >> ELSE unread[e]
  BY <1>1 DEF WireTypes
<1>4. WireTypes'
  BY <1>1, <1>2 DEF WireTypes
<1>5. ASSUME NEW e \in Kept PROVE Framed(IF e \in up' THEN Stream(e)' ELSE << >>)
  <2>1. CASE e = c
    BY <1>1, <2>1, NothingFramed
  <2>2. CASE e # c
    <3>1. Stream(e)' = Stream(e) /\ (e \in up' <=> e \in up)
      BY <1>1, <1>3, <2>2 DEF Stream, Kept
    <3> QED
      BY <3>1 DEF StreamsFramed
  <2> QED
    BY <2>1, <2>2
<1> QED
  BY <1>1, <1>3, <1>4, <1>5 DEF StreamsFramed, Kept

\* Joining sequences of pieces is associative.
LEMMA PiecesJoin ==
  \A s, t, u \in Seq(Piece) : (s \o t) \o u = s \o (t \o u)
<1> SUFFICES ASSUME NEW s \in Seq(Piece), NEW t \in Seq(Piece), NEW u \in Seq(Piece)
             PROVE  (s \o t) \o u = s \o (t \o u)
  OBVIOUS
<1> DEFINE st == s \o t
           tu == t \o u
           a == st \o u
           b == s \o tu
           x == Len(s)
           y == Len(t)
           z == Len(u)
<1>1. x \in Nat /\ y \in Nat /\ z \in Nat
  OBVIOUS
<1>2. /\ st \in Seq(Piece) /\ Len(st) = x + y
      /\ \A i \in 1..(x + y) : st[i] = IF i <= x THEN s[i] ELSE t[i - x]
  BY ConcatProperties
<1>3. /\ tu \in Seq(Piece) /\ Len(tu) = y + z
      /\ \A i \in 1..(y + z) : tu[i] = IF i <= y THEN t[i] ELSE u[i - y]
  BY ConcatProperties
<1> HIDE DEF st, tu
<1>4. /\ a \in Seq(Piece) /\ Len(a) = (x + y) + z
      /\ \A i \in 1..((x + y) + z) : a[i] = IF i <= x + y THEN st[i] ELSE u[i - (x + y)]
  <2>1. /\ a \in Seq(Piece) /\ Len(a) = Len(st) + Len(u)
        /\ \A i \in 1..(Len(st) + Len(u)) : a[i] = IF i <= Len(st) THEN st[i] ELSE u[i - Len(st)]
    <3>1. st \in Seq(Piece)
      BY <1>2
    <3> QED
      BY <3>1, ConcatProperties
  <2>2. Len(st) = x + y /\ Len(u) = z
    BY <1>2
  <2> HIDE DEF a, x, y, z
  <2> QED
    BY <2>1, <2>2
<1>5. /\ b \in Seq(Piece) /\ Len(b) = x + (y + z)
      /\ \A i \in 1..(x + (y + z)) : b[i] = IF i <= x THEN s[i] ELSE tu[i - x]
  <2>1. /\ b \in Seq(Piece) /\ Len(b) = Len(s) + Len(tu)
        /\ \A i \in 1..(Len(s) + Len(tu)) : b[i] = IF i <= Len(s) THEN s[i] ELSE tu[i - Len(s)]
    <3>1. tu \in Seq(Piece)
      BY <1>3
    <3> QED
      BY <3>1, ConcatProperties
  <2>2. Len(tu) = y + z /\ Len(s) = x
    BY <1>3
  <2> HIDE DEF b, x, y, z
  <2> QED
    BY <2>1, <2>2
<1> HIDE DEF a, b, x, y, z
<1>6. ASSUME NEW i \in 1..((x + y) + z) PROVE a[i] = b[i]
  <2>1. i \in 1..(x + (y + z))
    BY <1>1
  <2>2. CASE i <= x
    <3>1. i <= x + y /\ i \in 1..(x + y)
      BY <1>1, <2>2
    <3> QED
      BY <1>2, <1>4, <1>5, <2>1, <2>2, <3>1
  <2>3. CASE ~(i <= x) /\ i <= x + y
    <3>1. i \in 1..(x + y) /\ i - x \in 1..(y + z) /\ i - x <= y
      BY <1>1, <2>3
    <3> QED
      BY <1>2, <1>3, <1>4, <1>5, <2>1, <2>3, <3>1
  <2>4. CASE ~(i <= x + y)
    <3>1. ~(i <= x) /\ i - x \in 1..(y + z) /\ ~(i - x <= y) /\ i - x - y = i - (x + y)
      BY <1>1, <2>4
    <3> QED
      BY <1>3, <1>4, <1>5, <2>1, <2>4, <3>1
  <2> QED
    BY <2>2, <2>3, <2>4
<1>7. Len(a) = Len(b)
  BY <1>1, <1>4, <1>5
<1>8. a = b
  BY <1>4, <1>5, <1>6, <1>7, SeqEqual
<1> QED
  BY <1>8 DEF a, b, st, tu

\* A frame is written to connections that stand; what a peer that keeps the protocol
\* writes is framed.
LEMMA Writes ==
  ASSUME IInv, NEW cs \in SUBSET up, NEW f \in Frames, Write(cs, f),
         cs \cap Kept # {} => Encoded(f) /\ Floods(f)
  PROVE  IInv'
<1>0. /\ unread' = [c \in Conns |-> unread[c] \o IF c \in cs THEN Pieces(f) ELSE << >>]
      /\ written' = [c \in Conns |-> written[c] \cup IF c \in cs THEN {f} ELSE {}]
      /\ UNCHANGED <<m_buf, m_failed, m_seenOrder, up, log>>
  BY DEF Write
<1>1. Pieces(f) \in Seq(Piece) /\ << >> \in Seq(Piece)
  BY DEF Pieces, Piece
<1>2. \A c \in Conns : m_buf[c] \in Seq(Piece) /\ unread[c] \in Seq(Piece)
  BY DEF IInv, WireTypes
<1>3. ASSUME NEW c \in Conns
      PROVE  /\ unread'[c] \in Seq(Piece)
             /\ unread'[c] = IF c \in cs THEN unread[c] \o Pieces(f) ELSE unread[c]
  <2>1. unread'[c] = unread[c] \o IF c \in cs THEN Pieces(f) ELSE << >>
    BY <1>0
  <2>2. unread[c] \o Pieces(f) \in Seq(Piece) /\ unread[c] \o << >> = unread[c]
    BY <1>1, <1>2, ConcatProperties, ConcatEmptySeq
  <2> QED
    BY <1>2, <2>1, <2>2
<1>4. WireTypes'
  <2>1. unread' \in [Conns -> Seq(Piece)]
    BY <1>0, <1>3
  <2>2. written' \in [Conns -> SUBSET Frames]
    BY <1>0 DEF IInv, WireTypes
  <2> QED
    BY <1>0, <2>1, <2>2 DEF IInv, WireTypes
<1>5. ASSUME NEW c \in Kept PROVE Framed(IF c \in up' THEN Stream(c)' ELSE << >>)
  <2>0. c \in Conns /\ up' = up /\ m_buf' = m_buf
    BY <1>0 DEF Kept
  <2>1. CASE c \in cs
    <3>1. Framed(Stream(c)) /\ Stream(c) \in Seq(Piece)
      BY <1>2, <2>0, <2>1, ConcatProperties DEF IInv, StreamsFramed, Stream
    <3>2. Stream(c)' = Stream(c) \o Pieces(f)
      <4>1. unread'[c] = unread[c] \o Pieces(f) /\ m_buf'[c] = m_buf[c]
        BY <1>3, <2>0, <2>1
      <4>2. (m_buf[c] \o unread[c]) \o Pieces(f) = m_buf[c] \o (unread[c] \o Pieces(f))
        <5>1. m_buf[c] \in Seq(Piece) /\ unread[c] \in Seq(Piece) /\ Pieces(f) \in Seq(Piece)
          BY <1>1, <1>2, <2>0
        <5>2. \A s, t, u \in Seq(Piece) : (s \o t) \o u = s \o (t \o u)
          BY PiecesJoin
        <5> QED
          BY <5>1, <5>2
      <4>3. Stream(c)' = m_buf'[c] \o unread'[c] /\ Stream(c) = m_buf[c] \o unread[c]
        BY DEF Stream
      <4> QED
        BY <4>1, <4>2, <4>3
    <3> QED
      BY <2>0, <2>1, <3>1, <3>2, FramedWith
  <2>2. CASE c \notin cs
    BY <1>3, <2>0, <2>2 DEF IInv, StreamsFramed, Stream
  <2> QED
    BY <2>1, <2>2
<1>6. StreamsFramed'
  BY <1>0, <1>3, <1>5 DEF IInv, StreamsFramed, Kept
<1> QED
  BY <1>0, <1>4, <1>6 DEF IInv, MemoryRight, GoodPeersKept, Kept

\* A read: of a peer that keeps the protocol the reader takes every piece, wherever
\* the read ends.
LEMMA Reads ==
  ASSUME IInv, NEW c \in Conns, NEW n \in 1..Len(unread[c]), ReadyRead(c, n)
  PROVE  IInv'
<1> DEFINE u == unread[c]
           buf == m_buf[c] \o SubSeq(u, 1, n)
           left == Rest(buf) \o SubSeq(u, n + 1, Len(u))
           k == Len(buf) - (Len(buf) % 2)
           taken == \A i \in 1..Len(buf) : Takes(buf, i)
           s == ReceivedAll([seen |-> m_seenOrder, log |-> log], Whole(buf))
<1>1. m_buf[c] \in Seq(Piece) /\ Len(m_buf[c]) <= 1 /\ u \in Seq(Piece)
  BY DEF IInv, WireTypes
<1>2. /\ buf \in Seq(Piece) /\ Len(buf) \in Nat /\ Len(buf) <= Len(Stream(c))
      /\ \A i \in 1..Len(buf) : buf[i] = Stream(c)[i]
      /\ Rest(buf) \in Seq(Piece) /\ Len(Rest(buf)) <= 1
      /\ SubSeq(u, n + 1, Len(u)) \in Seq(Piece)
      /\ k \in Nat /\ k % 2 = 0 /\ k <= Len(Stream(c))
      /\ Len(left) = Len(Stream(c)) - k /\ Len(Stream(c)) \in Nat
      /\ \A i \in 1..Len(left) : left[i] = Stream(c)[i + k]
  BY <1>1, ReadSplits DEF Stream
<1>3. s \in Memories
  BY <1>2, ReadReceives DEF IInv, MemoryRight
<1>4. /\ c \in up
      /\ \/ /\ taken
            /\ m_buf' = [m_buf EXCEPT ![c] = Rest(buf)]
            /\ m_seenOrder' = s.seen /\ log' = s.log
            /\ unread' = [unread EXCEPT ![c] = SubSeq(u, n + 1, Len(u))]
            /\ UNCHANGED <<m_failed, up, written>>
         \/ /\ ~taken
            /\ m_failed' = m_failed \cup {c}
            /\ Close(c)
            /\ UNCHANGED <<m_buf, m_seenOrder, log>>
  BY DEF ReadyRead
<1> HIDE DEF s, k
<1>5. CASE taken
  <2>1. /\ \A e \in Conns : m_buf'[e] = IF e = c THEN Rest(buf) ELSE m_buf[e]
        /\ \A e \in Conns : unread'[e] = IF e = c THEN SubSeq(u, n + 1, Len(u)) ELSE unread[e]
        /\ UNCHANGED <<m_failed, up, written>>
    BY <1>4, <1>5 DEF IInv, WireTypes
  <2>2. m_buf' \in [Conns -> Seq(Piece)] /\ unread' \in [Conns -> Seq(Piece)]
    BY <1>2, <1>4, <1>5 DEF IInv, WireTypes
  <2>3. WireTypes'
    BY <1>2, <2>1, <2>2 DEF IInv, WireTypes
  <2>4. MemoryRight'
    <3>1. s = [seen |-> s.seen, log |-> s.log]
      BY <1>3 DEF Memories
    <3> QED
      BY <1>3, <1>4, <1>5, <3>1 DEF MemoryRight
  <2>5. ASSUME NEW e \in Kept PROVE Framed(IF e \in up' THEN Stream(e)' ELSE << >>)
    <3>1. CASE e = c
      <4>1. Framed(Stream(c))
        BY <1>4, <3>1 DEF IInv, StreamsFramed
      <4>2. Stream(e)' = left
        BY <2>1, <3>1 DEF Stream
      <4> HIDE DEF left
      <4>3. Framed(left)
        BY <1>2, <4>1, FramedLeft
      <4> QED
        BY <4>2, <4>3, NothingFramed
    <3>2. CASE e # c
      <4>1. Stream(e)' = Stream(e) /\ up' = up
        BY <2>1, <3>2 DEF Stream, Kept
      <4> QED
        BY <4>1 DEF IInv, StreamsFramed
    <3> QED
      BY <3>1, <3>2
  <2>6. StreamsFramed'
    BY <1>4, <2>1, <2>5 DEF IInv, StreamsFramed, Kept
  <2> QED
    BY <2>1, <2>3, <2>4, <2>6 DEF IInv, GoodPeersKept, Kept
<1>6. CASE ~taken
  <2>1. c \notin Kept
    <3> SUFFICES ASSUME c \in Kept PROVE taken
      BY <1>6
    <3>1. \A i \in 1..Len(Stream(c)) : Takes(Stream(c), i)
      BY <1>4 DEF IInv, StreamsFramed, Framed
    <3> HIDE DEF buf
    <3>2. ASSUME NEW i \in 1..Len(buf) PROVE Takes(buf, i)
      <4>1. i \in Nat \ {0} /\ i \in 1..Len(Stream(c)) /\ i + 0 = i
        BY <1>2
      <4>2. i > 1 => i - 1 \in 1..Len(buf)
        BY <1>2
      <4>3. buf[i] = Stream(c)[i + 0] /\ (i > 1 => buf[i - 1] = Stream(c)[i + 0 - 1])
        BY <1>2, <4>1, <4>2
      <4>4. Takes(Stream(c), i + 0) /\ 0 \in Nat /\ 0 % 2 = 0
        BY <3>1, <4>1
      <4> QED
        BY <4>1, <4>3, <4>4, TakesAlike
    <3> QED
      BY <3>2
  <2>2. /\ m_failed' = m_failed \cup {c} /\ Close(c) /\ UNCHANGED <<m_buf, m_seenOrder, log>>
    BY <1>4, <1>6
  <2>3. WireTypes' /\ StreamsFramed'
    BY <2>2, Closes DEF IInv, WireTypes
  <2> QED
    BY <2>1, <2>2, <2>3 DEF IInv, MemoryRight, GoodPeersKept, Kept
<1> QED
  BY <1>4, <1>5, <1>6

-----------------------------------------------------------------------------
LEMMA InitHolds == Init => IInv
<1> SUFFICES ASSUME Init PROVE IInv
  OBVIOUS
<1>1. << >> \in Seq(Piece) /\ Len(<< >>) = 0 /\ << >> \in Seq(Names)
  OBVIOUS
<1>2. WireTypes
  BY <1>1 DEF Init, WireTypes
<1>3. MemoryRight
  <2>1. Newest(<< >>, << >>) /\ Spaced(<< >>)
    BY <1>1 DEF Newest, Spaced
  <2> QED
    BY <1>1, <2>1 DEF Init, MemoryRight, Memories
<1>4. StreamsFramed /\ GoodPeersKept
  BY NothingFramed DEF Init, StreamsFramed, GoodPeersKept
<1> QED
  BY <1>2, <1>3, <1>4 DEF IInv

LEMMA StepHolds == IInv /\ [Next]_vars => IInv'
<1> SUFFICES ASSUME IInv, [Next]_vars PROVE IInv'
  OBVIOUS
<1>1. ASSUME NEW c \in Conns, Cut(c) PROVE IInv'
  <2>1. /\ Close(c) /\ UNCHANGED <<m_buf, m_failed, m_seenOrder, log>>
    BY <1>1 DEF Cut
  <2>2. WireTypes' /\ StreamsFramed'
    BY <2>1, Closes DEF IInv, WireTypes
  <2> QED
    BY <2>1, <2>2 DEF IInv, MemoryRight, GoodPeersKept, Kept
<1>2. ASSUME NEW c \in Conns, Read(c) PROVE IInv'
  BY <1>2, Reads DEF Read
<1>3. ASSUME NEW p \in {PeerOf[c] : c \in Conns} \ Rogues, NEW f \in Frames, Flood(p, f)
      PROVE  IInv'
  <2>1. {c \in up : PeerOf[c] = p /\ Len(unread[c]) <= Backlog} \in SUBSET up
    OBVIOUS
  <2> QED
    BY <1>3, <2>1, Writes DEF Flood
<1>4. ASSUME NEW c \in Conns, NEW f \in Frames, RogueWrites(c, f) PROVE IInv'
  <2>1. {c} \in SUBSET up /\ {c} \cap Kept = {} /\ Write({c}, f)
    BY <1>4 DEF RogueWrites, Kept
  <2> QED
    BY <2>1, Writes
<1>5. CASE UNCHANGED vars
  BY <1>5 DEF vars, IInv, WireTypes, MemoryRight, StreamsFramed, Stream, GoodPeersKept, Kept
<1> QED
  BY <1>1, <1>2, <1>3, <1>4, <1>5, Connects DEF Next

\* The invariant of the readers, the streams and the memory.
THEOREM Invariance == Spec => []IInv
<1> QED
  BY InitHolds, StepHolds, PTL DEF Spec

\* No peer that keeps the protocol is dropped, wherever the reads split its bytes and
\* whatever others write.
THEOREM GoodPeersStay == Spec => []GoodPeersKept
<1>1. IInv => GoodPeersKept
  BY DEF IInv
<1> QED
  BY <1>1, Invariance, PTL

\* A frame is announced once within the memory's length, and the memory is what
\* was announced last.
THEOREM AnnouncedOnce == Spec => []WireInv
<1>1. IInv => TypeOK
  <2> SUFFICES ASSUME IInv PROVE TypeOK
    OBVIOUS
  <2>1. Len(m_seenOrder) <= SeenMax
    <3>1. Newest(m_seenOrder, log) /\ log \in Seq(Names)
      BY DEF IInv, MemoryRight, Memories
    <3> QED
      BY <3>1 DEF Newest
  <2> QED
    BY <2>1 DEF IInv, WireTypes, TypeOK
<1>2. IInv => OnceInWindow
  <2> SUFFICES ASSUME IInv PROVE OnceInWindow
    OBVIOUS
  <2> DEFINE d == Len(log)
             m == Len(m_seenOrder)
             from == IF d > SeenMax THEN d - SeenMax ELSE 0
  <2>1. /\ m_seenOrder \in Seq(Names) /\ log \in Seq(Names)
        /\ Newest(m_seenOrder, log) /\ Spaced(log)
    BY DEF IInv, MemoryRight, Memories
  <2>2. d \in Nat /\ m \in Nat /\ from = d - m /\ m <= d
    BY <2>1 DEF Newest
  <2>3. \A i \in 1..m : m_seenOrder[i] = log[d - m + i]
    BY <2>1 DEF Newest
  <2>4. /\ SubSeq(log, from + 1, d) \in Seq(Names)
        /\ Len(SubSeq(log, from + 1, d)) = IF from + 1 <= d THEN d - (from + 1) + 1 ELSE 0
        /\ \A i \in 1..(d - (from + 1) + 1) : SubSeq(log, from + 1, d)[i] = log[(from + 1) + i - 1]
    <3>1. from + 1 \in Int /\ d \in Int /\ \A i \in (from + 1)..d : log[i] \in Names
      BY <2>1, <2>2
    <3> HIDE DEF d, from
    <3> QED
      BY <3>1, SubSeqProperties
  <2> HIDE DEF d, m, from
  <2>5. /\ (IF from + 1 <= d THEN d - (from + 1) + 1 ELSE 0) = m /\ d - (from + 1) + 1 = m
        /\ \A i \in 1..m : (from + 1) + i - 1 = d - m + i
    BY <2>2
  <2>6. m_seenOrder = SubSeq(log, from + 1, d)
    <3> DEFINE t == SubSeq(log, from + 1, d)
    <3>1. t \in Seq(Names) /\ Len(t) = m
      BY <2>4, <2>5
    <3>2. ASSUME NEW i \in 1..m PROVE t[i] = m_seenOrder[i]
      <4>1. i \in 1..(d - (from + 1) + 1) /\ (from + 1) + i - 1 = d - m + i
        BY <2>5
      <4>2. t[i] = log[(from + 1) + i - 1]
        BY <2>4, <4>1
      <4> QED
        BY <2>3, <4>1, <4>2
    <3>3. Len(m_seenOrder) = m
      BY DEF m
    <3> HIDE DEF t
    <3>4. m_seenOrder = t
      BY <2>1, <3>1, <3>2, <3>3, SeqEqual
    <3> QED
      BY <3>4 DEF t
  <2> QED
    BY <2>1, <2>6 DEF OnceInWindow, Spaced, d, from
<1> QED
  BY <1>1, <1>2, Invariance, PTL DEF WireInv
==============================================================================
