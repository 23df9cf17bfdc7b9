---------------------------- MODULE BleMesh_proofs ----------------------------
(***************************************************************************)
(* Proofs about the flood-gossip, for any machines in any layout, any hops *)
(* a byte can carry and any size of the seen sets.                         *)
(***************************************************************************)
EXTENDS BleMesh, FiniteSetTheorems, TLAPS

USE NobodyAssumption, NumbersAssumption, StoppersAssumption

-----------------------------------------------------------------------------
\* The seen set s of a node that has heard h: the newest of it, as many as fit.
Newest(s, h) ==
  /\ Len(s) = Lesser(Len(h), SeenCap)
  /\ \A i \in 1..Len(s) : s[i] = h[Len(h) - Len(s) + i]

SeenAreNewest == \A n \in Nodes : Newest(order[n], heard[n])

\* A seen set of a node is one of its frames', and so are its timers.
IInv == GossipInv /\ waiting \in [Nodes -> SUBSET Waiting] /\ SeenAreNewest

-----------------------------------------------------------------------------
\* A frame in a history: its length, its new entry, its old ones.
LEMMA HistoryGrows ==
  ASSUME NEW h \in Seq(Ids), NEW id \in Ids
  PROVE  /\ Append(h, id) \in Seq(Ids) /\ Len(Append(h, id)) = Len(h) + 1 /\ Len(h) \in Nat
         /\ Append(h, id)[Len(h) + 1] = id
         /\ \A i \in 1..Len(h) : Append(h, id)[i] = h[i]
OBVIOUS

\* What add makes of a seen set: its length and its entries, one by one.
LEMMA AddedIs ==
  ASSUME NEW s \in Seq(Ids), Len(s) <= SeenCap, NEW id \in Ids
  PROVE  /\ Added(s, id) \in Seq(Ids)
         /\ Len(Added(s, id)) = Lesser(Len(s) + 1, SeenCap)
         /\ Added(s, id)[Len(Added(s, id))] = id
         /\ \A i \in 1..(Len(Added(s, id)) - 1) :
              Added(s, id)[i] = IF Len(s) < SeenCap THEN s[i] ELSE s[i + 1]
<1>1. Len(s) \in Nat
  OBVIOUS
<1>2. CASE Len(s) < SeenCap
  <2>1. Added(s, id) = Append(s, id) /\ Lesser(Len(s) + 1, SeenCap) = Len(s) + 1
    BY <1>1, <1>2 DEF Added, Lesser
  <2> QED
    BY <1>1, <1>2, <2>1, HistoryGrows
<1>3. CASE ~(Len(s) < SeenCap)
  <2>1. /\ Added(s, id) = Append(Tail(s), id) /\ Lesser(Len(s) + 1, SeenCap) = Len(s)
        /\ s # << >> /\ Len(s) = SeenCap
    BY <1>1, <1>3 DEF Added, Lesser
  <2>2. Tail(s) \in Seq(Ids) /\ Len(Tail(s)) = Len(s) - 1
    BY <2>1
  <2>3. \A i \in 1..(Len(s) - 1) : Tail(s)[i] = s[i + 1]
    BY <2>1
  <2> DEFINE t == Tail(s)
  <2> HIDE DEF t
  <2>4. /\ Append(t, id) \in Seq(Ids) /\ Len(Append(t, id)) = Len(t) + 1
        /\ Append(t, id)[Len(t) + 1] = id
        /\ \A i \in 1..Len(t) : Append(t, id)[i] = t[i]
    BY <2>2, HistoryGrows DEF t
  <2> QED
    BY <1>1, <1>3, <2>1, <2>2, <2>3, <2>4 DEF t
<1> QED
  BY <1>2, <1>3

\* A seen set stays the newest of what its node has heard.
LEMMA AddedKeepsNewest ==
  ASSUME NEW s \in Seq(Ids), Len(s) <= SeenCap, NEW h \in Seq(Ids), Newest(s, h), NEW id \in Ids
  PROVE  Newest(Added(s, id), Append(h, id))
<1> DEFINE t == Added(s, id)
           g == Append(h, id)
           n == Len(s)
           d == Len(h)
           m == Len(t)
<1>1. n \in Nat /\ d \in Nat /\ n = Lesser(d, SeenCap)
  BY DEF Newest
<1>2. /\ m = Lesser(n + 1, SeenCap) /\ t[m] = id
      /\ \A i \in 1..(m - 1) : t[i] = IF n < SeenCap THEN s[i] ELSE s[i + 1]
  BY AddedIs
<1>3. Len(g) = d + 1 /\ g[d + 1] = id /\ \A i \in 1..d : g[i] = h[i]
  BY HistoryGrows
<1>4. \A i \in 1..n : s[i] = h[d - n + i]
  BY DEF Newest
<1> HIDE DEF t, g, n, d, m
<1>5. m = Lesser(d + 1, SeenCap) /\ m \in Nat \ {0} /\ n <= d
  BY <1>1, <1>2 DEF Lesser
<1>6. ASSUME NEW i \in 1..m PROVE t[i] = g[(d + 1) - m + i]
  <2>1. CASE i = m
    <3>1. (d + 1) - m + i = d + 1
      BY <1>1, <1>5, <2>1
    <3> QED
      BY <1>2, <1>3, <2>1, <3>1
  <2>2. CASE i # m /\ n < SeenCap
    <3>1. m = n + 1 /\ i \in 1..n /\ (d + 1) - m + i = d - n + i /\ d - n + i \in 1..d
      BY <1>1, <1>2, <1>5, <2>2 DEF Lesser
    <3> QED
      BY <1>2, <1>3, <1>4, <2>2, <3>1
  <2>3. CASE i # m /\ ~(n < SeenCap)
    <3>1. /\ m = n /\ i \in 1..(m - 1) /\ i + 1 \in 1..n
          /\ (d + 1) - m + i = d - n + (i + 1) /\ d - n + (i + 1) \in 1..d
      BY <1>1, <1>2, <1>5, <2>3 DEF Lesser
    <3> QED
      BY <1>2, <1>3, <1>4, <2>3, <3>1
  <2> QED
    BY <2>1, <2>2, <2>3
<1> QED
  BY <1>3, <1>5, <1>6 DEF Newest, t, g, m

\* What a node has seen is what its stream remembers.
LEMMA SeenIsRecent ==
  ASSUME IInv, NEW n \in Nodes, NEW id
  PROVE  Seen(n, id) <=> id \in Stream(n)!Recent
<1> DEFINE s == order[n]
           h == heard[n]
<1>1. Len(s) \in Nat /\ Len(h) \in Nat /\ Len(s) = Lesser(Len(h), SeenCap)
  BY DEF IInv, GossipInv, TypeOK, SeenAreNewest, Newest
<1>2. \A i \in 1..Len(s) : s[i] = h[Len(h) - Len(s) + i]
  BY DEF IInv, SeenAreNewest, Newest
<1>3. id \in Stream(n)!Recent <=> \E i \in 1..Len(h) : i + SeenCap > Len(h) /\ h[i] = id
  BY DEF Stream!Recent
<1>4. Seen(n, id) <=> \E i \in 1..Len(s) : s[i] = id
  BY DEF Seen
<1> DEFINE k == Len(s)
           d == Len(h)
<1>5. k \in Nat /\ d \in Nat /\ k <= d /\ k <= SeenCap /\ (k = d \/ k = SeenCap)
  BY <1>1 DEF Lesser
<1> HIDE DEF k, d, s, h
<1>6. ASSUME NEW i \in 1..k, s[i] = id PROVE \E j \in 1..d : j + SeenCap > d /\ h[j] = id
  <2>1. d - k + i \in 1..d /\ (d - k + i) + SeenCap > d
    BY <1>5
  <2> QED
    BY <1>2, <1>6, <2>1 DEF k, d
<1>7. ASSUME NEW j \in 1..d, j + SeenCap > d, h[j] = id PROVE \E i \in 1..k : s[i] = id
  <2>1. j - (d - k) \in 1..k /\ d - k + (j - (d - k)) = j
    BY <1>5, <1>7
  <2> QED
    BY <1>2, <1>7, <2>1 DEF k, d
<1> QED
  BY <1>3, <1>4, <1>6, <1>7 DEF k, d, h

-----------------------------------------------------------------------------
\* The seen sets and the histories, of every node.
Memories ==
  /\ order \in [Nodes -> Seq(Ids)] /\ heard \in [Nodes -> Seq(Ids)]
  /\ \A n \in Nodes : Len(order[n]) <= SeenCap
  /\ SeenAreNewest

\* The frames on the timers and on the air.
Frames ==
  /\ waiting \in [Nodes -> SUBSET Waiting]
  /\ air \subseteq Copy
  /\ HopBudget

\* The rest.
Radios ==
  /\ range \in Ranges /\ m_started \in [Nodes -> BOOLEAN]
  /\ sends \in 0..MaxSends /\ impaired \in BOOLEAN

LEMMA InvIsParts == IInv <=> Memories /\ Frames /\ Radios
BY DEF IInv, GossipInv, TypeOK, Memories, Frames, Radios

\* A frame is remembered.
LEMMA Remembers ==
  ASSUME Memories, NEW n \in Nodes, NEW id \in Ids, Remember(n, id)
  PROVE  Memories'
<1>1. /\ \A p \in Nodes : order'[p] = IF p = n THEN Added(order[n], id) ELSE order[p]
      /\ \A p \in Nodes : heard'[p] = IF p = n THEN Append(heard[n], id) ELSE heard[p]
  BY DEF Remember, Memories
<1>2. order[n] \in Seq(Ids) /\ heard[n] \in Seq(Ids) /\ Len(order[n]) <= SeenCap
  BY DEF Memories
<1>3. Added(order[n], id) \in Seq(Ids) /\ Len(Added(order[n], id)) <= SeenCap
  <2>1. Len(order[n]) \in Nat
    BY <1>2
  <2>2. Len(Added(order[n], id)) = Lesser(Len(order[n]) + 1, SeenCap)
    BY <1>2, AddedIs
  <2> QED
    BY <1>2, <2>1, <2>2, AddedIs DEF Lesser
<1>4. Append(heard[n], id) \in Seq(Ids)
  BY <1>2
<1>5. Newest(Added(order[n], id), Append(heard[n], id))
  BY <1>2, AddedKeepsNewest DEF Memories, SeenAreNewest
<1>6. SeenAreNewest'
  <2> SUFFICES ASSUME NEW p \in Nodes PROVE Newest(order'[p], heard'[p])
    BY DEF SeenAreNewest, Newest
  <2> QED
    BY <1>1, <1>5 DEF Memories, SeenAreNewest
<1>7. order' \in [Nodes -> Seq(Ids)] /\ heard' \in [Nodes -> Seq(Ids)]
  BY <1>3, <1>4 DEF Remember, Memories
<1> QED
  BY <1>1, <1>3, <1>6, <1>7 DEF Memories

\* A broadcast is put on a timer, within its hops.
LEMMA Waits ==
  ASSUME Frames, NEW n \in Nodes, NEW w \in Waiting, w.hop + w.relays <= TTL, w.hop > 0,
         Later(n, w), air' \subseteq air
  PROVE  Frames'
<1>1. waiting[n] \cup {w} \in SUBSET Waiting
  BY DEF Frames
<1>2. waiting' \in [Nodes -> SUBSET Waiting]
      /\ \A p \in Nodes : waiting'[p] = IF p = n THEN waiting[n] \cup {w} ELSE waiting[p]
  BY <1>1 DEF Later, Frames
<1> QED
  BY <1>2 DEF Frames, HopBudget

\* A frame is taken up: remembered, and carried forward with one hop less.
LEMMA Hears ==
  ASSUME Memories, Frames, NEW n \in Nodes, NEW id \in Ids, NEW hop \in 0..255,
         NEW from \in Nodes \cup {Nobody}, NEW relays \in Nat,
         relays = 0 \/ hop + relays <= TTL, Hear(n, id, hop, from, relays), air' \subseteq air
  PROVE  Memories' /\ Frames'
<1>1. Memories'
  BY Remembers DEF Hear
<1>2. CASE Relayed(hop) = 0 /\ UNCHANGED waiting
  BY <1>1, <1>2 DEF Frames, HopBudget
<1>3. CASE Relayed(hop) > 0
           /\ Later(n, [id |-> id, hop |-> Relayed(hop), except |-> from, relays |-> relays + 1])
  <2> DEFINE w == [id |-> id, hop |-> Relayed(hop), except |-> from, relays |-> relays + 1]
  <2>1. Relayed(hop) \in 0..255 /\ Relayed(hop) + (relays + 1) <= TTL
    BY <1>3 DEF Relayed, Lesser
  <2>2. w \in Waiting /\ w.hop + w.relays <= TTL /\ w.hop > 0
    BY <1>3, <2>1 DEF Waiting
  <2>3. Later(n, w)
    BY <1>3
  <2> HIDE DEF w
  <2> QED
    BY <1>1, <2>2, <2>3, Waits
<1> QED
  BY <1>1, <1>2, <1>3 DEF Hear

\* A timer fires: the copies have the hops the broadcast had.
LEMMA Fires ==
  ASSUME Frames, NEW n \in Nodes, Fire(n)
  PROVE  Frames'
<1>1. PICK w \in waiting[n] :
        /\ waiting' = [waiting EXCEPT ![n] = waiting[n] \ {w}]
        /\ air' = air \cup {[from |-> n, to |-> p, id |-> w.id, hop |-> w.hop,
                             relays |-> w.relays] : p \in Peers(n) \ {w.except}}
  BY DEF Fire
<1>2. w \in Waiting /\ w.hop + w.relays <= TTL
  BY DEF Frames, HopBudget
<1>3. ASSUME NEW m \in air' PROVE m \in Copy /\ m.hop + m.relays <= TTL
  <2>1. CASE m \in air
    BY <2>1 DEF Frames, HopBudget
  <2>2. CASE m \notin air
    <3>1. PICK p \in Nodes :
            m = [from |-> n, to |-> p, id |-> w.id, hop |-> w.hop, relays |-> w.relays]
      BY <1>1, <1>3, <2>2 DEF Peers
    <3> QED
      BY <1>2, <3>1 DEF Copy, Waiting
  <2> QED
    BY <2>1, <2>2
<1>4. waiting' \in [Nodes -> SUBSET Waiting]
      /\ \A p \in Nodes : waiting'[p] \subseteq waiting[p]
  BY <1>1 DEF Frames
<1> QED
  BY <1>3, <1>4 DEF Frames, HopBudget

-----------------------------------------------------------------------------
LEMMA InitHolds == Init => IInv
<1> SUFFICES ASSUME Init PROVE Memories /\ Frames /\ Radios
  BY InvIsParts
<1>1. \A n \in Nodes : order[n] = << >> /\ heard[n] = << >>
  BY DEF Init
<1>2. Newest(<< >>, << >>)
  BY DEF Newest, Lesser
<1>3. Memories
  BY <1>1, <1>2 DEF Init, Memories, SeenAreNewest
<1>4. Frames
  BY DEF Init, Frames, HopBudget
<1>5. Radios
  <2>1. m_started \in [Nodes -> BOOLEAN]
    BY DEF Init
  <2>2. sends \in 0..MaxSends /\ range \in Ranges
    BY DEF Init
  <2>3. impaired \in BOOLEAN
    BY DEF Init
  <2> QED
    BY <2>1, <2>2, <2>3 DEF Radios
<1> QED
  BY <1>3, <1>4, <1>5

LEMMA StepHolds == IInv /\ [Next]_vars => IInv'
<1> SUFFICES ASSUME Memories, Frames, Radios, [Next]_vars PROVE Memories' /\ Frames' /\ Radios'
  BY InvIsParts DEF IInv, GossipInv, TypeOK, Memories, Frames, Radios
<1>1. UNCHANGED <<order, heard>> => Memories'
  BY DEF Memories, SeenAreNewest, Newest
<1>2. UNCHANGED waiting /\ air' \subseteq air => Frames'
  BY DEF Frames, HopBudget
<1>3. ASSUME NEW n \in Nodes, Fire(n) PROVE Memories' /\ Frames' /\ Radios'
  <2>1. impaired' \in BOOLEAN
    BY <1>3 DEF Fire, Radios
  <2>2. UNCHANGED <<range, m_started, order, heard, sends>>
    BY <1>3 DEF Fire
  <2> QED
    BY <1>1, <1>3, <2>1, <2>2, Fires DEF Radios
<1>4. ASSUME NEW n \in Nodes, Start(n) \/ Stop(n) PROVE Memories' /\ Frames' /\ Radios'
  BY <1>1, <1>2, <1>4 DEF Start, Stop, Radios
<1>5. ASSUME NEW n \in Nodes, NEW id \in Ids, Flood(n, id) PROVE Memories' /\ Frames' /\ Radios'
  <2>1. Radios' /\ air' = air
    BY <1>5 DEF Flood, Radios
  <2>2. CASE UNCHANGED <<order, heard, waiting>>
    BY <1>1, <1>2, <2>1, <2>2
  <2>3. ASSUME NEW hop \in OriginHops, Remember(n, id),
               Later(n, [id |-> id, hop |-> hop, except |-> Nobody, relays |-> 0])
        PROVE  Memories' /\ Frames'
    <3> DEFINE w == [id |-> id, hop |-> hop, except |-> Nobody, relays |-> 0]
    <3>1. hop \in 1..TTL
      BY DEF OriginHops, Lesser
    <3>2. w \in Waiting /\ w.hop + w.relays <= TTL /\ w.hop > 0
      BY <3>1 DEF Waiting
    <3>3. Later(n, w)
      BY <2>3
    <3> HIDE DEF w
    <3> QED
      BY <2>1, <2>3, <3>2, <3>3, Remembers, Waits
  <2> QED
    BY <1>5, <2>1, <2>2, <2>3 DEF Flood
<1>6. ASSUME NEW n \in Nodes, NEW id \in Ids, NEW hop \in ForeignHops, Foreign(n, id, hop)
      PROVE  Memories' /\ Frames' /\ Radios'
  <2>1. Radios' /\ air' = air /\ Hear(n, id, hop, Nobody, 0)
    BY <1>6 DEF Foreign, Radios
  <2> QED
    BY <2>1, Hears
<1>7. CASE Receive
  <2>1. PICK m \in air :
          /\ air' = air \ {m}
          /\ \/ /\ Hear(m.to, m.id, m.hop, m.from, m.relays)
                /\ UNCHANGED impaired
             \/ UNCHANGED <<order, heard, waiting, impaired>>
             \/ /\ impaired' = TRUE
                /\ UNCHANGED <<order, heard, waiting>>
          /\ UNCHANGED <<range, m_started, sends>>
    BY <1>7 DEF Receive
  <2>2. /\ m.to \in Nodes /\ m.from \in Nodes /\ m.id \in Ids /\ m.hop \in 0..255
        /\ m.relays \in Nat /\ m.hop + m.relays <= TTL
    BY DEF Frames, HopBudget, Copy
  <2>3. CASE Hear(m.to, m.id, m.hop, m.from, m.relays) /\ UNCHANGED impaired
    <3>1. Memories' /\ Frames'
      BY <2>1, <2>2, <2>3, Hears
    <3> QED
      BY <2>1, <2>3, <3>1 DEF Radios
  <2>4. CASE UNCHANGED <<order, heard, waiting>> /\ impaired' \in {impaired, TRUE}
    BY <1>1, <1>2, <2>1, <2>4 DEF Radios
  <2> QED
    BY <2>1, <2>3, <2>4
<1>8. CASE Lose
  BY <1>1, <1>2, <1>8 DEF Lose, Radios
<1>9. CASE UNCHANGED vars
  BY <1>1, <1>2, <1>9 DEF vars, Radios
<1> QED
  BY <1>3, <1>4, <1>5, <1>6, <1>7, <1>8, <1>9 DEF Next

\* The invariant of the flood, in any layout, whatever is lost or sent from outside.
THEOREM Invariance == Spec => []IInv
<1> QED
  BY InitHolds, StepHolds, PTL DEF Spec

\* No copy outlives its hops: it is relayed TTL - 1 times at most.
THEOREM FloodsAreBounded == Spec => []GossipInv
<1>1. IInv => GossipInv
  BY DEF IInv
<1> QED
  BY <1>1, Invariance, PTL

-----------------------------------------------------------------------------
\* What a node has announced, with one more frame.
LEMMA RememberIsOffer ==
  ASSUME IInv, NEW n \in Nodes, NEW id \in Ids, ~Seen(n, id), Remember(n, id)
  PROVE  \A p \in Nodes : Stream(p)!Next \/ heard'[p] = heard[p]
<1> SUFFICES ASSUME NEW p \in Nodes PROVE Stream(p)!Next \/ heard'[p] = heard[p]
  OBVIOUS
<1>1. CASE p # n
  BY <1>1 DEF Remember, IInv, GossipInv, TypeOK
<1>2. CASE p = n
  <2>1. heard[n] \in Seq(Ids) /\ heard'[n] = Append(heard[n], id)
    BY DEF Remember, IInv, GossipInv, TypeOK
  <2>2. id \notin Stream(n)!Recent
    BY SeenIsRecent
  <2> DEFINE h == heard[n]
             g == heard'[n]
  <2>3. /\ Len(g) = Len(h) + 1 /\ Len(h) \in Nat /\ g[Len(h) + 1] = id
        /\ \A i \in 1..Len(h) : g[i] = h[i]
    BY <2>1, HistoryGrows
  <2>4. {g[i] : i \in 1..Len(g)} = {h[i] : i \in 1..Len(h)} \cup {id}
    <3> DEFINE k == Len(h)
    <3>1. Len(g) = k + 1 /\ k \in Nat /\ g[k + 1] = id /\ \A i \in 1..k : g[i] = h[i]
      BY <2>3
    <3> HIDE DEF g, h, k
    <3>2. 1..(k + 1) = (1..k) \cup {k + 1}
      BY <3>1
    <3> QED
      BY <3>1, <3>2 DEF k
  <2>5. HeardBy(n)' = HeardBy(n) \cup {id}
    BY <2>4 DEF HeardBy
  <2>6. Stream(n)!Offer(id)
    BY <2>1, <2>2, <2>5 DEF Stream!Offer
  <2> QED
    BY <1>2, <2>6 DEF Stream!Next
<1> QED
  BY <1>1, <1>2

\* Every node announces as the abstract stream does: once, until SeenCap others
\* have gone by.
THEOREM NodesAreStreams == Spec => HeardAsStream
<1>1. Init => \A n \in Nodes : Stream(n)!Init
  <2> SUFFICES ASSUME Init, NEW n \in Nodes PROVE Stream(n)!Init
    OBVIOUS
  <2>1. heard[n] = << >>
    BY DEF Init
  <2>2. HeardBy(n) = {}
    BY <2>1 DEF HeardBy
  <2> QED
    BY <2>1, <2>2 DEF Stream!Init
<1>2. IInv /\ [Next]_vars => [\A n \in Nodes : Stream(n)!Next \/ heard'[n] = heard[n]]_vars
  <2> SUFFICES ASSUME IInv, Next
               PROVE  \A n \in Nodes : Stream(n)!Next \/ heard'[n] = heard[n]
    OBVIOUS
  <2>1. heard' = heard \/ \E n \in Nodes, id \in Ids : ~Seen(n, id) /\ Remember(n, id)
    <3>1. ASSUME NEW m \in air PROVE m.to \in Nodes /\ m.id \in Ids
      BY DEF IInv, GossipInv, TypeOK, Copy
    <3>2. Receive => heard' = heard \/ \E n \in Nodes, id \in Ids : ~Seen(n, id) /\ Remember(n, id)
      BY <3>1 DEF Receive, Hear
    <3> QED
      BY <3>2 DEF Next, Fire, Start, Stop, Flood, Foreign, Hear, Lose
  <2> QED
    BY <2>1, RememberIsOffer
<1> QED
  BY <1>1, <1>2, Invariance, PTL DEF Spec, HeardAsStream

-----------------------------------------------------------------------------
\* The nodes that have heard a frame.
Hearers(id) == {n \in Nodes : id \in HeardBy(n)}

\* No node has heard more frames than its seen set holds.
AllRemembered == \A n \in Nodes : Len(heard[n]) <= SeenCap

\* A copy was relayed by nodes that have all heard it, a new one each time; it lost a
\* hop with each, and will not go back to the node it came from.
CopiesKnown ==
  /\ \A m \in air :
       /\ m.hop + m.relays + 1 >= Cardinality(Nodes)
       /\ m.from \in Hearers(m.id)
       /\ m.relays < Cardinality(Hearers(m.id))
  /\ \A n \in Nodes : \A w \in waiting[n] :
       /\ w.hop + w.relays + 1 >= Cardinality(Nodes)
       /\ n \in Hearers(w.id) /\ w.except \in Hearers(w.id) \cup {Nobody}
       /\ w.relays < Cardinality(Hearers(w.id))

\* A neighbour of a node that has heard a frame has heard it, or will: from a copy in
\* the air, or from that node's timer.
PassedOn ==
  \A id \in Ids : \A n \in Hearers(id), p \in Nodes : <<n, p>> \in range =>
    \/ Hearers(id) = Nodes
    \/ p \in Hearers(id)
    \/ \E m \in air : m.to = p /\ m.id = id
    \/ \E w \in waiting[n] : w.id = id

Coverage == AllRemembered /\ ~impaired => CopiesKnown /\ PassedOn

\* A node that forgets nothing has seen what it has heard.
LEMMA SeenIsHeard ==
  ASSUME IInv, AllRemembered, NEW n \in Nodes, NEW id
  PROVE  Seen(n, id) <=> n \in Hearers(id)
<1>1. /\ Len(order[n]) \in Nat /\ Len(heard[n]) \in Nat /\ Len(heard[n]) <= SeenCap
      /\ Len(order[n]) = Lesser(Len(heard[n]), SeenCap)
      /\ \A i \in 1..Len(order[n]) : order[n][i] = heard[n][Len(heard[n]) - Len(order[n]) + i]
  BY DEF IInv, GossipInv, TypeOK, SeenAreNewest, Newest, AllRemembered
<1> DEFINE d == Len(heard[n])
<1>2. Len(order[n]) = d /\ \A i \in 1..d : d - d + i = i
  BY <1>1 DEF Lesser
<1>3. \A i \in 1..d : order[n][i] = heard[n][i]
  BY <1>1, <1>2
<1>4. n \in Hearers(id) <=> \E i \in 1..d : heard[n][i] = id
  BY DEF Hearers, HeardBy
<1> QED
  BY <1>2, <1>3, <1>4 DEF Seen

\* A node hears a frame: it and no other is among those that have heard this one.
LEMMA HearersGrow ==
  ASSUME IInv, NEW n \in Nodes, NEW id \in Ids, Remember(n, id)
  PROVE  /\ Hearers(id)' = Hearers(id) \cup {n}
         /\ \A j : j # id => Hearers(j)' = Hearers(j)
         /\ AllRemembered' => AllRemembered
<1>1. /\ heard' = [heard EXCEPT ![n] = Append(heard[n], id)] /\ heard \in [Nodes -> Seq(Ids)]
  BY DEF Remember, IInv, GossipInv, TypeOK
<1>2. /\ heard[n] \in Seq(Ids)
      /\ \A p \in Nodes : heard'[p] = IF p = n THEN Append(heard[n], id) ELSE heard[p]
      /\ heard'[n] = Append(heard[n], id)
  BY <1>1
<1> DEFINE h == heard[n]
           g == heard'[n]
           k == Len(h)
<1>3. Len(g) = k + 1 /\ k \in Nat /\ g[k + 1] = id /\ \A i \in 1..k : g[i] = h[i]
  BY <1>2, HistoryGrows
<1>4. ASSUME NEW j PROVE (\E i \in 1..Len(g) : g[i] = j) <=> (\E i \in 1..k : h[i] = j) \/ j = id
  <2> HIDE DEF g, h, k
  <2>1. 1..(k + 1) = (1..k) \cup {k + 1}
    BY <1>3
  <2> QED
    BY <1>3, <2>1
<1>5. ASSUME NEW j PROVE j \in HeardBy(n)' <=> j \in HeardBy(n) \/ j = id
  <2>1. /\ j \in HeardBy(n)' <=> \E i \in 1..Len(g) : g[i] = j
        /\ j \in HeardBy(n) <=> \E i \in 1..k : h[i] = j
    BY DEF HeardBy
  <2> QED
    BY <1>4, <2>1
<1>6. ASSUME NEW j, NEW p \in Nodes, p # n PROVE j \in HeardBy(p)' <=> j \in HeardBy(p)
  BY <1>2, <1>6 DEF HeardBy
<1>7. ASSUME NEW j PROVE Hearers(j)' = Hearers(j) \cup (IF j = id THEN {n} ELSE {})
  BY <1>5, <1>6 DEF Hearers
<1>8. AllRemembered' => AllRemembered
  <2> SUFFICES ASSUME AllRemembered', NEW p \in Nodes PROVE Len(heard[p]) <= SeenCap
    BY DEF AllRemembered
  <2>1. Len(heard'[p]) <= SeenCap
    BY DEF AllRemembered
  <2>2. CASE p = n
    <3>1. k + 1 <= SeenCap /\ k \in Nat
      BY <1>3, <2>1, <2>2
    <3> HIDE DEF k
    <3>2. k <= SeenCap
      BY <3>1
    <3> QED
      BY <2>2, <3>2 DEF k
  <2> QED
    BY <1>2, <2>1, <2>2
<1> QED
  BY <1>7, <1>8

\* A node takes up a frame it had not heard, and carries it forward unless all have
\* heard it now: what was on its way to that node has arrived.
LEMMA TakesUp ==
  ASSUME IInv, IsFiniteSet(Nodes), CopiesKnown, PassedOn,
         NEW n \in Nodes, NEW id \in Ids, Remember(n, id), n \notin Hearers(id),
         air' \subseteq air, \A m \in air \ air' : m.to = n /\ m.id = id, range' = range,
         \/ /\ UNCHANGED waiting
            /\ Hearers(id) \cup {n} = Nodes
         \/ \E w \in Waiting :
              /\ Later(n, w) /\ w.id = id
              /\ w.hop + w.relays + 1 >= Cardinality(Nodes)
              /\ w.except \in Hearers(id) \cup {Nobody}
              /\ w.relays < Cardinality(Hearers(id) \cup {n})
  PROVE  CopiesKnown' /\ PassedOn'
<1>1. /\ Hearers(id)' = Hearers(id) \cup {n}
      /\ \A j : j # id => Hearers(j)' = Hearers(j)
  BY HearersGrow
<1>2. \A j : Hearers(j) \subseteq Hearers(j)'
  BY <1>1
<1>3. ASSUME NEW j PROVE /\ Hearers(j) \subseteq Nodes /\ IsFiniteSet(Hearers(j))
                         /\ Cardinality(Hearers(j)) \in Nat /\ Cardinality(Hearers(j)') \in Nat
                         /\ Cardinality(Hearers(j)) <= Cardinality(Hearers(j)')
  <2>1. Hearers(j) \subseteq Nodes /\ Hearers(j)' \subseteq Nodes
    BY DEF Hearers
  <2>2. IsFiniteSet(Hearers(j)) /\ IsFiniteSet(Hearers(j)')
    BY <2>1, FS_Subset
  <2> QED
    BY <1>2, <2>1, <2>2, FS_Subset, FS_CardinalityType
<1>4. ASSUME NEW p \in Nodes
      PROVE  /\ waiting[p] \subseteq waiting'[p] /\ waiting'[p] \subseteq Waiting
             /\ p # n => waiting'[p] = waiting[p]
             /\ \A w \in waiting'[n] \ waiting[n] :
                  /\ w.id = id /\ w.hop + w.relays + 1 >= Cardinality(Nodes)
                  /\ w.except \in Hearers(id) \cup {Nobody}
                  /\ w.relays < Cardinality(Hearers(id) \cup {n})
             /\ Hearers(id) \cup {n} = Nodes \/ \E w \in waiting'[n] : w.id = id
  <2>1. waiting \in [Nodes -> SUBSET Waiting]
    BY DEF IInv
  <2>2. CASE UNCHANGED waiting /\ Hearers(id) \cup {n} = Nodes
    BY <2>1, <2>2
  <2>3. ASSUME NEW w \in Waiting, waiting' = [waiting EXCEPT ![n] = waiting[n] \cup {w}],
               w.id = id, w.hop + w.relays + 1 >= Cardinality(Nodes),
               w.except \in Hearers(id) \cup {Nobody},
               w.relays < Cardinality(Hearers(id) \cup {n})
        PROVE  /\ waiting[p] \subseteq waiting'[p] /\ waiting'[p] \subseteq Waiting
               /\ p # n => waiting'[p] = waiting[p]
               /\ \A v \in waiting'[n] \ waiting[n] : v = w
               /\ w \in waiting'[n]
    <3>1. \A q \in Nodes : waiting'[q] = IF q = n THEN waiting[n] \cup {w} ELSE waiting[q]
      BY <2>1, <2>3
    <3> QED
      BY <2>1, <2>3, <3>1
  <2> QED
    BY <2>2, <2>3 DEF Later
<1>5. ASSUME NEW m \in air'
      PROVE  /\ m.hop + m.relays + 1 >= Cardinality(Nodes)
             /\ m.from \in Hearers(m.id)'
             /\ m.relays < Cardinality(Hearers(m.id)')
  <2>1. m \in air /\ m.relays \in Nat
    BY <1>5 DEF IInv, GossipInv, TypeOK, Copy
  <2> QED
    BY <1>2, <1>3, <2>1 DEF CopiesKnown
<1>6. ASSUME NEW p \in Nodes, NEW w \in waiting'[p]
      PROVE  /\ w.hop + w.relays + 1 >= Cardinality(Nodes)
             /\ p \in Hearers(w.id)' /\ w.except \in Hearers(w.id)' \cup {Nobody}
             /\ w.relays < Cardinality(Hearers(w.id)')
  <2>1. CASE w \in waiting[p]
    <3>1. w.relays \in Nat
      BY <2>1 DEF IInv, Waiting
    <3>2. Cardinality(Hearers(w.id)) \in Nat /\ Cardinality(Hearers(w.id)') \in Nat
          /\ Cardinality(Hearers(w.id)) <= Cardinality(Hearers(w.id)')
      BY <1>3
    <3>3. w.relays < Cardinality(Hearers(w.id))
      BY <2>1 DEF CopiesKnown
    <3>4. w.relays < Cardinality(Hearers(w.id)')
      BY <3>1, <3>2, <3>3
    <3> QED
      BY <1>2, <2>1, <3>4 DEF CopiesKnown
  <2>2. CASE w \notin waiting[p]
    <3>1. p = n
      BY <1>4, <1>6, <2>2
    <3> QED
      BY <1>1, <1>4, <1>6, <2>2, <3>1
  <2> QED
    BY <2>1, <2>2
<1>7. ASSUME NEW j \in Ids, NEW q \in Hearers(j)', NEW p \in Nodes, <<q, p>> \in range
      PROVE  \/ Hearers(j)' = Nodes
             \/ p \in Hearers(j)'
             \/ \E m \in air' : m.to = p /\ m.id = j
             \/ \E w \in waiting'[q] : w.id = j
  <2>0. Hearers(j)' \subseteq Nodes
    BY DEF Hearers
  <2>1. CASE q \in Hearers(j)
    <3>1. q \in Nodes
      BY <1>3, <2>1
    <3>2. \/ Hearers(j) = Nodes
          \/ p \in Hearers(j)
          \/ \E m \in air : m.to = p /\ m.id = j
          \/ \E w \in waiting[q] : w.id = j
      BY <1>7, <2>1 DEF PassedOn
    <3>3. ASSUME NEW m \in air, m.to = p, m.id = j
          PROVE  p \in Hearers(j)' \/ \E k \in air' : k.to = p /\ k.id = j
      BY <1>1, <3>3
    <3>4. (\E w \in waiting[q] : w.id = j) => \E w \in waiting'[q] : w.id = j
      BY <1>4, <3>1
    <3> QED
      BY <1>2, <2>0, <3>2, <3>3, <3>4
  <2>2. CASE q \notin Hearers(j)
    <3>1. q = n /\ j = id
      BY <1>1, <1>7, <2>2
    <3> QED
      BY <1>1, <1>4, <3>1
  <2> QED
    BY <2>1, <2>2
<1>8. CopiesKnown'
  BY <1>5, <1>6 DEF CopiesKnown
<1>9. PassedOn'
  <2> SUFFICES ASSUME NEW j \in Ids, NEW q \in Hearers(j)', NEW p \in Nodes, <<q, p>> \in range'
               PROVE  \/ Hearers(j)' = Nodes
                      \/ p \in Hearers(j)'
                      \/ \E m \in air' : m.to = p /\ m.id = j
                      \/ \E w \in waiting'[q] : w.id = j
    BY DEF PassedOn
  <2> QED
    BY <1>7
<1> QED
  BY <1>8, <1>9

\* A timer fires with no peer out of reach: every neighbour has a copy on its way but
\* the one the frame came from, which has heard it.
LEMMA FiresAll ==
  ASSUME IInv, CopiesKnown, PassedOn, NEW n \in Nodes, Fire(n), ~impaired'
  PROVE  CopiesKnown' /\ PassedOn'
<1>1. PICK w \in waiting[n] :
        /\ waiting' = [waiting EXCEPT ![n] = waiting[n] \ {w}]
        /\ air' = air \cup {[from |-> n, to |-> p, id |-> w.id, hop |-> w.hop,
                             relays |-> w.relays] : p \in Peers(n) \ {w.except}}
        /\ impaired' = (impaired \/ Peers(n) # InRange(n))
        /\ UNCHANGED <<range, heard>>
  BY DEF Fire
<1>2. Peers(n) = InRange(n)
  BY <1>1
<1>3. \A j : Hearers(j)' = Hearers(j)
  BY <1>1 DEF Hearers, HeardBy
<1>4. /\ w.hop + w.relays + 1 >= Cardinality(Nodes)
      /\ n \in Hearers(w.id) /\ w.except \in Hearers(w.id) \cup {Nobody}
      /\ w.relays < Cardinality(Hearers(w.id))
  BY DEF CopiesKnown
<1>5. \A p \in Nodes : /\ waiting'[p] \subseteq waiting[p]
                       /\ p # n => waiting'[p] = waiting[p]
                       /\ \A v \in waiting[p] : v \in waiting'[p] \/ (p = n /\ v = w)
  BY <1>1 DEF IInv
<1>6. ASSUME NEW m \in air'
      PROVE  /\ m.hop + m.relays + 1 >= Cardinality(Nodes)
             /\ m.from \in Hearers(m.id)'
             /\ m.relays < Cardinality(Hearers(m.id)')
  <2>1. CASE m \in air
    BY <1>3, <2>1 DEF CopiesKnown
  <2>2. CASE m \notin air
    <3>1. PICK p \in Nodes :
            m = [from |-> n, to |-> p, id |-> w.id, hop |-> w.hop, relays |-> w.relays]
      BY <1>1, <1>6, <2>2 DEF Peers
    <3> QED
      BY <1>3, <1>4, <3>1
  <2> QED
    BY <2>1, <2>2
<1>7. CopiesKnown'
  BY <1>3, <1>5, <1>6 DEF CopiesKnown
<1>8. ASSUME NEW j \in Ids, NEW q \in Hearers(j), NEW p \in Nodes, <<q, p>> \in range
      PROVE  \/ Hearers(j) = Nodes
             \/ p \in Hearers(j)
             \/ \E m \in air' : m.to = p /\ m.id = j
             \/ \E v \in waiting'[q] : v.id = j
  <2>1. q \in Nodes
    BY DEF Hearers
  <2>2. ASSUME NEW v \in waiting[q], v.id = j, v \notin waiting'[q]
        PROVE  p \in Hearers(j) \/ \E m \in air' : m.to = p /\ m.id = j
    <3>1. q = n /\ w.id = j
      BY <1>5, <2>1, <2>2
    <3>2. CASE p = w.except
      BY <1>4, <3>1, <3>2
    <3>3. CASE p # w.except
      <4> DEFINE m == [from |-> n, to |-> p, id |-> w.id, hop |-> w.hop, relays |-> w.relays]
      <4>1. p \in Peers(n) \ {w.except}
        BY <1>2, <1>8, <3>1, <3>3 DEF InRange
      <4>2. m \in air' /\ m.to = p /\ m.id = j
        BY <1>1, <3>1, <4>1
      <4> QED
        BY <4>2
    <3> QED
      BY <3>2, <3>3
  <2>3. \/ Hearers(j) = Nodes
        \/ p \in Hearers(j)
        \/ \E m \in air : m.to = p /\ m.id = j
        \/ \E v \in waiting[q] : v.id = j
    BY <1>8 DEF PassedOn
  <2> QED
    BY <1>1, <2>2, <2>3
<1>9. PassedOn'
  <2> SUFFICES ASSUME NEW j \in Ids, NEW q \in Hearers(j)', NEW p \in Nodes, <<q, p>> \in range'
               PROVE  \/ Hearers(j)' = Nodes
                      \/ p \in Hearers(j)'
                      \/ \E m \in air' : m.to = p /\ m.id = j
                      \/ \E v \in waiting'[q] : v.id = j
    BY DEF PassedOn
  <2>1. range' = range
    BY <1>1
  <2> QED
    BY <1>3, <1>8, <2>1
<1> QED
  BY <1>7, <1>9

\* Nothing is heard and no frame moves.
LEMMA NothingHeard ==
  ASSUME CopiesKnown, PassedOn, UNCHANGED <<range, waiting, air, heard>>
  PROVE  CopiesKnown' /\ PassedOn'
<1>1. \A j : Hearers(j)' = Hearers(j)
  BY DEF Hearers, HeardBy
<1>2. CopiesKnown'
  BY <1>1 DEF CopiesKnown
<1>3. PassedOn'
  BY <1>1 DEF PassedOn
<1> QED
  BY <1>2, <1>3

LEMMA CoverageStep ==
  ASSUME Reaches, IInv, Coverage, [Next]_vars
  PROVE  Coverage'
<1>0. IsFiniteSet(Nodes) /\ \A hop \in OriginHops : hop + 1 >= Cardinality(Nodes)
  BY DEF Reaches
<1>1. UNCHANGED heard => (AllRemembered' => AllRemembered)
  BY DEF AllRemembered
<1>2. ASSUME AllRemembered, ~impaired PROVE CopiesKnown /\ PassedOn
  BY <1>2 DEF Coverage
<1>3. ASSUME NEW n \in Nodes, Fire(n) PROVE Coverage'
  <2>1. UNCHANGED heard /\ (impaired => impaired')
    BY <1>3 DEF Fire
  <2> QED
    BY <1>1, <1>2, <1>3, <2>1, FiresAll DEF Coverage
<1>4. ASSUME NEW n \in Nodes, Start(n) \/ Stop(n) PROVE Coverage'
  <2>1. UNCHANGED <<range, waiting, air, heard, impaired>>
    BY <1>4 DEF Start, Stop
  <2> QED
    BY <1>1, <1>2, <2>1, NothingHeard DEF Coverage
<1>5. ASSUME NEW n \in Nodes, NEW id \in Ids, Flood(n, id) PROVE Coverage'
  <2>1. UNCHANGED <<range, air, impaired>>
    BY <1>5 DEF Flood
  <2>2. CASE UNCHANGED <<heard, waiting>>
    BY <1>1, <1>2, <2>1, <2>2, NothingHeard DEF Coverage
  <2>3. ASSUME ~Seen(n, id), Remember(n, id), NEW hop \in OriginHops,
               Later(n, [id |-> id, hop |-> hop, except |-> Nobody, relays |-> 0])
        PROVE  Coverage'
    <3> SUFFICES ASSUME AllRemembered', ~impaired' PROVE CopiesKnown' /\ PassedOn'
      BY DEF Coverage
    <3>1. AllRemembered /\ CopiesKnown /\ PassedOn
      BY <1>2, <2>1, <2>3, HearersGrow
    <3>2. n \notin Hearers(id)
      BY <2>3, <3>1, SeenIsHeard
    <3> DEFINE w == [id |-> id, hop |-> hop, except |-> Nobody, relays |-> 0]
    <3>3. hop \in 1..TTL
      BY DEF OriginHops, Lesser
    <3>4. w \in Waiting /\ w.id = id /\ w.except = Nobody
          /\ w.hop + w.relays + 1 >= Cardinality(Nodes)
      <4>1. hop + 0 + 1 = hop + 1 /\ hop \in 0..255
        BY <3>3
      <4> QED
        BY <1>0, <4>1 DEF Waiting
    <3>5. w.relays < Cardinality(Hearers(id) \cup {n})
      <4>1. Hearers(id) \subseteq Nodes /\ IsFiniteSet(Hearers(id) \cup {n})
        BY <1>0, FS_Subset DEF Hearers
      <4>2. Cardinality(Hearers(id) \cup {n}) \in Nat /\ Cardinality(Hearers(id) \cup {n}) # 0
        BY <4>1, FS_CardinalityType, FS_EmptySet
      <4> QED
        BY <4>2
    <3>6. Later(n, w)
      BY <2>3
    <3> HIDE DEF w
    <3> QED
      BY <1>0, <2>1, <2>3, <3>1, <3>2, <3>4, <3>5, <3>6, TakesUp
  <2> QED
    BY <1>5, <2>2, <2>3 DEF Flood
<1>6. ASSUME NEW n \in Nodes, NEW id \in Ids, NEW hop \in ForeignHops, Foreign(n, id, hop)
      PROVE  Coverage'
  BY <1>6 DEF Foreign, Coverage
<1>7. CASE Lose
  BY <1>7 DEF Lose, Coverage
<1>8. CASE Receive
  <2>1. PICK m \in air :
          /\ air' = air \ {m}
          /\ \/ /\ Hear(m.to, m.id, m.hop, m.from, m.relays)
                /\ UNCHANGED impaired
             \/ /\ Seen(m.to, m.id)
                /\ UNCHANGED <<heard, waiting, impaired>>
             \/ impaired' = TRUE
          /\ UNCHANGED range
    BY <1>8 DEF Receive
  <2>2. /\ m.to \in Nodes /\ m.from \in Nodes /\ m.id \in Ids /\ m.hop \in 0..255
        /\ m.relays \in Nat /\ m.hop + m.relays <= TTL
    BY DEF IInv, GossipInv, TypeOK, HopBudget, Copy
  <2>3. CASE impaired' = TRUE
    BY <2>3 DEF Coverage
  <2>4. CASE Seen(m.to, m.id) /\ UNCHANGED <<heard, waiting, impaired>>
    <3> SUFFICES ASSUME AllRemembered', ~impaired' PROVE CopiesKnown' /\ PassedOn'
      BY DEF Coverage
    <3>1. AllRemembered /\ CopiesKnown /\ PassedOn
      BY <1>1, <1>2, <2>4
    <3>2. m.to \in Hearers(m.id) /\ \A j : Hearers(j)' = Hearers(j)
      BY <2>2, <2>4, <3>1, SeenIsHeard DEF Hearers, HeardBy
    <3>3. CopiesKnown'
      BY <2>1, <2>4, <3>1, <3>2 DEF CopiesKnown
    <3>4. PassedOn'
      BY <2>1, <2>4, <3>1, <3>2 DEF PassedOn
    <3> QED
      BY <3>3, <3>4
  <2>5. CASE Hear(m.to, m.id, m.hop, m.from, m.relays) /\ UNCHANGED impaired
    <3> SUFFICES ASSUME AllRemembered', ~impaired' PROVE CopiesKnown' /\ PassedOn'
      BY DEF Coverage
    <3> DEFINE n == m.to
               H == Hearers(m.id)
               w == [id |-> m.id, hop |-> Relayed(m.hop), except |-> m.from,
                     relays |-> m.relays + 1]
    <3>1. Remember(n, m.id) /\ ~Seen(n, m.id)
          /\ \/ Relayed(m.hop) = 0 /\ UNCHANGED waiting
             \/ Relayed(m.hop) > 0 /\ Later(n, w)
      BY <2>5 DEF Hear
    <3>2. AllRemembered /\ CopiesKnown /\ PassedOn
      BY <1>2, <2>2, <2>5, <3>1, HearersGrow
    <3>3. n \notin H
      BY <2>2, <3>1, <3>2, SeenIsHeard
    <3>4. /\ m.hop + m.relays + 1 >= Cardinality(Nodes)
          /\ m.from \in H /\ m.relays < Cardinality(H)
      BY <3>2 DEF CopiesKnown
    <3>5. /\ IsFiniteSet(H) /\ H \cup {n} \subseteq Nodes
          /\ Cardinality(H) \in Nat /\ Cardinality(Nodes) \in Nat
          /\ Cardinality(H \cup {n}) = Cardinality(H) + 1
      <4>1. H \subseteq Nodes /\ H \cup {n} \subseteq Nodes
        BY <2>2 DEF Hearers
      <4>2. IsFiniteSet(H)
        BY <1>0, <4>1, FS_Subset
      <4> QED
        BY <1>0, <3>3, <4>1, <4>2, FS_AddElement, FS_CardinalityType
    <3>6. CASE Relayed(m.hop) = 0 /\ UNCHANGED waiting
      <4>1. m.hop <= 1
        BY <2>2, <3>6 DEF Relayed, Lesser
      <4>2. Cardinality(Nodes) <= Cardinality(H \cup {n})
        <5> DEFINE c == Cardinality(H)
                   d == Cardinality(Nodes)
                   e == Cardinality(H \cup {n})
        <5>1. c \in Nat /\ d \in Nat /\ e = c + 1 /\ m.relays < c /\ m.hop + m.relays + 1 >= d
          BY <3>4, <3>5
        <5> HIDE DEF c, d, e
        <5>2. d <= e
          BY <2>2, <4>1, <5>1
        <5> QED
          BY <5>2 DEF d, e
      <4>3. H \cup {n} = Nodes
        <5>1. Cardinality(H \cup {n}) <= Cardinality(Nodes)
          BY <1>0, <3>5, FS_Subset
        <5>2. Cardinality(H \cup {n}) = Cardinality(Nodes)
          BY <3>5, <4>2, <5>1
        <5> QED
          BY <1>0, <3>5, <5>2, FS_Subset
      <4> QED
        BY <1>0, <2>1, <2>2, <3>1, <3>2, <3>3, <3>6, <4>3, TakesUp
    <3>7. CASE Relayed(m.hop) > 0 /\ Later(n, w)
      <4>1. m.hop > 1 /\ m.hop <= TTL /\ Relayed(m.hop) = m.hop - 1
        <5>1. m.hop > 1 /\ Relayed(m.hop) = Lesser(m.hop, TTL) - 1
          BY <2>2, <3>7 DEF Relayed
        <5>2. m.hop <= TTL /\ TTL \in Nat
          <6>1. \A a, b \in Nat : a + b <= TTL => a <= TTL
            OBVIOUS
          <6>2. m.hop \in Nat /\ m.relays \in Nat /\ m.hop + m.relays <= TTL
            BY <2>2
          <6> QED
            BY <6>1, <6>2
        <5> QED
          BY <2>2, <5>1, <5>2 DEF Lesser
      <4>2. w \in Waiting /\ w.id = m.id /\ w.except = m.from
            /\ w.hop = m.hop - 1 /\ w.relays = m.relays + 1
        BY <2>2, <4>1 DEF Waiting
      <4> HIDE DEF w
      <4>3. w.hop + w.relays + 1 = m.hop + m.relays + 1
        BY <2>2, <4>1, <4>2
      <4>4. w.hop + w.relays + 1 >= Cardinality(Nodes)
        BY <3>4, <4>3
      <4>5. w.relays < Cardinality(H \cup {n})
        BY <2>2, <3>4, <3>5, <4>2
      <4> QED
        BY <1>0, <2>1, <2>2, <3>1, <3>2, <3>3, <3>4, <3>7, <4>2, <4>4, <4>5, TakesUp
    <3> QED
      BY <3>1, <3>6, <3>7
  <2> QED
    BY <2>1, <2>3, <2>4, <2>5
<1>9. CASE UNCHANGED vars
  BY <1>1, <1>2, <1>9, NothingHeard DEF vars, Coverage
<1> QED
  BY <1>3, <1>4, <1>5, <1>6, <1>7, <1>8, <1>9 DEF Next

\* A frame whose flood is over, and that lost no copy, has been heard by all or none.
LEMMA QuietIsEverywhere ==
  ASSUME Reaches, IInv, AllRemembered, Coverage
  PROVE  FloodReached
<1> SUFFICES ASSUME Quiet, ~impaired
             PROVE  \A n, p \in Nodes : HeardBy(n) \subseteq HeardBy(p)
  <2>1. (\A n, p \in Nodes : HeardBy(n) \subseteq HeardBy(p))
          => \A n, p \in Nodes : HeardBy(n) = HeardBy(p)
    OBVIOUS
  <2> QED
    BY <2>1 DEF FloodReached
<1> SUFFICES ASSUME NEW n \in Nodes, NEW p \in Nodes, NEW id \in HeardBy(n)
             PROVE  id \in HeardBy(p)
  OBVIOUS
<1>1. id \in Ids /\ n \in Hearers(id) /\ Hearers(id) \subseteq Nodes
  BY DEF Hearers, HeardBy, IInv, GossipInv, TypeOK
<1>2. \A q \in Hearers(id), r \in Nodes : <<q, r>> \in range =>
        Hearers(id) = Nodes \/ r \in Hearers(id)
  BY <1>1 DEF Quiet, Coverage, PassedOn
<1>3. range \in Ranges
  BY DEF IInv, GossipInv, TypeOK
<1>4. Hearers(id) = Nodes
  <2> SUFFICES ASSUME Hearers(id) # Nodes PROVE FALSE
    OBVIOUS
  <2>1. \E q \in Hearers(id), r \in Nodes \ Hearers(id) : <<q, r>> \in range
    BY <1>1, <1>3 DEF Reaches
  <2> QED
    BY <1>2, <2>1
<1> QED
  BY <1>4 DEF Hearers

\* A flood gets to every node of any layout that holds together, if frames start with
\* hops enough for a way through all nodes, while no node has heard more frames than
\* it remembers: a copy that came the long way never keeps a shorter one from going on.
THEOREM FloodsReach == Reaches => (Spec => [](AllRemembered => FloodReached))
<1> SUFFICES ASSUME Reaches PROVE Spec => [](AllRemembered => FloodReached)
  OBVIOUS
<1>1. Init => Coverage
  BY DEF Init, Coverage, CopiesKnown, PassedOn, Hearers, HeardBy
<1>2. IInv /\ Coverage /\ [Next]_vars => Coverage'
  BY CoverageStep
<1>3. IInv /\ Coverage => (AllRemembered => FloodReached)
  BY QuietIsEverywhere
<1> QED
  BY <1>1, <1>2, <1>3, Invariance, PTL DEF Spec
==============================================================================
