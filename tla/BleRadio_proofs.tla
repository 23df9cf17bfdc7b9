---------------------------- MODULE BleRadio_proofs ----------------------------
(***************************************************************************)
(* Proofs about the Bluetooth radio, for any devices in range, any sizes   *)
(* of messages, any width of the header's fields and any number of links.  *)
(***************************************************************************)
EXTENDS BleRadio, FiniteSetTheorems, TLAPS

USE AddressAssumption, NameAssumption, WidthAssumption

-----------------------------------------------------------------------------
LinkStages == {"dialled", "ready", "useless", "closing", "failing", "gone"}

LinkRecords == [addr : Higher, stage : LinkStages, ready : BOOLEAN,
                nodeId : NodeIds \cup {NoId}, queued : Nat, writing : BOOLEAN, nudges : Nat]

\* The links, and the maps that lead to them: an address to the link dialled there.
LinksOK ==
  /\ m_started \in BOOLEAN
  /\ link \in Seq(LinkRecords)
  /\ m_links \in [Addrs -> 0..Len(link)]
  /\ m_nodeToAddr \in [NodeIds -> Addrs \cup {NoAddr}]
  /\ \A a \in Addrs : m_links[a] # 0 => link[m_links[a]].addr = a
  /\ work \in 0..MaxWork

\* Of two links that bear the same name, the device is the same.
OneAddress ==
  moved \/ \A i, j \in Links :
    link[i].nodeId = link[j].nodeId /\ link[i].nodeId # NoId => link[i].addr = link[j].addr

LiveStages == {"dialled", "ready", "useless"}

\* A write under way has a timer, and of the links in use only one in stage "ready"
\* has been ready.
Clocked(k) ==
  /\ k.writing => k.nudges > 0
  /\ k.ready /\ k.stage \in LiveStages => k.stage = "ready"

\* The queue of a link in use can be written, and has a timer.
Moving(k) == k.stage \in LiveStages /\ k.queued > 0 => k.ready /\ k.nudges > 0

AllClocked == \A l \in Links : Clocked(link[l])
AllMoving == moved \/ late \/ \A l \in Links : Moving(link[l])

LinkIInv == LinksOK /\ LiveIsListed /\ OneAddress /\ RoutesAgree /\ AllClocked /\ AllMoving

-----------------------------------------------------------------------------
\* Writing from a queue leaves the link what it was, with a timer for the write,
\* and on a link that is ready one for the rest.
LEMMA DrainedKeeps ==
  ASSUME NEW k \in LinkRecords, Clocked(k), NEW valid \in ValidOf(k)
  PROVE  /\ Drained(k, valid) \in LinkRecords /\ Clocked(Drained(k, valid))
         /\ Drained(k, valid).addr = k.addr /\ Drained(k, valid).stage = k.stage
         /\ Drained(k, valid).nodeId = k.nodeId
         /\ k.ready => Moving(Drained(k, valid))
         /\ Moving(k) => Moving(Drained(k, valid))
<1>1. CASE Idle(k, valid)
  <2>1. Drained(k, valid) = k
    BY <1>1 DEF Drained
  <2>2. ASSUME k.ready, k.stage \in LiveStages, k.queued > 0 PROVE k.nudges > 0
    <3>1. valid = TRUE
      BY <2>2 DEF Clocked, ValidOf
    <3> QED
      BY <1>1, <2>2, <3>1 DEF Idle, Clocked
  <2> QED
    BY <2>1, <2>2 DEF Moving
<1>2. CASE ~Idle(k, valid)
  <2> DEFINE d == [k EXCEPT !.queued = @ - 1, !.writing = TRUE, !.nudges = @ + 1]
  <2>1. /\ d \in LinkRecords /\ d.nudges > 0 /\ d.ready = k.ready /\ k.ready
        /\ d.addr = k.addr /\ d.stage = k.stage /\ d.nodeId = k.nodeId
    <3>1. k.queued - 1 \in Nat /\ k.nudges + 1 \in Nat /\ k.nudges + 1 > 0 /\ k.ready
      BY <1>2 DEF LinkRecords, Idle
    <3> QED
      BY <3>1 DEF LinkRecords
  <2>2. Drained(k, valid) = d
    BY <1>2 DEF Drained
  <2> HIDE DEF d
  <2> QED
    BY <2>1, <2>2 DEF Clocked, Moving
<1> QED
  BY <1>1, <1>2

\* A link that changes in its queue only, and keeps its clock, disturbs nothing.
LEMMA QueueStep ==
  ASSUME LinkIInv, NEW l \in Links, NEW k \in LinkRecords, Clocked(k),
         moved \/ late \/ Moving(k),
         k.addr = link[l].addr, k.stage = link[l].stage, k.nodeId = link[l].nodeId,
         link' = [link EXCEPT ![l] = k],
         UNCHANGED <<m_started, m_links, m_nodeToAddr, moved, late>>, work' \in 0..MaxWork
  PROVE  LinkIInv'
<1>1. /\ link' \in Seq(LinkRecords) /\ Links' = Links /\ Len(link') = Len(link)
      /\ \A i \in Links : link'[i] = IF i = l THEN k ELSE link[i]
  BY DEF LinkIInv, LinksOK, Links
<1>2. \A i \in Links : /\ link'[i].addr = link[i].addr /\ link'[i].stage = link[i].stage
                       /\ link'[i].nodeId = link[i].nodeId
  BY <1>1
<1>3. \A a \in Addrs : m_links[a] # 0 => m_links[a] \in Links
  BY DEF LinkIInv, LinksOK, Links
<1>4. LinksOK'
  BY <1>1, <1>2, <1>3 DEF LinkIInv, LinksOK
<1>5. LiveIsListed'
  BY <1>1, <1>2 DEF LinkIInv, LiveIsListed, Live
<1>6. OneAddress'
  BY <1>1, <1>2 DEF LinkIInv, OneAddress
<1>7. RoutesAgree'
  BY <1>1, <1>2, <1>3 DEF LinkIInv, RoutesAgree
<1>8. AllClocked' /\ AllMoving'
  BY <1>1 DEF LinkIInv, AllClocked, AllMoving
<1> QED
  BY <1>4, <1>5, <1>6, <1>7, <1>8 DEF LinkIInv

LEMMA Writes ==
  ASSUME LinkIInv, NEW l \in Links, Written(l) \/ Nudge(l), work' = work
  PROVE  LinkIInv'
<1>0. /\ link \in Seq(LinkRecords) /\ link[l] \in LinkRecords /\ Clocked(link[l])
      /\ work' \in 0..MaxWork /\ (moved \/ late \/ Moving(link[l]))
  BY DEF LinkIInv, LinksOK, AllClocked, AllMoving, Links
<1> DEFINE Again(k) == /\ ~k.writing /\ k.addr = link[l].addr
                       /\ k.stage = link[l].stage /\ k.nodeId = link[l].nodeId
                       /\ k.ready = link[l].ready /\ k.queued = link[l].queued
<1>1. PICK k \in LinkRecords, valid \in BOOLEAN :
        /\ Again(k) /\ valid \in ValidOf(k) /\ link' = [link EXCEPT ![l] = Drained(k, valid)]
        /\ UNCHANGED <<m_started, m_links, m_nodeToAddr, moved, late>>
  <2>1. CASE Written(l)
    <3>1. Reported(link[l]) \in LinkRecords /\ Again(Reported(link[l]))
      BY <1>0 DEF LinkRecords, Reported
    <3>2. ValidOf(Reported(link[l])) = ValidOf(link[l]) /\ ValidOf(link[l]) \subseteq BOOLEAN
      BY <1>0 DEF ValidOf, LinkRecords, Reported
    <3>3. PICK valid \in ValidOf(link[l]) : link' = [link EXCEPT ![l] = Drained(Reported(link[l]), valid)]
      BY <2>1 DEF Written
    <3>4. UNCHANGED <<m_started, m_links, m_nodeToAddr, moved, late>>
      BY <2>1 DEF Written
    <3>5. valid \in BOOLEAN /\ valid \in ValidOf(Reported(link[l]))
      BY <3>2
    <3> HIDE DEF Again
    <3> QED
      BY <3>1, <3>3, <3>4, <3>5
  <2>2. CASE Nudge(l)
    <3>1. Nudged(link[l]) \in LinkRecords /\ Again(Nudged(link[l]))
      <4>1. link[l].nudges - 1 \in Nat
        BY <1>0, <2>2 DEF Nudge, LinkRecords
      <4> QED
        BY <1>0, <4>1 DEF LinkRecords, Nudged
    <3>2. ValidOf(Nudged(link[l])) = ValidOf(link[l]) /\ ValidOf(link[l]) \subseteq BOOLEAN
      BY <1>0 DEF ValidOf, LinkRecords, Nudged
    <3>3. PICK valid \in ValidOf(link[l]) : link' = [link EXCEPT ![l] = Drained(Nudged(link[l]), valid)]
      BY <2>2 DEF Nudge
    <3>4. UNCHANGED <<m_started, m_links, m_nodeToAddr, moved, late>>
      BY <2>2 DEF Nudge
    <3>5. valid \in BOOLEAN /\ valid \in ValidOf(Nudged(link[l]))
      BY <3>2
    <3> HIDE DEF Again
    <3> QED
      BY <3>1, <3>3, <3>4, <3>5
  <2> QED
    BY <2>1, <2>2
<1>2. k \in LinkRecords /\ Clocked(k)
  BY <1>0, <1>1 DEF Clocked
<1>3. /\ Drained(k, valid) \in LinkRecords /\ Clocked(Drained(k, valid))
      /\ Drained(k, valid).addr = k.addr /\ Drained(k, valid).stage = k.stage
      /\ Drained(k, valid).nodeId = k.nodeId /\ (k.ready => Moving(Drained(k, valid)))
  BY <1>1, <1>2, DrainedKeeps
<1>4. moved \/ late \/ Moving(Drained(k, valid))
  <2>1. CASE k.ready
    BY <1>3, <2>1
  <2>2. CASE ~k.ready
    <3>1. Drained(k, valid) = k
      BY <2>2 DEF Drained, Idle
    <3>2. Moving(link[l]) => Moving(k)
      BY <1>1, <2>2 DEF Moving
    <3> QED
      BY <1>0, <3>1, <3>2
  <2> QED
    BY <2>1, <2>2
<1>5. /\ Drained(k, valid).addr = link[l].addr /\ Drained(k, valid).stage = link[l].stage
      /\ Drained(k, valid).nodeId = link[l].nodeId
  BY <1>1, <1>3
<1>6. link' = [link EXCEPT ![l] = Drained(k, valid)]
      /\ UNCHANGED <<m_started, m_links, m_nodeToAddr, moved, late>>
  BY <1>1
<1> QED
  BY <1>0, <1>3, <1>4, <1>5, <1>6, QueueStep

LEMMA LinkFrame ==
  ASSUME LinkIInv, UNCHANGED linkVars, work' \in 0..MaxWork
  PROVE  LinkIInv'
<1>1. LinksOK' /\ Links' = Links
  BY DEF LinkIInv, LinksOK, linkVars, Links
<1>2. LiveIsListed' /\ OneAddress'
  BY <1>1 DEF LinkIInv, LiveIsListed, Live, OneAddress, linkVars
<1>3. RoutesAgree' /\ AllClocked' /\ AllMoving'
  BY <1>1 DEF LinkIInv, RoutesAgree, AllClocked, AllMoving, linkVars
<1> QED
  BY <1>1, <1>2, <1>3 DEF LinkIInv

LEMMA Sends ==
  ASSUME LinkIInv, NEW n \in NodeIds, NEW size \in Sizes, SendTo(n, size)
  PROVE  LinkIInv'
<1>0. /\ link \in Seq(LinkRecords) /\ m_links \in [Addrs -> 0..Len(link)]
      /\ m_nodeToAddr \in [NodeIds -> Addrs \cup {NoAddr}] /\ work' \in 0..MaxWork
  BY DEF LinkIInv, LinksOK, SendTo, Work
<1>1. UNCHANGED <<m_started, m_links, m_nodeToAddr, moved, late>>
  BY DEF SendTo
<1> DEFINE l == LinkFor(n)
<1>2. l # 0 => l \in Links
  BY <1>0 DEF LinkFor, Links
<1>3. IF l = 0 THEN link' = link
      ELSE \E valid \in ValidOf(link[l]) :
             link' = [link EXCEPT ![l] = Drained(Queued(link[l], size), valid)]
  BY DEF SendTo
\* Where routes and links agree, the link is the one that put the node on the list.
<1>4. moved \/ late \/ (l # 0 /\ link[l].ready)
  <2> SUFFICES ASSUME ~moved, ~late PROVE l # 0 /\ link[l].ready
    OBVIOUS
  <2>1. PICK a \in Addrs : m_links[a] # 0 /\ link[m_links[a]].ready
                             /\ link[m_links[a]].nodeId = n
    BY DEF SendTo, Peers
  <2>2. m_nodeToAddr[n] = a
    BY <2>1 DEF LinkIInv, RoutesAgree
  <2> QED
    BY <2>1, <2>2 DEF LinkFor
<1> HIDE DEF l
<1>5. CASE l = 0
  BY <1>0, <1>1, <1>3, <1>5, LinkFrame DEF linkVars
<1>6. CASE l # 0
  <2> DEFINE k == Queued(link[l], size)
  <2>0. link[l] \in LinkRecords /\ Clocked(link[l]) /\ l \in Links
    BY <1>0, <1>2, <1>6 DEF LinkIInv, AllClocked, Links
  <2>1. /\ k \in LinkRecords /\ k.writing = link[l].writing /\ k.nudges = link[l].nudges
        /\ k.addr = link[l].addr /\ k.stage = link[l].stage /\ k.nodeId = link[l].nodeId
        /\ k.ready = link[l].ready
    <3>1. link[l].queued + size \in Nat
      BY <2>0 DEF LinkRecords
    <3> QED
      BY <2>0, <3>1 DEF LinkRecords, Queued
  <2>2. PICK valid \in ValidOf(link[l]) : link' = [link EXCEPT ![l] = Drained(k, valid)]
    BY <1>3, <1>6
  <2> HIDE DEF k
  <2>3. /\ Drained(k, valid) \in LinkRecords /\ Clocked(Drained(k, valid))
        /\ Drained(k, valid).addr = k.addr /\ Drained(k, valid).stage = k.stage
        /\ Drained(k, valid).nodeId = k.nodeId
        /\ (k.ready => Moving(Drained(k, valid)))
    <3>1. Clocked(k) /\ valid \in ValidOf(k)
      BY <2>0, <2>1 DEF Clocked, ValidOf
    <3> QED
      BY <2>1, <3>1, DrainedKeeps
  <2>4. moved \/ late \/ Moving(Drained(k, valid))
    BY <1>4, <2>1, <2>3
  <2> QED
    BY <1>0, <1>1, <2>0, <2>1, <2>2, <2>3, <2>4, QueueStep
<1> QED
  BY <1>5, <1>6

-----------------------------------------------------------------------------
\* A device is dialled that has no link.
LEMMA Dials ==
  ASSUME LinkIInv, NEW a \in Addrs, Discovered(a)
  PROVE  LinkIInv'
<1> DEFINE new == NewLink(a)
           k == Len(link) + 1
<1>1. /\ new \in LinkRecords /\ new.addr = a /\ new.nodeId = NoId
      /\ Clocked(new) /\ Moving(new)
  BY DEF Discovered, NewLink, LinkRecords, LinkStages, Clocked, Moving
<1>2. /\ link' = Append(link, new) /\ m_links' = [m_links EXCEPT ![a] = k]
      /\ m_links[a] = 0 /\ UNCHANGED <<m_started, m_nodeToAddr, moved, late>>
  BY DEF Discovered
<1>3. link \in Seq(LinkRecords) /\ m_links \in [Addrs -> 0..Len(link)] /\ Len(link) \in Nat
  BY DEF LinkIInv, LinksOK
<1> HIDE DEF new
<1>4. /\ link' \in Seq(LinkRecords) /\ Len(link') = k /\ link'[k] = new
      /\ \A i \in Links : link'[i] = link[i] /\ i # k
  BY <1>1, <1>2, <1>3 DEF Links
<1>5. Links' = Links \cup {k}
  BY <1>3, <1>4 DEF Links
<1>6. \A b \in Addrs : m_links'[b] = IF b = a THEN k ELSE m_links[b]
  BY <1>2, <1>3
<1>7. \A b \in Addrs : m_links[b] # 0 => m_links[b] \in Links
  BY <1>3 DEF Links
<1> HIDE DEF k
<1>8. LinksOK'
  <2>1. k \in Nat /\ k > 0 /\ k = Len(link) + 1
    BY <1>3 DEF k
  <2>2. m_links' \in [Addrs -> 0..k]
    BY <1>2, <1>3, <2>1
  <2>3. \A b \in Addrs : m_links'[b] # 0 => link'[m_links'[b]].addr = b
    BY <1>1, <1>4, <1>6, <1>7 DEF LinkIInv, LinksOK
  <2>4. work' \in 0..MaxWork
    BY DEF Discovered, Work, LinkIInv, LinksOK
  <2> QED
    BY <1>2, <1>4, <2>2, <2>3, <2>4 DEF LinkIInv, LinksOK
<1>9. LiveIsListed'
  <2> SUFFICES ASSUME ~late, NEW l \in Links', Live(l)'
               PROVE  m_links'[link'[l].addr] = l
    BY <1>2 DEF LiveIsListed
  <2>1. CASE l = k
    BY <1>1, <1>4, <1>6, <2>1
  <2>2. CASE l # k
    <3>1. l \in Links /\ link'[l] = link[l]
      BY <1>4, <1>5, <2>2
    <3>2. m_links[link[l].addr] = l
      <4>1. Live(l)
        BY <3>1 DEF Live
      <4> QED
        BY <3>1, <4>1 DEF LinkIInv, LiveIsListed
    <3>4. link[l] \in LinkRecords
      BY <1>3, <3>1 DEF Links
    <3>5. link[l].addr \in Addrs
      BY <3>4 DEF LinkRecords
    <3>3. l # 0
      BY <3>1 DEF Links
    <3> QED
      BY <1>2, <1>6, <3>1, <3>2, <3>3, <3>5
  <2> QED
    BY <2>1, <2>2
<1>10. OneAddress'
  <2> SUFFICES ASSUME ~moved, NEW i \in Links', NEW j \in Links',
                      link'[i].nodeId = link'[j].nodeId, link'[i].nodeId # NoId
               PROVE  link'[i].addr = link'[j].addr
    BY <1>2 DEF OneAddress
  <2>1. i \in Links /\ j \in Links
    BY <1>1, <1>4, <1>5
  <2> QED
    BY <1>4, <2>1 DEF LinkIInv, OneAddress
<1>11. RoutesAgree'
  <2> SUFFICES ASSUME ~moved, ~late, NEW n \in NodeIds, NEW b \in Addrs
               PROVE  (m_nodeToAddr[n] = b) <=> (m_links'[b] # 0 /\ link'[m_links'[b]].nodeId = n)
    <3>1. moved' = moved /\ late' = late /\ m_nodeToAddr' = m_nodeToAddr
      BY <1>2
    <3> QED
      BY <3>1 DEF RoutesAgree
  <2>1. (m_nodeToAddr[n] = b) <=> (m_links[b] # 0 /\ link[m_links[b]].nodeId = n)
    BY DEF LinkIInv, RoutesAgree
  <2>2. CASE b = a
    <3>1. link'[m_links'[b]].nodeId # n
      BY <1>1, <1>4, <1>6, <2>2
    <3> QED
      BY <1>2, <2>1, <2>2, <3>1
  <2>3. CASE b # a
    BY <1>4, <1>6, <1>7, <2>1, <2>3
  <2> QED
    BY <2>2, <2>3
<1>12. AllClocked' /\ AllMoving'
  BY <1>1, <1>2, <1>4, <1>5 DEF LinkIInv, AllClocked, AllMoving
<1> QED
  BY <1>8, <1>9, <1>10, <1>11, <1>12 DEF LinkIInv

\* The service of a link is found, or is not there.
LEMMA Services ==
  ASSUME LinkIInv, NEW l \in Links, ServiceReady(l) \/ ServiceMissing(l)
  PROVE  LinkIInv'
<1>2. link[l].stage = "dialled" /\ UNCHANGED <<m_started, m_links, m_nodeToAddr, work, moved, late>>
  BY DEF ServiceReady, ServiceMissing
<1>3. link \in Seq(LinkRecords) /\ link[l] \in LinkRecords
  BY DEF LinkIInv, LinksOK, Links
<1>4. PICK k \in LinkRecords :
        /\ link' = [link EXCEPT ![l] = k] /\ k.addr = link[l].addr /\ k.nodeId = link[l].nodeId
        /\ k.queued = link[l].queued /\ k.writing = link[l].writing /\ k.nudges = link[l].nudges
        /\ k.stage \in {"ready", "useless"} /\ (k.stage = "useless" => k.ready = link[l].ready)
        /\ (link[l].ready => k.ready)
  <2>1. CASE ServiceReady(l)
    <3> DEFINE k == [link[l] EXCEPT !.stage = "ready", !.ready = TRUE]
    <3>1. /\ k \in LinkRecords /\ k.addr = link[l].addr /\ k.nodeId = link[l].nodeId
          /\ k.queued = link[l].queued /\ k.writing = link[l].writing
          /\ k.nudges = link[l].nudges /\ k.stage = "ready" /\ k.ready
      BY <1>3 DEF LinkRecords, LinkStages
    <3>2. link' = [link EXCEPT ![l] = k]
      BY <1>3, <2>1 DEF ServiceReady
    <3> QED
      BY <3>1, <3>2
  <2>2. CASE ServiceMissing(l)
    <3> DEFINE k == [link[l] EXCEPT !.stage = "useless"]
    <3>1. /\ k \in LinkRecords /\ k.addr = link[l].addr /\ k.nodeId = link[l].nodeId
          /\ k.queued = link[l].queued /\ k.writing = link[l].writing
          /\ k.nudges = link[l].nudges /\ k.stage = "useless" /\ k.ready = link[l].ready
      BY <1>3 DEF LinkRecords, LinkStages
    <3>2. link' = [link EXCEPT ![l] = k]
      BY <2>2 DEF ServiceMissing
    <3> QED
      BY <3>1, <3>2
  <2> QED
    BY <2>1, <2>2
<1>6. /\ link' \in Seq(LinkRecords) /\ Len(link') = Len(link) /\ Links' = Links
      /\ \A i \in Links : link'[i] = IF i = l THEN k ELSE link[i]
  BY <1>3, <1>4 DEF Links
<1>7. \A i \in Links : /\ link'[i].addr = link[i].addr /\ link'[i].nodeId = link[i].nodeId
                       /\ (Live(i)' => Live(i)) /\ (Clocked(link[i]) => Clocked(link'[i]))
                       /\ (Moving(link[i]) => Moving(link'[i]))
  BY <1>2, <1>4, <1>6 DEF Live, Clocked, Moving, LiveStages
<1>8. \A a \in Addrs : m_links[a] # 0 => m_links[a] \in Links
  BY DEF LinkIInv, LinksOK, Links
<1>9. LinksOK'
  BY <1>2, <1>6, <1>7, <1>8 DEF LinkIInv, LinksOK
<1>10. LiveIsListed'
  <2> SUFFICES ASSUME ~late, NEW i \in Links, Live(i)'
               PROVE  m_links[link'[i].addr] = i
    BY <1>2, <1>6 DEF LiveIsListed
  <2> QED
    BY <1>7 DEF LinkIInv, LiveIsListed
<1>11. OneAddress'
  BY <1>2, <1>6, <1>7 DEF LinkIInv, OneAddress
<1>12. RoutesAgree'
  BY <1>2, <1>7, <1>8 DEF LinkIInv, RoutesAgree
<1>13. AllClocked' /\ AllMoving'
  BY <1>2, <1>6, <1>7 DEF LinkIInv, AllClocked, AllMoving
<1> QED
  BY <1>9, <1>10, <1>11, <1>12, <1>13 DEF LinkIInv

\* stop() forgets every link and route; the links it closes are the live ones.
LEMMA Stops ==
  ASSUME LinkIInv, Stop
  PROVE  LinkIInv'
<1>0. link \in Seq(LinkRecords) /\ m_started' = FALSE /\ UNCHANGED <<work, moved, late>>
  BY DEF LinkIInv, LinksOK, Stop
<1> DEFINE k(l) == IF m_links[link[l].addr] = l
                   THEN [link[l] EXCEPT !.stage = "closing"] ELSE link[l]
<1>1. \A l \in Links : link[l] \in LinkRecords
  BY <1>0 DEF Links
<1>2. \A l \in Links :
        /\ k(l) \in LinkRecords /\ k(l).addr = link[l].addr /\ k(l).nodeId = link[l].nodeId
        /\ k(l).queued = link[l].queued /\ k(l).writing = link[l].writing
        /\ k(l).nudges = link[l].nudges /\ k(l).ready = link[l].ready
        /\ k(l).stage \in {"dialled", "ready", "useless"}
             => k(l).stage = link[l].stage /\ m_links[link[l].addr] # l
  <2> TAKE l \in Links
  <2>1. CASE m_links[link[l].addr] = l
    <3> DEFINE c == [link[l] EXCEPT !.stage = "closing"]
    <3>1. /\ c \in LinkRecords /\ c.addr = link[l].addr /\ c.nodeId = link[l].nodeId
          /\ c.queued = link[l].queued /\ c.writing = link[l].writing
          /\ c.nudges = link[l].nudges /\ c.ready = link[l].ready /\ c.stage = "closing"
      BY <1>1 DEF LinkRecords, LinkStages
    <3>2. k(l) = c
      BY <2>1
    <3> HIDE DEF k, c
    <3> QED
      BY <3>1, <3>2
  <2>2. CASE m_links[link[l].addr] # l
    BY <1>1, <2>2
  <2> QED
    BY <2>1, <2>2
<1>3. link' = [l \in Links |-> k(l)]
  BY DEF Stop
<1> HIDE DEF k
<1>4. /\ link' \in Seq(LinkRecords) /\ Len(link') = Len(link) /\ Links' = Links
      /\ \A l \in Links : link'[l] = k(l)
  <2>1. Len(link) \in Nat /\ link' \in [1..Len(link) -> LinkRecords]
    BY <1>0, <1>2, <1>3 DEF Links
  <2> QED
    BY <1>3, <2>1 DEF Links
<1>5. m_links' = [a \in Addrs |-> 0] /\ m_nodeToAddr' = [n \in NodeIds |-> NoAddr]
  BY DEF Stop
<1>6. LinksOK'
  <2>1. Len(link') \in Nat
    BY <1>4
  <2>2. m_links' \in [Addrs -> 0..Len(link')] /\ \A a \in Addrs : m_links'[a] = 0
    BY <1>5, <2>1
  <2> QED
    BY <1>0, <1>4, <1>5, <2>2 DEF LinkIInv, LinksOK
<1>7. LiveIsListed'
  <2> SUFFICES ASSUME ~late, NEW l \in Links, Live(l)' PROVE FALSE
    BY <1>0, <1>4 DEF LiveIsListed
  <2>1. k(l).stage \in {"dialled", "ready", "useless"}
    BY <1>4 DEF Live
  <2>2. Live(l) /\ m_links[link[l].addr] # l
    BY <1>2, <2>1 DEF Live
  <2> QED
    BY <2>2 DEF LinkIInv, LiveIsListed
<1>8. OneAddress'
  BY <1>0, <1>2, <1>4 DEF LinkIInv, OneAddress
<1>9. RoutesAgree'
  BY <1>5 DEF RoutesAgree
<1>10. AllClocked' /\ AllMoving'
  BY <1>0, <1>2, <1>4 DEF LinkIInv, AllClocked, Clocked, AllMoving, Moving, LiveStages
<1> QED
  BY <1>6, <1>7, <1>8, <1>9, <1>10 DEF LinkIInv

-----------------------------------------------------------------------------
\* A link fails or is disconnected.
LEMMA Ends ==
  ASSUME LinkIInv, NEW l \in Links, ErrorOccurred(l) \/ Disconnected(l)
  PROVE  LinkIInv'
<1>1. PICK stage \in {"failing", "gone"} : link' = [link EXCEPT ![l].stage = stage]
  BY DEF ErrorOccurred, Disconnected
<1>2. Cleanup(l) /\ UNCHANGED <<m_started, work, moved>>
  BY DEF ErrorOccurred, Disconnected
<1> DEFINE k == [link[l] EXCEPT !.stage = stage]
           a == link[l].addr
           n == link[l].nodeId
<1>3. link \in Seq(LinkRecords) /\ link[l] \in LinkRecords
  BY DEF LinkIInv, LinksOK, Links
<1>4. /\ k \in LinkRecords /\ k.addr = a /\ k.nodeId = n /\ k.stage = stage
      /\ k.writing = link[l].writing /\ k.nudges = link[l].nudges
  BY <1>3 DEF LinkRecords, LinkStages
<1>5. link' = [link EXCEPT ![l] = k]
  BY <1>1
<1> HIDE DEF k
<1>6. /\ link' \in Seq(LinkRecords) /\ Len(link') = Len(link) /\ Links' = Links
      /\ \A i \in Links : link'[i] = IF i = l THEN k ELSE link[i]
  BY <1>3, <1>4, <1>5 DEF Links
<1>7. a \in Addrs /\ a # NoAddr /\ l # 0
  BY <1>3 DEF LinkRecords, Links
<1>8. /\ m_links \in [Addrs -> 0..Len(link)] /\ m_nodeToAddr \in [NodeIds -> Addrs \cup {NoAddr}]
      /\ \A b \in Addrs : m_links[b] # 0 => m_links[b] \in Links /\ link[m_links[b]].addr = b
  BY DEF LinkIInv, LinksOK, Links
<1>9. /\ m_links' = [m_links EXCEPT ![a] = 0]
      /\ \A b \in Addrs : m_links'[b] = IF b = a THEN 0 ELSE m_links[b]
      /\ m_nodeToAddr' \in [NodeIds -> Addrs \cup {NoAddr}]
      /\ \A m \in NodeIds : m_nodeToAddr'[m] = IF m = n THEN NoAddr ELSE m_nodeToAddr[m]
      /\ late' = (late \/ m_links[a] \notin {0, l})
  BY <1>2, <1>7, <1>8 DEF Cleanup
<1> HIDE DEF a, n
<1>10. \A i \in Links : link'[i].addr = link[i].addr /\ link'[i].nodeId = link[i].nodeId
  BY <1>4, <1>6 DEF a, n
<1>11. LinksOK'
  <2>1. m_links' \in [Addrs -> 0..Len(link')]
    <3>1. Len(link') \in Nat /\ Len(link') = Len(link)
      BY <1>6
    <3>2. 0 \in 0..Len(link)
      BY <3>1
    <3>3. m_links' \in [Addrs -> 0..Len(link)]
      BY <1>8, <1>9, <3>2
    <3> QED
      BY <3>1, <3>3
  <2>2. \A b \in Addrs : m_links'[b] # 0 => link'[m_links'[b]].addr = b
    BY <1>8, <1>9, <1>10
  <2> QED
    BY <1>2, <1>6, <1>9, <2>1, <2>2 DEF LinkIInv, LinksOK
<1>12. LiveIsListed'
  <2> SUFFICES ASSUME ~late', NEW i \in Links, Live(i)'
               PROVE  m_links'[link'[i].addr] = i
    BY <1>6 DEF LiveIsListed
  <2>1. ~late /\ m_links[a] \in {0, l}
    BY <1>9
  <2>2. i # l
    BY <1>4, <1>6 DEF Live
  <2>3. m_links[link[i].addr] = i
    BY <1>6, <2>1, <2>2 DEF LinkIInv, LiveIsListed, Live
  <2>4. link[i].addr # a
    BY <2>1, <2>2, <2>3 DEF Links
  <2>5. link[i] \in LinkRecords
    BY <1>3 DEF Links
  <2>6. link[i].addr \in Addrs
    BY <2>5 DEF LinkRecords
  <2> QED
    BY <1>9, <1>10, <2>3, <2>4, <2>6
<1>13. OneAddress'
  BY <1>2, <1>6, <1>10 DEF LinkIInv, OneAddress
<1>14. RoutesAgree'
  <2> SUFFICES ASSUME ~moved, ~late', NEW m \in NodeIds, NEW b \in Addrs
               PROVE  (m_nodeToAddr'[m] = b) <=> (m_links'[b] # 0 /\ link'[m_links'[b]].nodeId = m)
    <3>1. moved' = moved
      BY <1>2
    <3> QED
      BY <3>1 DEF RoutesAgree
  <2>1. ~late /\ m_links[a] \in {0, l}
    BY <1>9
  <2>2. \A c \in Addrs : (m_nodeToAddr[m] = c) <=> (m_links[c] # 0 /\ link[m_links[c]].nodeId = m)
    BY <2>1 DEF LinkIInv, RoutesAgree
  <2>3. b # NoAddr /\ m # NoId
    OBVIOUS
  <2>4. CASE m = n
    <3>1. ASSUME m_links'[b] # 0, link'[m_links'[b]].nodeId = m PROVE FALSE
      <4>1. b # a /\ m_links[b] = m_links'[b] /\ m_links[b] \in Links /\ link[m_links[b]].addr = b
        BY <1>8, <1>9, <3>1
      <4>2. link[m_links[b]].nodeId = n
        BY <1>10, <2>4, <3>1, <4>1
      <4>3. link[m_links[b]].addr = link[l].addr
        BY <2>3, <2>4, <4>1, <4>2 DEF LinkIInv, OneAddress, n
      <4> QED
        BY <4>1, <4>3 DEF a
    <3> QED
      BY <1>9, <2>3, <2>4, <3>1
  <2>5. CASE m # n /\ b = a
    <3>1. m_nodeToAddr[m] # a
      BY <1>7, <2>1, <2>2, <2>5 DEF n
    <3> QED
      BY <1>9, <2>5, <3>1
  <2>6. CASE m # n /\ b # a
    BY <1>8, <1>9, <1>10, <2>2, <2>6
  <2> QED
    BY <2>4, <2>5, <2>6
<1>15. AllClocked' /\ AllMoving'
  BY <1>2, <1>4, <1>6, <1>9 DEF LinkIInv, AllClocked, Clocked, AllMoving, Moving, LiveStages
<1> QED
  BY <1>11, <1>12, <1>13, <1>14, <1>15 DEF LinkIInv

\* An announce names the link that is listed, and the route to it.
LEMMA Announces ==
  ASSUME LinkIInv, NEW l \in Links, NEW n \in NodeIds, Announced(l, n)
  PROVE  LinkIInv'
<1> DEFINE a == link[l].addr
           k == m_links[a]
           r == [link[k] EXCEPT !.nodeId = n]
<1>1. /\ k # 0
      /\ link' = [link EXCEPT ![k].nodeId = n]
      /\ m_nodeToAddr' = [m_nodeToAddr EXCEPT ![n] = a]
      /\ moved' = (moved \/ link[k].nodeId \notin {NoId, n}
                         \/ \E j \in Links : link[j].nodeId = n /\ link[j].addr # a)
      /\ UNCHANGED <<m_started, m_links, work, late>>
  BY DEF Announced
<1>2. link \in Seq(LinkRecords) /\ \A i \in Links : link[i] \in LinkRecords
  BY DEF LinkIInv, LinksOK, Links
<1>3. a \in Addrs
  BY <1>2 DEF LinkRecords
<1>4. /\ m_links \in [Addrs -> 0..Len(link)] /\ m_nodeToAddr \in [NodeIds -> Addrs \cup {NoAddr}]
      /\ \A b \in Addrs : m_links[b] # 0 => m_links[b] \in Links /\ link[m_links[b]].addr = b
  BY DEF LinkIInv, LinksOK, Links
<1>5. k \in Links /\ link[k].addr = a
  BY <1>1, <1>3, <1>4
<1>6. /\ r \in LinkRecords /\ r.addr = a /\ r.nodeId = n /\ r.stage = link[k].stage
      /\ r.queued = link[k].queued /\ r.writing = link[k].writing /\ r.nudges = link[k].nudges
      /\ r.ready = link[k].ready
  <2>1. link[k] \in LinkRecords
    BY <1>2, <1>5
  <2> HIDE DEF k, a
  <2> QED
    BY <1>5, <2>1 DEF LinkRecords
<1>7. link' = [link EXCEPT ![k] = r]
  BY <1>1
<1> HIDE DEF r, k, a
<1>8. /\ link' \in Seq(LinkRecords) /\ Len(link') = Len(link) /\ Links' = Links
      /\ \A i \in Links : link'[i] = IF i = k THEN r ELSE link[i]
  BY <1>2, <1>5, <1>6, <1>7 DEF Links
<1>9. \A i \in Links : /\ link'[i].addr = link[i].addr /\ link'[i].stage = link[i].stage
                       /\ link'[i].nodeId = IF i = k THEN n ELSE link[i].nodeId
  BY <1>5, <1>6, <1>8
<1>10. \A m \in NodeIds : m_nodeToAddr'[m] = IF m = n THEN a ELSE m_nodeToAddr[m]
  BY <1>1, <1>4
<1>11. LinksOK'
  BY <1>1, <1>3, <1>4, <1>8, <1>9 DEF LinkIInv, LinksOK
<1>12. LiveIsListed'
  BY <1>1, <1>8, <1>9 DEF LinkIInv, LiveIsListed, Live
<1>13. OneAddress'
  <2> SUFFICES ASSUME ~moved', NEW i \in Links, NEW j \in Links,
                      link'[i].nodeId = link'[j].nodeId, link'[i].nodeId # NoId
               PROVE  link[i].addr = link[j].addr
    BY <1>8, <1>9 DEF OneAddress
  <2>1. ~moved /\ \A p \in Links : link[p].nodeId = n => link[p].addr = a
    BY <1>1
  <2>2. CASE i # k /\ j # k
    BY <1>9, <2>1, <2>2 DEF LinkIInv, OneAddress
  <2>3. CASE i = k
    BY <1>5, <1>9, <2>1, <2>3
  <2>4. CASE j = k
    BY <1>5, <1>9, <2>1, <2>4
  <2> QED
    BY <2>2, <2>3, <2>4
<1>14. RoutesAgree'
  <2> SUFFICES ASSUME ~moved', ~late, NEW m \in NodeIds, NEW b \in Addrs
               PROVE  (m_nodeToAddr'[m] = b) <=> (m_links[b] # 0 /\ link'[m_links[b]].nodeId = m)
    <3>1. late' = late /\ m_links' = m_links
      BY <1>1
    <3> QED
      BY <3>1 DEF RoutesAgree
  <2>1. /\ ~moved /\ link[k].nodeId \in {NoId, n}
        /\ \A p \in Links : link[p].nodeId = n => link[p].addr = a
    BY <1>1
  <2>2. (m_nodeToAddr[m] = b) <=> (m_links[b] # 0 /\ link[m_links[b]].nodeId = m)
    BY <2>1 DEF LinkIInv, RoutesAgree
  <2>3. m # NoId
    OBVIOUS
  <2>4. CASE m = n /\ b = a
    BY <1>1, <1>5, <1>9, <1>10, <2>4 DEF k
  <2>5. CASE m = n /\ b # a
    <3>1. ASSUME m_links[b] # 0, link'[m_links[b]].nodeId = n PROVE FALSE
      <4>1. m_links[b] \in Links /\ link[m_links[b]].addr = b
        BY <1>4, <3>1
      <4>2. m_links[b] # k
        BY <1>5, <2>5, <4>1
      <4> QED
        BY <1>9, <2>1, <2>5, <3>1, <4>1, <4>2
    <3> QED
      BY <1>10, <2>5, <3>1
  <2>6. CASE m # n /\ b = a
    <3>1. link[k].nodeId # m
      BY <2>1, <2>3, <2>6
    <3> QED
      BY <1>1, <1>5, <1>9, <1>10, <2>2, <2>6, <3>1 DEF k
  <2>7. CASE m # n /\ b # a
    <3>1. m_links[b] # 0 => m_links[b] \in Links /\ m_links[b] # k
      BY <1>4, <1>5, <2>7
    <3> QED
      BY <1>9, <1>10, <2>2, <2>7, <3>1
  <2> QED
    BY <2>4, <2>5, <2>6, <2>7
<1>15. AllClocked' /\ AllMoving'
  <2>1. \A i \in Links : /\ Clocked(link[i]) => Clocked(link'[i])
                         /\ Moving(link[i]) => Moving(link'[i])
    BY <1>5, <1>6, <1>8 DEF Clocked, Moving
  <2>2. AllClocked'
    BY <1>8, <2>1 DEF LinkIInv, AllClocked
  <2>3. AllMoving'
    BY <1>1, <1>8, <2>1 DEF LinkIInv, AllMoving
  <2> QED
    BY <2>2, <2>3
<1> QED
  BY <1>11, <1>12, <1>13, <1>14, <1>15 DEF LinkIInv

-----------------------------------------------------------------------------
LEMMA LinkInit == Init => LinkIInv
<1> SUFFICES ASSUME Init PROVE LinkIInv
  OBVIOUS
<1>1. link = << >> /\ link \in Seq(LinkRecords) /\ Len(link) = 0
  BY DEF Init
<1>2. Links = {}
  BY <1>1 DEF Links
<1>3. /\ m_started \in BOOLEAN /\ m_links \in [Addrs -> 0..Len(link)]
      /\ m_nodeToAddr \in [NodeIds -> Addrs \cup {NoAddr}] /\ work \in 0..MaxWork
  <2>1. MaxWork \in Nat /\ 0 \in 0..MaxWork /\ 0 \in 0..Len(link)
    BY <1>1
  <2>2. m_links \in [Addrs -> 0..Len(link)]
    BY <2>1 DEF Init
  <2> QED
    BY <2>1, <2>2 DEF Init
<1>4. LinksOK /\ RoutesAgree
  BY <1>1, <1>3 DEF Init, LinksOK, RoutesAgree
<1> QED
  BY <1>2, <1>4 DEF LinkIInv, LiveIsListed, OneAddress, AllClocked, AllMoving

LEMMA LinkStep == LinkIInv /\ [Next]_vars => LinkIInv'
<1> SUFFICES ASSUME LinkIInv, [Next]_vars PROVE LinkIInv'
  OBVIOUS
<1>0. work \in 0..MaxWork
  BY DEF LinkIInv, LinksOK
<1>1. CASE Start
  <2>1. m_started' = TRUE /\ UNCHANGED <<m_links, m_nodeToAddr, link, work, moved, late>>
    BY <1>1 DEF Start
  <2>2. LinksOK' /\ Links' = Links
    BY <2>1 DEF LinkIInv, LinksOK, Links
  <2>3. LiveIsListed' /\ OneAddress'
    BY <2>1, <2>2 DEF LinkIInv, LiveIsListed, Live, OneAddress
  <2>4. RoutesAgree' /\ AllClocked' /\ AllMoving'
    BY <2>1, <2>2 DEF LinkIInv, RoutesAgree, AllClocked, AllMoving
  <2> QED
    BY <2>2, <2>3, <2>4 DEF LinkIInv
<1>2. CASE Stop
  BY <1>2, Stops
<1>3. ASSUME NEW a \in Addrs, Discovered(a) PROVE LinkIInv'
  BY <1>3, Dials
<1>4. CASE Controller
  <2>1. PICK l \in Links :
          \/ ServiceReady(l) \/ ServiceMissing(l)
          \/ ErrorOccurred(l) \/ Disconnected(l)
          \/ Written(l) \/ Nudge(l)
          \/ \E n \in NodeIds : Announced(l, n)
    BY <1>4 DEF Controller
  <2>2. CASE Written(l) \/ Nudge(l)
    BY <2>2, Writes DEF Written, Nudge
  <2> QED
    BY <2>1, <2>2, Services, Ends, Announces
<1>5. ASSUME NEW n \in NodeIds, NEW size \in Sizes, SendTo(n, size) PROVE LinkIInv'
  BY <1>5, Sends
<1>6. ASSUME NEW d \in Senders,
             \/ FragmentArrives(d) \/ FragmentLost(d)
             \/ \E size \in Sizes : BeginMessage(d, size)
      PROVE  LinkIInv'
  <2>1. UNCHANGED linkVars /\ (work' = work \/ Work)
    BY <1>6 DEF FragmentArrives, FragmentLost, BeginMessage
  <2>2. work' \in 0..MaxWork
    BY <1>0, <2>1 DEF Work
  <2> QED
    BY <2>1, <2>2, LinkFrame
<1>7. CASE UNCHANGED vars
  BY <1>0, <1>7, LinkFrame DEF vars
<1> QED
  BY <1>1, <1>2, <1>3, <1>4, <1>5, <1>6, <1>7 DEF Next

\* The invariant of the links, in every order of signals, stops and dials.
THEOREM LinksInvariance == Spec => []LinkIInv
<1> QED
  BY LinkInit, LinkStep, PTL DEF Spec

\* A link that neither failed nor was closed is in the map stop() goes through,
\* unless the cleanup of an older one came after its address had been dialled again.
THEOREM LiveLinksListed == Spec => []LiveIsListed
<1>1. LinkIInv => LiveIsListed
  BY DEF LinkIInv
<1> QED
  BY <1>1, LinksInvariance, PTL

\* As long as nodes keep their address and addresses their node, and no cleanup
\* came late, what peers() lists can be sent to, by the route of that node.
THEOREM RoutesAreLinks == Spec => []RoutesAgree
<1>1. LinkIInv => RoutesAgree
  BY DEF LinkIInv
<1> QED
  BY <1>1, LinksInvariance, PTL

\* Under the same condition no link in use has a queue without a timer.
THEOREM QueuesMove == Spec => []RadioInv
<1>1. LinkIInv => RadioInv
  <2> SUFFICES ASSUME LinkIInv PROVE RadioInv
    OBVIOUS
  <2>1. \A l \in Links : link[l] \in LinkRecords
    BY DEF LinkIInv, LinksOK, Links
  <2>2. TypeOK
    BY <2>1 DEF LinkIInv, LinksOK, TypeOK, LinkRecords
  <2>3. QueueHasClock
    BY DEF LinkIInv, AllMoving, Moving, LiveStages, QueueHasClock, Live
  <2> QED
    BY <2>2, <2>3 DEF RadioInv
<1> QED
  BY <1>1, LinksInvariance, PTL

-----------------------------------------------------------------------------
Part == [from : Senders \cup {NoAddr}, msg : Nat, no : Nat]
Reassembly == [count : Nat, parts : [Indexes -> Part]]
Sender == [msg : Nat, size : Nat, next : Nat, whole : BOOLEAN, given : Nat]

FragTypes ==
  /\ sender \in [Senders -> Sender]
  /\ m_reasm \in [Keys -> Reassembly]
  /\ wrote \subseteq Centrals /\ IsFiniteSet(wrote)
  /\ \A d \in Senders : IF sender[d].msg = 0 THEN sender[d].size = 0
                        ELSE sender[d].size > 0 /\ sender[d].next > 0

\* As long as every id and every count fits its field, a message is given when its
\* last fragment has come, never before.
SenderOK(d) ==
  /\ sender[d].msg <= IdMod
  /\ sender[d].size < ByteMod
  /\ sender[d].next <= sender[d].size => sender[d].given = 0

\* A part that is kept is the fragment of its sender that belongs there.
PartOK(k, j) ==
  LET p == m_reasm[k].parts[j] IN
    p # Nothing =>
      /\ p.from \in Senders /\ k = <<FromAddr(p.from), p.msg % IdMod>>
      /\ p.msg \in 1..sender[p.from].msg /\ p.no = j + 1
      /\ p.from \in Centrals => p.from \in wrote
      /\ p.msg = sender[p.from].msg => p.no < sender[p.from].next

KeyOf(d) == <<FromAddr(d), sender[d].msg % IdMod>>

\* Nothing of what a sender has got across so far has gone.
WholeOK(d) ==
  sender[d].whole /\ sender[d].next \in 2..sender[d].size =>
    \A j \in 0..(sender[d].next - 2) :
      m_reasm[KeyOf(d)].parts[j] = [from |-> d, msg |-> sender[d].msg, no |-> j + 1]

PartsRight ==
  /\ \A d \in Senders : SenderOK(d) /\ WholeOK(d)
  /\ \A k \in Keys, j \in Indexes : PartOK(k, j)
  /\ ~garbled /\ ~missed

FragIInv == FragTypes /\ (Excused \/ PartsRight)

\* A remainder tells apart the numbers of a message until they repeat.
LEMMA NumbersDiffer ==
  ASSUME NEW a \in 1..IdMod, NEW b \in 1..IdMod, a % IdMod = b % IdMod
  PROVE  a = b
<1>1. IdMod \in Nat \ {0}
  OBVIOUS
<1>2. \A x \in 1..IdMod : x % IdMod = IF x = IdMod THEN 0 ELSE x
  BY <1>1
<1> QED
  BY <1>1, <1>2

\* Where one central writes at most, an address tells the sender.
LEMMA AddressTellsSender ==
  ASSUME NEW W, IsFiniteSet(W), ~(Cardinality(W) > 1),
         NEW d \in Senders, NEW e \in Senders, FromAddr(d) = FromAddr(e),
         d \in Centrals => d \in W, e \in Centrals => e \in W
  PROVE  d = e
<1>1. CASE d \in Centrals /\ e \in Centrals
  <2> SUFFICES ASSUME d # e PROVE FALSE
    OBVIOUS
  <2>1. IsFiniteSet({d}) /\ Cardinality({d}) = 1
    BY FS_Singleton
  <2>2. Cardinality({d} \cup {e}) = 2
    <3>1. Cardinality({d} \cup {e})
            = IF e \in {d} THEN Cardinality({d}) ELSE Cardinality({d}) + 1
      BY <2>1, FS_AddElement
    <3> QED
      BY <2>1, <3>1
  <2>3. {d} \cup {e} \in SUBSET W
    BY <1>1
  <2>4. 2 <= Cardinality(W)
    BY <2>2, <2>3, FS_Subset
  <2> QED
    BY <2>4, FS_CardinalityType
<1>2. CASE d \notin Centrals \/ e \notin Centrals
  BY <1>2 DEF FromAddr
<1> QED
  BY <1>1, <1>2

\* Excuses are never taken back.
LEMMA StillExcused ==
  ASSUME FragTypes, FragTypes', wrote \subseteq wrote', reused => reused',
         oversized => oversized', Excused
  PROVE  Excused'
<1>1. Cardinality(wrote) <= Cardinality(wrote')
  BY FS_Subset DEF FragTypes
<1>2. Cardinality(wrote) \in Nat /\ Cardinality(wrote') \in Nat
  BY FS_CardinalityType DEF FragTypes
<1> QED
  BY <1>1, <1>2 DEF Excused

-----------------------------------------------------------------------------
\* The fragment of sender d that is on its way, put in its place.
NextPart(d) == [from |-> d, msg |-> sender[d].msg, no |-> sender[d].next]

WithNext(d) ==
  [count |-> sender[d].size,
   parts |-> [m_reasm[KeyOf(d)].parts EXCEPT ![sender[d].next - 1] = NextPart(d)]]

\* What onIncoming does with it, where the header's fields are wide enough.
LEMMA IncomingIs ==
  ASSUME FragTypes, NEW d \in Senders, SenderOK(d), Sending(d), Incoming(d, sender[d])
  PROVE  LET r == WithNext(d)
             done == Complete(r)
             whole == done /\ IsWhole(r, d, sender[d].msg, sender[d].size)
             given == sender[d].given + (IF whole THEN 1 ELSE 0) IN
           /\ m_reasm' = [m_reasm EXCEPT ![KeyOf(d)] = IF done THEN NoParts ELSE r]
           /\ garbled' = (garbled \/ (done /\ ~whole))
           /\ sender' = [sender EXCEPT ![d] = [sender[d] EXCEPT !.next = sender[d].next + 1,
                                                                !.given = given]]
           /\ missed' = (missed \/ (sender[d].next = sender[d].size /\ sender[d].whole
                                     /\ given # 1))
<1> DEFINE s == sender[d]
<1>1. s \in Sender /\ s.next \in 1..s.size /\ s.size < ByteMod /\ ByteMod \in Nat \ {0}
  BY DEF FragTypes, SenderOK, Sending
<1>2. \A x \in 0..(ByteMod - 1) : x % ByteMod = x
  BY <1>1
<1>3. s.next - 1 \in 0..(ByteMod - 1) /\ s.size \in 0..(ByteMod - 1)
  BY <1>1 DEF Sender
<1>4. Header(d, s).key = KeyOf(d)
  BY DEF Header, KeyOf
<1>5. Header(d, s).idx = s.next - 1 /\ Header(d, s).count = s.size
  BY <1>2, <1>3 DEF Header
<1>6. s.size <= ByteMod
  BY <1>3, <1>1
<1> QED
  BY <1>4, <1>5, <1>6 DEF Incoming, WithNext, NextPart

\* The parts that are there with it are the first of its message, and they are all
\* of it exactly if it is the last and none was lost before.
LEMMA PartsWithNext ==
  ASSUME FragTypes, PartsRight, NEW d \in Senders, Sending(d),
         NEW W, IsFiniteSet(W), ~(Cardinality(W) > 1), wrote \subseteq W, d \in Centrals => d \in W
  PROVE  LET r == WithNext(d) IN
           /\ \A j \in Indexes : r.parts[j] # Nothing =>
                /\ j <= sender[d].next - 1
                /\ r.parts[j] = [from |-> d, msg |-> sender[d].msg, no |-> j + 1]
           /\ Complete(r) => /\ sender[d].next = sender[d].size
                             /\ IsWhole(r, d, sender[d].msg, sender[d].size)
           /\ sender[d].whole => \A j \in 0..(sender[d].next - 1) : r.parts[j] # Nothing
           /\ sender[d].whole /\ sender[d].next = sender[d].size => Complete(r)
<1> DEFINE s == sender[d]
           key == KeyOf(d)
           r == WithNext(d)
           idx == s.next - 1
           there == {i \in Indexes : r.parts[i] # Nothing}
<1>1. /\ s \in Sender /\ s.next \in 1..s.size /\ s.size < ByteMod /\ ByteMod \in Nat \ {0}
      /\ s.msg \in 1..IdMod
  <2>1. s.msg # 0
    BY DEF FragTypes, Sending
  <2> QED
    BY <2>1 DEF FragTypes, PartsRight, SenderOK, Sending, Sender
<1>2. idx \in Indexes /\ Indexes \subseteq Nat
  BY <1>1 DEF Indexes, Sender
<1>3. key \in Keys
  <2>1. s.msg % IdMod \in 0..(IdMod - 1)
    BY <1>1 DEF Sender
  <2>2. FromAddr(d) \in Higher \cup {NoAddr}
    BY DEF FromAddr
  <2> QED
    BY <2>1, <2>2 DEF KeyOf, Keys
<1>4. m_reasm[key] \in Reassembly
  BY <1>3 DEF FragTypes
<1>5. /\ r.count = s.size
      /\ \A j \in Indexes : r.parts[j] = IF j = idx THEN NextPart(d) ELSE m_reasm[key].parts[j]
  BY <1>2, <1>4 DEF WithNext, Reassembly
<1>6. NextPart(d) = [from |-> d, msg |-> s.msg, no |-> idx + 1] /\ NextPart(d) # Nothing
  BY <1>1 DEF NextPart, Nothing, Sender
<1>7. ASSUME NEW j \in Indexes, m_reasm[key].parts[j] # Nothing
      PROVE  /\ j <= idx
             /\ m_reasm[key].parts[j] = [from |-> d, msg |-> s.msg, no |-> j + 1]
  <2> DEFINE p == m_reasm[key].parts[j]
  <2>1. /\ p.from \in Senders /\ key = <<FromAddr(p.from), p.msg % IdMod>>
        /\ p.msg \in 1..sender[p.from].msg /\ p.no = j + 1
        /\ p.from \in Centrals => p.from \in W
        /\ p.msg = sender[p.from].msg => p.no < sender[p.from].next
    BY <1>3, <1>7 DEF PartsRight, PartOK
  <2>2. p \in Part
    BY <1>4 DEF Reassembly
  <2>3. FromAddr(d) = FromAddr(p.from) /\ s.msg % IdMod = p.msg % IdMod
    BY <2>1 DEF KeyOf
  <2>4. p.from = d
    BY <2>1, <2>3, AddressTellsSender
  <2>5. p.msg \in 1..IdMod
    BY <1>1, <2>1, <2>4 DEF Sender
  <2>6. p.msg = s.msg
    BY <1>1, <2>3, <2>5, NumbersDiffer
  <2>7. j + 1 < s.next
    BY <2>1, <2>4, <2>6
  <2>8. j <= idx
    BY <1>1, <1>2, <2>7 DEF Sender
  <2>9. p = [from |-> d, msg |-> s.msg, no |-> j + 1]
    BY <2>1, <2>2, <2>4, <2>6 DEF Part
  <2> QED
    BY <2>8, <2>9
<1> HIDE DEF r, key, s
<1>8. \A j \in Indexes : r.parts[j] # Nothing =>
        j <= idx /\ r.parts[j] = [from |-> d, msg |-> s.msg, no |-> j + 1]
  BY <1>1, <1>2, <1>5, <1>6, <1>7
<1>9. /\ there \subseteq 0..idx /\ IsFiniteSet(0..idx) /\ Cardinality(0..idx) = idx + 1
      /\ idx \in Nat /\ idx + 1 <= s.size /\ idx + 1 = s.next
  <2>1. idx \in Nat /\ idx + 1 <= s.size /\ idx + 1 = s.next
    BY <1>1 DEF Sender
  <2>2. there \subseteq 0..idx
    <3> SUFFICES ASSUME NEW j \in Indexes, r.parts[j] # Nothing PROVE j \in 0..idx
      OBVIOUS
    <3>1. j \in Nat /\ j <= idx
      BY <1>2, <1>8
    <3> HIDE DEF idx
    <3> QED
      BY <2>1, <3>1
  <2>3. IsFiniteSet(0..idx) /\ Cardinality(0..idx) = IF 0 > idx THEN 0 ELSE idx - 0 + 1
    <3>1. 0 \in Int /\ idx \in Int
      BY <2>1
    <3> HIDE DEF idx
    <3> QED
      BY <3>1, FS_Interval
  <2> HIDE DEF there, idx
  <2> QED
    BY <2>1, <2>2, <2>3
<1>10. Complete(r) <=> Cardinality(there) = s.size
  BY <1>5 DEF Complete
<1>11. ASSUME Complete(r) PROVE s.next = s.size /\ IsWhole(r, d, s.msg, s.size)
  <2>1. Cardinality(there) <= idx + 1 /\ (Cardinality(there) = idx + 1 => there = 0..idx)
    <3> HIDE DEF there, idx
    <3>1. there \in SUBSET (0..idx)
      BY <1>9
    <3>2. /\ Cardinality(there) <= Cardinality(0..idx)
          /\ Cardinality(0..idx) = Cardinality(there) => 0..idx = there
      BY <1>9, <3>1, FS_Subset
    <3> QED
      BY <1>9, <3>2
  <2>2. Cardinality(there) = s.size
    BY <1>10, <1>11
  <2>3. s.size \in Nat
    BY <1>1 DEF Sender
  <2> HIDE DEF there, idx
  <2>4. s.size = idx + 1 /\ there = 0..idx
    BY <1>9, <2>1, <2>2, <2>3
  <2>5. \A i \in Indexes : i \in there <=> i < s.size
    <3> SUFFICES ASSUME NEW i \in Indexes PROVE i \in 0..idx <=> i < s.size
      BY <2>4
    <3>1. i \in Nat
      BY <1>2
    <3> QED
      BY <1>9, <2>4, <3>1
  <2>6. ASSUME NEW i \in Indexes
        PROVE  r.parts[i] = IF i < s.size THEN [from |-> d, msg |-> s.msg, no |-> i + 1] ELSE Nothing
    BY <1>8, <2>5 DEF there
  <2> QED
    BY <1>9, <2>4, <2>6 DEF IsWhole
<1>12. ASSUME s.whole PROVE \A j \in 0..idx : r.parts[j] # Nothing
  <2> SUFFICES ASSUME NEW j \in 0..idx PROVE r.parts[j] # Nothing
    OBVIOUS
  <2>1. j \in Indexes
    BY <1>2, <1>9 DEF Indexes
  <2>2. CASE j = idx
    BY <1>5, <1>6, <2>1, <2>2
  <2>3. CASE j # idx
    <3>1. s.next \in 2..s.size /\ j \in 0..(s.next - 2)
      BY <1>1, <1>9, <2>3 DEF Sender
    <3>2. m_reasm[key].parts[j] = [from |-> d, msg |-> s.msg, no |-> j + 1]
      BY <1>12, <3>1 DEF PartsRight, WholeOK, s, key
    <3>3. m_reasm[key].parts[j] # Nothing
      BY <1>1, <3>2 DEF Nothing
    <3> QED
      BY <1>5, <2>1, <2>3, <3>3
  <2> QED
    BY <2>2, <2>3
<1>13. ASSUME s.whole, s.next = s.size PROVE Complete(r)
  <2>1. there = 0..idx
    <3>1. 0..idx \subseteq Indexes
      BY <1>2, <1>9 DEF Indexes
    <3> QED
      BY <1>9, <1>12, <1>13, <3>1
  <2> QED
    BY <1>9, <1>10, <1>13, <2>1
<1> QED
  BY <1>8, <1>11, <1>12, <1>13 DEF r, s

-----------------------------------------------------------------------------
\* A fragment arrives.
LEMMA Arrives ==
  ASSUME FragIInv, NEW d \in Senders, FragmentArrives(d)
  PROVE  FragIInv'
<1>0. /\ Sending(d) /\ Incoming(d, sender[d]) /\ wrote' = wrote \cup ({d} \cap Centrals)
      /\ reused' = reused /\ oversized' = oversized /\ FragTypes
  BY DEF FragmentArrives, FragIInv
<1> DEFINE s == sender[d]
           key == KeyOf(d)
           r == WithNext(d)
<1>1. s \in Sender /\ s.next \in 1..s.size /\ s.msg # 0 /\ s.msg \in Nat
  BY <1>0 DEF FragTypes, Sending, Sender
<1>2. FragTypes'
  <2>1. wrote' \subseteq Centrals /\ IsFiniteSet(wrote')
    <3>1. wrote \subseteq Centrals /\ IsFiniteSet(wrote)
      BY <1>0 DEF FragTypes
    <3>2. IsFiniteSet(wrote \cup {d})
      BY <3>1, FS_AddElement
    <3>3. CASE d \in Centrals
      <4>1. wrote' = wrote \cup {d}
        BY <1>0, <3>3
      <4> QED
        BY <3>1, <3>2, <3>3, <4>1
    <3>4. CASE d \notin Centrals
      <4>1. wrote' = wrote
        BY <1>0, <3>4
      <4> QED
        BY <3>1, <4>1
    <3> QED
      BY <3>3, <3>4
  <2>2. PICK given \in Nat :
          sender' = [sender EXCEPT ![d] = [s EXCEPT !.next = s.next + 1, !.given = given]]
    <3>1. \A b \in BOOLEAN : s.given + (IF b THEN 1 ELSE 0) \in Nat
      BY <1>1 DEF Sender
    <3> QED
      BY <1>0, <3>1 DEF Incoming
  <2> DEFINE new == [s EXCEPT !.next = s.next + 1, !.given = given]
  <2>3. new \in Sender /\ new.msg = s.msg /\ new.size = s.size /\ new.next > 0
    <3>1. s.next + 1 \in Nat /\ s.next + 1 > 0
      BY <1>1 DEF Sender
    <3> QED
      BY <1>1, <2>2, <3>1 DEF Sender
  <2> HIDE DEF new
  <2>4. /\ sender' \in [Senders -> Sender]
        /\ \A e \in Senders : IF sender'[e].msg = 0 THEN sender'[e].size = 0
                              ELSE sender'[e].size > 0 /\ sender'[e].next > 0
    <3>1. \A e \in Senders : sender'[e] = IF e = d THEN new ELSE sender[e]
      BY <1>0, <2>2 DEF FragTypes, new
    <3>2. sender' = [sender EXCEPT ![d] = new]
      BY <2>2 DEF new
    <3> QED
      BY <1>0, <1>1, <2>3, <3>1, <3>2 DEF FragTypes
  <2>5. m_reasm' \in [Keys -> Reassembly]
    <3> DEFINE h == Header(d, s)
               q == [count |-> h.count,
                     parts |-> [m_reasm[h.key].parts EXCEPT
                                 ![h.idx] = [from |-> d, msg |-> s.msg, no |-> s.next]]]
    <3>1. h.key \in Keys /\ h.count \in Nat /\ h.idx \in Indexes
      <4>1. s.msg % IdMod \in 0..(IdMod - 1) /\ FromAddr(d) \in Higher \cup {NoAddr}
        BY <1>1 DEF FromAddr
      <4>2. s.size % ByteMod \in Nat /\ (s.next - 1) % ByteMod \in 0..(ByteMod - 1)
        BY <1>1 DEF Sender
      <4> QED
        BY <4>1, <4>2 DEF Header, Keys, Indexes
    <3>2. m_reasm[h.key].parts \in [Indexes -> Part]
      BY <1>0, <3>1 DEF FragTypes, Reassembly
    <3>3. [from |-> d, msg |-> s.msg, no |-> s.next] \in Part
      BY <1>1 DEF Sender, Part
    <3>4. q \in Reassembly
      BY <3>1, <3>2, <3>3 DEF Reassembly
    <3>5. NoParts \in Reassembly
      BY DEF NoParts, Nothing, Reassembly, Part
    <3>6. m_reasm' = [m_reasm EXCEPT ![h.key] = IF Complete(q) THEN NoParts ELSE q]
      BY <1>0 DEF Incoming
    <3> HIDE DEF h, q
    <3> QED
      BY <1>0, <3>4, <3>5, <3>6 DEF FragTypes
  <2> QED
    BY <2>1, <2>4, <2>5 DEF FragTypes
<1>3. CASE Excused'
  BY <1>2, <1>3 DEF FragIInv
<1>4. CASE ~Excused'
  <2>1. PartsRight
    BY <1>0, <1>2, <1>4, StillExcused DEF FragIInv
  <2>2. SenderOK(d)
    BY <2>1 DEF PartsRight
  <2>3. /\ IsFiniteSet(wrote') /\ ~(Cardinality(wrote') > 1) /\ wrote \subseteq wrote'
        /\ d \in Centrals => d \in wrote'
    BY <1>0, <1>2, <1>4 DEF FragTypes, Excused
  <2>4. /\ \A j \in Indexes : r.parts[j] # Nothing =>
             j <= s.next - 1 /\ r.parts[j] = [from |-> d, msg |-> s.msg, no |-> j + 1]
        /\ Complete(r) => s.next = s.size /\ IsWhole(r, d, s.msg, s.size)
        /\ s.whole => \A j \in 0..(s.next - 1) : r.parts[j] # Nothing
        /\ s.whole /\ s.next = s.size => Complete(r)
    BY <1>0, <2>1, <2>3, PartsWithNext
  <2> DEFINE given == IF Complete(r) THEN 1 ELSE 0
             new == [s EXCEPT !.next = s.next + 1, !.given = given]
  <2>5. /\ m_reasm' = [m_reasm EXCEPT ![key] = IF Complete(r) THEN NoParts ELSE r]
        /\ sender' = [sender EXCEPT ![d] = new]
        /\ ~garbled' /\ ~missed'
    <3>1. s.given = 0 /\ s.given + 1 = 1 /\ s.given + 0 = 0
      BY <1>1, <2>2 DEF SenderOK
    <3>2. ~garbled /\ ~missed
      BY <2>1 DEF PartsRight
    <3> HIDE DEF r, key
    <3>3. Complete(r) => IsWhole(r, d, s.msg, s.size)
      BY <2>4
    <3>4. s.given + (IF Complete(r) /\ IsWhole(r, d, s.msg, s.size) THEN 1 ELSE 0) = given
      BY <3>1, <3>3
    <3> HIDE DEF given
    <3>5. /\ m_reasm' = [m_reasm EXCEPT ![key] = IF Complete(r) THEN NoParts ELSE r]
          /\ garbled' = (garbled \/ (Complete(r) /\ ~(Complete(r) /\ IsWhole(r, d, s.msg, s.size))))
          /\ sender' = [sender EXCEPT ![d] = new]
          /\ missed' = (missed \/ (s.next = s.size /\ s.whole /\ given # 1))
      BY <1>0, <2>2, <3>4, IncomingIs DEF r, key
    <3>6. s.next = s.size /\ s.whole => given = 1
      BY <2>4 DEF given
    <3> QED
      BY <3>2, <3>3, <3>5, <3>6
  <2>6. /\ new.msg = s.msg /\ new.size = s.size /\ new.next = s.next + 1 /\ new.whole = s.whole
        /\ new.given = given
    BY <1>1 DEF Sender
  <2> HIDE DEF new
  <2>7. \A e \in Senders : sender'[e] = IF e = d THEN new ELSE sender[e]
    BY <1>0, <2>5 DEF FragTypes
  <2>8. \A e \in Senders : KeyOf(e)' = KeyOf(e)
    BY <2>6, <2>7 DEF KeyOf
  <2>9. \A k \in Keys : m_reasm'[k] = IF k = key THEN IF Complete(r) THEN NoParts ELSE r
                                                 ELSE m_reasm[k]
    BY <1>0, <2>5 DEF FragTypes
  <2>10. ASSUME NEW e \in Senders PROVE SenderOK(e)'
    <3>1. CASE e = d
      <4>1. sender'[e] = new
        BY <2>7, <3>1
      <4>2. s.next + 1 <= s.size => ~Complete(r)
        BY <1>1, <2>4 DEF Sender
      <4> QED
        BY <2>2, <2>6, <4>1, <4>2 DEF SenderOK
    <3>2. CASE e # d
      BY <2>1, <2>7, <3>2 DEF PartsRight, SenderOK
    <3> QED
      BY <3>1, <3>2
  <2>11. ASSUME NEW k \in Keys, NEW j \in Indexes PROVE PartOK(k, j)'
    <3>1. \A e \in Senders : sender'[e].msg = sender[e].msg /\ sender'[e].next >= sender[e].next
      BY <1>0, <1>1, <2>6, <2>7 DEF FragTypes, Sender
    <3>2. CASE k = key
      <4>1. CASE Complete(r)
        BY <2>9, <3>2, <4>1 DEF PartOK, NoParts
      <4>2. CASE ~Complete(r)
        <5> SUFFICES ASSUME r.parts[j] # Nothing PROVE PartOK(k, j)'
          BY <2>9, <3>2, <4>2 DEF PartOK
        <5>1. j <= s.next - 1 /\ r.parts[j] = [from |-> d, msg |-> s.msg, no |-> j + 1]
          BY <2>4
        <5>2. m_reasm'[k].parts[j] = [from |-> d, msg |-> s.msg, no |-> j + 1]
          BY <2>9, <3>2, <4>2, <5>1
        <5>3. s.msg \in 1..s.msg /\ j + 1 < s.next + 1
          BY <1>1, <5>1 DEF Indexes, Sender
        <5> QED
          BY <2>3, <2>6, <2>7, <3>2, <5>2, <5>3 DEF PartOK, KeyOf
      <4> QED
        BY <4>1, <4>2
    <3>3. CASE k # key
      <4>1. PartOK(k, j) /\ m_reasm'[k] = m_reasm[k]
        BY <2>1, <2>9, <3>3 DEF PartsRight
      <4> DEFINE p == m_reasm[k].parts[j]
      <4> SUFFICES ASSUME p # Nothing
                   PROVE  /\ p.from \in Senders /\ k = <<FromAddr(p.from), p.msg % IdMod>>
                          /\ p.msg \in 1..sender'[p.from].msg /\ p.no = j + 1
                          /\ p.from \in Centrals => p.from \in wrote'
                          /\ p.msg = sender'[p.from].msg => p.no < sender'[p.from].next
        BY <4>1 DEF PartOK
      <4>2. /\ p.from \in Senders /\ k = <<FromAddr(p.from), p.msg % IdMod>>
            /\ p.msg \in 1..sender[p.from].msg /\ p.no = j + 1
            /\ p.from \in Centrals => p.from \in wrote
            /\ p.msg = sender[p.from].msg => p.no < sender[p.from].next
        BY <4>1 DEF PartOK
      <4>3. /\ sender[p.from] \in Sender /\ sender'[p.from] \in Sender
            /\ sender'[p.from].msg = sender[p.from].msg
            /\ sender'[p.from].next >= sender[p.from].next
        BY <1>0, <1>2, <3>1, <4>2 DEF FragTypes
      <4>4. p.no \in Nat
        BY <4>2 DEF Indexes
      <4> HIDE DEF p
      <4> QED
        BY <2>3, <4>2, <4>3, <4>4 DEF Sender
    <3> QED
      BY <3>2, <3>3
  <2>12. ASSUME NEW e \in Senders PROVE WholeOK(e)'
    <3> SUFFICES ASSUME sender'[e].whole, sender'[e].next \in 2..sender'[e].size,
                        NEW j \in 0..(sender'[e].next - 2)
                 PROVE  m_reasm'[KeyOf(e)].parts[j]
                          = [from |-> e, msg |-> sender'[e].msg, no |-> j + 1]
      BY <2>8 DEF WholeOK
    <3>1. CASE e = d
      <4>1. s.whole /\ s.next + 1 <= s.size /\ j \in 0..(s.next - 1) /\ sender'[e].msg = s.msg
        BY <1>1, <2>6, <2>7, <3>1 DEF Sender
      <4>2. ~Complete(r) /\ j \in Indexes
        BY <1>1, <2>2, <2>4, <4>1 DEF Sender, SenderOK, Indexes
      <4>3. r.parts[j] = [from |-> d, msg |-> s.msg, no |-> j + 1]
        BY <2>4, <4>1, <4>2
      <4>4. key \in Keys
        <5>1. s.msg % IdMod \in 0..(IdMod - 1) /\ FromAddr(d) \in Higher \cup {NoAddr}
          BY <1>1 DEF FromAddr
        <5> QED
          BY <5>1 DEF KeyOf, Keys
      <4>5. m_reasm'[key] = r
        BY <2>9, <4>2, <4>4
      <4> QED
        BY <3>1, <4>1, <4>3, <4>5
    <3>2. CASE e # d
      <4>1. sender'[e] = sender[e] /\ sender[e] \in Sender
        BY <1>0, <2>7, <3>2 DEF FragTypes
      <4>2. \A i \in 0..(sender[e].next - 2) :
              m_reasm[KeyOf(e)].parts[i] = [from |-> e, msg |-> sender[e].msg, no |-> i + 1]
        BY <2>1, <4>1 DEF PartsRight, WholeOK
      <4>3. sender[e].msg # 0 /\ sender[e].next \in 2..sender[e].size /\ sender[e].size < ByteMod
        BY <1>0, <2>1, <4>1 DEF FragTypes, PartsRight, SenderOK
      <4>4. KeyOf(e) \in Keys
        <5>1. sender[e].msg % IdMod \in 0..(IdMod - 1) /\ FromAddr(e) \in Higher \cup {NoAddr}
          BY <4>1 DEF FromAddr, Sender
        <5> QED
          BY <5>1 DEF KeyOf, Keys
      <4>5. KeyOf(e) # key
        <5> SUFFICES ASSUME KeyOf(e) = key PROVE FALSE
          OBVIOUS
        <5>1. 0 \in 0..(sender[e].next - 2) /\ 0 \in Indexes
          BY <4>1, <4>3 DEF Sender, Indexes
        <5> DEFINE p == m_reasm[KeyOf(e)].parts[0]
        <5>2. p = [from |-> e, msg |-> sender[e].msg, no |-> 1] /\ p # Nothing
          BY <4>1, <4>2, <4>3, <5>1 DEF Nothing
        <5>3. e \in Centrals => e \in wrote'
          <6>1. p.from = e
            BY <5>2
          <6>2. p.from \in Centrals => p.from \in wrote
            BY <2>1, <4>4, <5>1, <5>2 DEF PartsRight, PartOK
          <6> QED
            BY <2>3, <6>1, <6>2
        <5>4. FromAddr(e) = FromAddr(d)
          BY DEF KeyOf
        <5> QED
          BY <2>3, <3>2, <5>3, <5>4, AddressTellsSender
      <4>6. m_reasm'[KeyOf(e)] = m_reasm[KeyOf(e)]
        BY <2>9, <4>4, <4>5
      <4> QED
        BY <4>1, <4>2, <4>6
    <3> QED
      BY <3>1, <3>2
  <2> QED
    BY <1>2, <2>5, <2>10, <2>11, <2>12 DEF FragIInv, PartsRight
<1> QED
  BY <1>3, <1>4

\* A sender goes on to its next fragment, without the one before, or to its next
\* message: the parts that are kept stay in their place.
LEMMA SenderMoves ==
  ASSUME FragTypes, FragTypes', PartsRight, NEW d \in Senders, NEW new \in Sender,
         sender' = [sender EXCEPT ![d] = new],
         new.msg >= sender[d].msg, new.msg = sender[d].msg => new.next >= sender[d].next,
         new.msg <= IdMod, new.size < ByteMod,
         new.next <= new.size => new.given = 0,
         new.whole => new.next < 2,
         UNCHANGED <<m_reasm, wrote, garbled, missed>>
  PROVE  PartsRight'
<1>1. \A e \in Senders : sender'[e] = IF e = d THEN new ELSE sender[e]
  BY DEF FragTypes
<1>2. ASSUME NEW e \in Senders PROVE SenderOK(e)'
  BY <1>1 DEF PartsRight, SenderOK
<1>3. ASSUME NEW e \in Senders PROVE WholeOK(e)'
  <2>1. CASE e = d
    <3>1. ~(new.whole /\ new.next \in 2..new.size)
      BY DEF Sender
    <3> QED
      BY <1>1, <2>1, <3>1 DEF WholeOK
  <2>2. CASE e # d
    <3>1. sender'[e] = sender[e]
      BY <1>1, <2>2
    <3>2. KeyOf(e)' = KeyOf(e)
      BY <3>1 DEF KeyOf
    <3> QED
      BY <3>1, <3>2 DEF PartsRight, WholeOK
  <2> QED
    BY <2>1, <2>2
<1>4. ASSUME NEW k \in Keys, NEW j \in Indexes PROVE PartOK(k, j)'
  <2> DEFINE p == m_reasm[k].parts[j]
  <2> SUFFICES ASSUME p # Nothing
               PROVE  /\ p.from \in Senders /\ k = <<FromAddr(p.from), p.msg % IdMod>>
                      /\ p.msg \in 1..sender'[p.from].msg /\ p.no = j + 1
                      /\ p.from \in Centrals => p.from \in wrote'
                      /\ p.msg = sender'[p.from].msg => p.no < sender'[p.from].next
    BY DEF PartOK
  <2>1. /\ p.from \in Senders /\ k = <<FromAddr(p.from), p.msg % IdMod>>
        /\ p.msg \in 1..sender[p.from].msg /\ p.no = j + 1
        /\ p.from \in Centrals => p.from \in wrote
        /\ p.msg = sender[p.from].msg => p.no < sender[p.from].next
    BY DEF PartsRight, PartOK
  <2>2. /\ sender[p.from] \in Sender /\ sender'[p.from] \in Sender
        /\ sender'[p.from] = IF p.from = d THEN new ELSE sender[p.from]
    BY <1>1, <2>1 DEF FragTypes
  <2>3. p.no \in Nat
    BY <2>1 DEF Indexes
  <2> HIDE DEF p
  <2>4. CASE p.from = d
    BY <2>1, <2>2, <2>3, <2>4 DEF Sender
  <2>5. CASE p.from # d
    BY <2>1, <2>2, <2>5
  <2> QED
    BY <2>4, <2>5
<1> QED
  BY <1>2, <1>3, <1>4 DEF PartsRight

\* A fragment is lost.
LEMMA Lost ==
  ASSUME FragIInv, NEW d \in Senders, FragmentLost(d)
  PROVE  FragIInv'
<1> DEFINE s == sender[d]
           new == [s EXCEPT !.next = s.next + 1, !.whole = FALSE]
<1>0. /\ FragTypes /\ sender' = [sender EXCEPT ![d] = new]
      /\ UNCHANGED <<m_reasm, wrote, garbled, missed, reused, oversized>>
  BY DEF FragmentLost, FragIInv
<1>1. s \in Sender /\ s.next \in 1..s.size /\ s.next + 1 \in Nat /\ s.next + 1 > s.next
  BY <1>0 DEF FragTypes, FragmentLost, Sending, Sender
<1>2. /\ new \in Sender /\ new.msg = s.msg /\ new.size = s.size /\ new.next = s.next + 1
      /\ new.whole = FALSE /\ new.given = s.given
  BY <1>1 DEF Sender
<1> HIDE DEF new
<1>3. FragTypes'
  <2>1. \A e \in Senders : sender'[e] = IF e = d THEN new ELSE sender[e]
    BY <1>0 DEF FragTypes
  <2>2. new.msg # 0 /\ new.size > 0 /\ new.next > 0
    BY <1>0, <1>1, <1>2 DEF FragTypes, Sender
  <2> QED
    BY <1>0, <1>2, <2>1, <2>2 DEF FragTypes
<1>4. CASE Excused
  BY <1>0, <1>3, <1>4 DEF Excused, FragIInv
<1>5. CASE PartsRight
  <2>1. s.msg <= IdMod /\ s.size < ByteMod /\ s.given = 0
    BY <1>1, <1>5 DEF PartsRight, SenderOK
  <2>2. new.next >= s.next /\ new.msg >= s.msg
    BY <1>1, <1>2 DEF Sender
  <2>3. PartsRight'
    BY <1>0, <1>2, <1>3, <1>5, <2>1, <2>2, SenderMoves
  <2> QED
    BY <1>3, <2>3 DEF FragIInv
<1> QED
  BY <1>4, <1>5 DEF FragIInv

\* A message begins.
LEMMA Begins ==
  ASSUME FragIInv, NEW d \in Senders, NEW size \in Sizes, BeginMessage(d, size)
  PROVE  FragIInv'
<1> DEFINE s == sender[d]
           new == [msg |-> s.msg + 1, size |-> size, next |-> 1, whole |-> TRUE, given |-> 0]
<1>0. /\ FragTypes /\ sender' = [sender EXCEPT ![d] = new]
      /\ reused' = (reused \/ s.msg >= IdMod) /\ oversized' = (oversized \/ size >= ByteMod)
      /\ UNCHANGED <<m_reasm, wrote, garbled, missed>>
  BY DEF BeginMessage, FragIInv
<1>1. s \in Sender /\ s.msg \in Nat /\ s.msg + 1 \in Nat /\ size \in Nat /\ size > 0
  BY <1>0 DEF FragTypes, Sender
<1>2. /\ new \in Sender /\ new.msg = s.msg + 1 /\ new.size = size /\ new.next = 1
      /\ new.whole = TRUE /\ new.given = 0
  BY <1>1 DEF Sender
<1> HIDE DEF new
<1>3. FragTypes'
  <2>1. \A e \in Senders : sender'[e] = IF e = d THEN new ELSE sender[e]
    BY <1>0 DEF FragTypes
  <2>2. new.msg # 0 /\ new.size > 0 /\ new.next > 0
    BY <1>1, <1>2
  <2> QED
    BY <1>0, <1>2, <2>1, <2>2 DEF FragTypes
<1>4. CASE Excused'
  BY <1>3, <1>4 DEF FragIInv
<1>5. CASE ~Excused'
  <2>1. PartsRight
    BY <1>0, <1>3, <1>5, StillExcused DEF FragIInv
  <2>2. ~(s.msg >= IdMod) /\ ~(size >= ByteMod)
    BY <1>0, <1>5 DEF Excused
  <2>3. new.msg >= s.msg /\ new.msg # s.msg /\ new.msg <= IdMod /\ new.size < ByteMod
    BY <1>1, <1>2, <2>2
  <2>4. /\ new \in Sender /\ new.msg >= s.msg /\ (new.msg = s.msg => new.next >= s.next)
        /\ (new.next <= new.size => new.given = 0) /\ (new.whole => new.next < 2)
    BY <1>2, <2>3
  <2>5. PartsRight'
    BY <1>0, <1>3, <2>1, <2>3, <2>4, SenderMoves
  <2> QED
    BY <1>3, <2>5 DEF FragIInv
<1> QED
  BY <1>4, <1>5

LEMMA FragInit == Init => FragIInv
<1> SUFFICES ASSUME Init PROVE FragIInv
  OBVIOUS
<1>1. Silent \in Sender /\ Nothing \in Part /\ NoParts \in Reassembly
  BY DEF Silent, Sender, Nothing, Part, NoParts, Reassembly
<1>2. \A d \in Senders : sender[d] = Silent
  BY DEF Init
<1>3. \A k \in Keys : m_reasm[k] = NoParts
  BY DEF Init
<1>4. FragTypes
  <2>1. IsFiniteSet(wrote) /\ wrote \subseteq Centrals
    BY FS_EmptySet DEF Init
  <2>2. sender \in [Senders -> Sender] /\ m_reasm \in [Keys -> Reassembly]
    BY <1>1 DEF Init
  <2>3. \A d \in Senders : sender[d].msg = 0 /\ sender[d].size = 0
    BY <1>2 DEF Silent
  <2> QED
    BY <2>1, <2>2, <2>3 DEF FragTypes
<1>5. ASSUME NEW d \in Senders PROVE SenderOK(d) /\ WholeOK(d)
  <2>1. SenderOK(d)
    BY <1>2 DEF SenderOK, Silent
  <2>2. ~(sender[d].next \in 2..sender[d].size)
    BY <1>2 DEF Silent
  <2> QED
    BY <2>1, <2>2 DEF WholeOK
<1>6. ASSUME NEW k \in Keys, NEW j \in Indexes PROVE PartOK(k, j)
  BY <1>3 DEF PartOK, NoParts
<1> QED
  BY <1>4, <1>5, <1>6 DEF FragIInv, PartsRight, Init

LEMMA FragStep == FragIInv /\ [Next]_vars => FragIInv'
<1> SUFFICES ASSUME FragIInv, [Next]_vars PROVE FragIInv'
  OBVIOUS
<1>1. ASSUME UNCHANGED fragVars PROVE FragIInv'
  <2>1. FragTypes' /\ (Excused => Excused')
    BY <1>1 DEF FragIInv, FragTypes, Excused, fragVars
  <2>2. PartsRight => PartsRight'
    BY <1>1 DEF PartsRight, SenderOK, WholeOK, PartOK, KeyOf, fragVars
  <2> QED
    BY <2>1, <2>2 DEF FragIInv
<1>2. ASSUME NEW d \in Senders,
             \/ FragmentArrives(d) \/ FragmentLost(d)
             \/ \E size \in Sizes : BeginMessage(d, size)
      PROVE  FragIInv'
  BY <1>2, Arrives, Lost, Begins
<1>3. CASE \/ Start \/ Stop
           \/ \E a \in Addrs : Discovered(a)
           \/ Controller
           \/ \E n \in NodeIds, size \in Sizes : SendTo(n, size)
  <2>1. Controller => UNCHANGED fragVars
    BY DEF Controller, ServiceReady, ServiceMissing, ErrorOccurred, Disconnected,
           Written, Nudge, Announced
  <2>2. UNCHANGED fragVars
    BY <1>3, <2>1 DEF Start, Stop, Discovered, SendTo
  <2> QED
    BY <1>1, <2>2
<1>4. CASE UNCHANGED vars
  BY <1>1, <1>4 DEF vars
<1> QED
  BY <1>2, <1>3, <1>4 DEF Next

\* The invariant of the fragments.
THEOREM FragmentsInvariance == Spec => []FragIInv
<1> QED
  BY FragInit, FragStep, PTL DEF Spec

\* Messages come out as they went in, whole and once, as long as no two centrals
\* share the empty address, no device repeats an id and no header overflows.
THEOREM MessagesRejoin == Spec => []FragmentsRejoin
<1>1. FragIInv => FragmentsRejoin
  BY DEF FragIInv, PartsRight, FragmentsRejoin
<1> QED
  BY <1>1, FragmentsInvariance, PTL
================================================================================
