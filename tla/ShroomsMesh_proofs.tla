-------------------------- MODULE ShroomsMesh_proofs --------------------------
(***************************************************************************)
(* Proofs about shrooms_mesh, for any peers, meshes and sources.           *)
(***************************************************************************)
EXTENDS ShroomsMesh, FiniteSetTheorems, TLAPS

USE AddressAssumption, SourceAssumption

\* One fetch at a time, as the sources show it: none or one is being asked, and
\* the flag says which.
OneSource == IF m_fetching THEN \E i \in Sources : asked = {i} ELSE asked = {}

\* What a list of any source asks for stays within the known meshes and the known
\* peers (applyPeers).
LEMMA ListWithinBounds ==
  ASSUME TypeOK, NEW i \in Sources
  PROVE  /\ ListedMeshes(i) \subseteq {MeshOf[a] : a \in Addrs \cup Self}
         /\ Wanted(i) \subseteq Addrs
BY DEF ListedMeshes, Wanted, TypeOK

\* A fetch leaves one source asked, or is the one that was under way.
LEMMA FetchAsksOne ==
  ASSUME OneSource, FetchPeers
  PROVE  OneSource'
<1>1. CASE m_fetching
  BY <1>1 DEF OneSource, FetchPeers
<1>2. CASE ~m_fetching
  <2>1. m_fetching' = TRUE /\ asked' = {0}
    BY <1>2 DEF OneSource, FetchPeers
  <2>2. 0 \in Sources
    BY DEF Sources
  <2> QED
    BY <2>1, <2>2 DEF OneSource
<1> QED
  BY <1>1, <1>2

\* The next source takes the place of the one that failed, or the fetch ends.
LEMMA NextAsksOne ==
  ASSUME OneSource, NEW i \in asked, NextSource(i)
  PROVE  OneSource'
<1>1. m_fetching /\ asked = {i}
  BY DEF OneSource
<1>2. CASE i + 1 \in Sources
  BY <1>1, <1>2 DEF NextSource, OneSource
<1>3. CASE i + 1 \notin Sources
  BY <1>1, <1>3 DEF NextSource, OneSource
<1> QED
  BY <1>2, <1>3

-----------------------------------------------------------------------------
\* Type correctness, for the steps below (start to fetchFrom, applyPeers, listen).
\* That m_servers stays within Self is the system's doing, as SourceAnswers says.
THEOREM TypeCorrect == Spec => []TypeOK
<1>1. Init => TypeOK
  <2> SUFFICES ASSUME Init PROVE TypeOK
    OBVIOUS
  <2>1. m_out \in [Addrs -> {"none", "idle", "connecting", "connected"}]
    BY DEF Init, NoConnections
  <2>2. lateLists \in Nat /\ online \subseteq Addrs
    BY DEF Init
  <2> QED
    BY <2>1, <2>2 DEF Init, TypeOK
<1>2. TypeOK /\ [Next]_vars => TypeOK'
  <2> SUFFICES ASSUME TypeOK, [Next]_vars PROVE TypeOK'
    OBVIOUS
  <2>0. FetchPeers => asked' \subseteq Sources /\ m_fetching' \in BOOLEAN
    <3>1. 0 \in Sources
      BY DEF Sources
    <3> QED
      BY <3>1 DEF FetchPeers, TypeOK
  <2>1. CASE Start
    BY <2>0, <2>1 DEF Start, TypeOK
  <2>2. CASE Refresh
    BY <2>0, <2>2 DEF Refresh, TypeOK
  <2>3. CASE TimerFires
    BY <2>0, <2>3 DEF TimerFires, TypeOK
  <2>4. CASE Stop
    BY <2>4 DEF Stop, NoConnections, TypeOK
  <2>5. ASSUME NEW i \in Sources, SourceFails(i) PROVE TypeOK'
    BY <2>5 DEF SourceFails, NextSource, TypeOK
  <2>6. ASSUME NEW i \in Sources, SourceAnswers(i) PROVE TypeOK'
    <3>1. m_out' \in [Addrs -> {"none", "idle", "connecting", "connected"}]
      BY <2>6 DEF SourceAnswers, Connections, TypeOK
    <3>2. m_servers' \subseteq Self
      BY <2>6 DEF SourceAnswers, TypeOK
    <3>3. lateLists' \in Nat
      BY <2>6 DEF SourceAnswers, TypeOK
    <3>4. /\ m_started' = m_started /\ m_timer' = m_timer /\ m_fetching' = FALSE
          /\ online' = online /\ asked' = asked \ {i}
          /\ m_prefixes' = ListedMeshes(i) /\ listed' = Wanted(i)
      BY <2>6 DEF SourceAnswers
    <3> QED
      BY <3>1, <3>2, <3>3, <3>4, ListWithinBounds DEF TypeOK
  <2>7. ASSUME NEW a \in Addrs, Connected(a) \/ Disconnected(a) PROVE TypeOK'
    BY <2>7 DEF Connected, Disconnected, Out, TypeOK
  <2>8. ASSUME NEW a \in Addrs, PeerChanges(a) PROVE TypeOK'
    BY <2>8 DEF PeerChanges, moduleVars, TypeOK
  <2>9. CASE UNCHANGED vars
    BY <2>9 DEF vars, moduleVars, TypeOK
  <2> QED
    BY <2>1, <2>2, <2>3, <2>4, <2>5, <2>6, <2>7, <2>8, <2>9 DEF Next
<1> QED
  BY <1>1, <1>2, PTL DEF Spec

-----------------------------------------------------------------------------
\* None or one source is being asked, through any number of refreshes, timers,
\* stops and starts (fetchPeers, fetchFrom).
LEMMA OneSourceAlways == Spec => []OneSource
<1>1. Init => OneSource
  BY DEF Init, OneSource
<1>2. OneSource /\ [Next]_vars => OneSource'
  <2> SUFFICES ASSUME OneSource, [Next]_vars PROVE OneSource'
    OBVIOUS
  <2>1. CASE Start \/ Refresh \/ TimerFires
    BY <2>1, FetchAsksOne DEF Start, Refresh, TimerFires
  <2>2. CASE Stop
    BY <2>2 DEF Stop, OneSource
  <2>3. ASSUME NEW i \in Sources, SourceFails(i) PROVE OneSource'
    BY <2>3, NextAsksOne DEF SourceFails
  <2>4. ASSUME NEW i \in Sources, SourceAnswers(i) PROVE OneSource'
    BY <2>4 DEF SourceAnswers, OneSource
  <2>5. ASSUME NEW a \in Addrs, Connected(a) \/ Disconnected(a) PROVE OneSource'
    BY <2>5 DEF Connected, Disconnected, Out, OneSource
  <2>6. ASSUME NEW a \in Addrs, PeerChanges(a) PROVE OneSource'
    BY <2>6 DEF PeerChanges, moduleVars, OneSource
  <2>7. CASE UNCHANGED vars
    BY <2>7 DEF vars, moduleVars, OneSource
  <2> QED
    BY <2>1, <2>2, <2>3, <2>4, <2>5, <2>6, <2>7 DEF Next
<1> QED
  BY <1>1, <1>2, PTL DEF Spec

\* One fetch at a time, through any number of refreshes, timers, stops and
\* starts, and whatever the sources do (fetchPeers, fetchFrom).
THEOREM FetchesDontOverlap == Spec => []OneFetch
<1>1. OneSource => OneFetch
  <2>1. CASE m_fetching
    <3>1. ASSUME OneSource PROVE \E i \in Sources : asked = {i}
      BY <2>1, <3>1 DEF OneSource
    <3>2. ASSUME NEW i, asked = {i} PROVE Cardinality(asked) <= 1 /\ asked # {}
      <4>1. Cardinality({i}) = 1
        BY FS_Singleton
      <4> QED
        BY <3>2, <4>1
    <3> QED
      BY <2>1, <3>1, <3>2 DEF OneFetch
  <2>2. CASE ~m_fetching
    BY <2>2, FS_EmptySet DEF OneSource, OneFetch
  <2> QED
    BY <2>1, <2>2
<1> QED
  BY <1>1, OneSourceAlways, PTL

-----------------------------------------------------------------------------
\* The outgoing connections are those of the last list applied (applyPeers).
THEOREM ConnectionsAsListed == Spec => []OutAsListed
<1>1. Init => OutAsListed
  BY DEF Init, NoConnections, OutAsListed
<1>2. TypeOK /\ OutAsListed /\ [Next]_vars => OutAsListed'
  <2> SUFFICES ASSUME TypeOK, OutAsListed, [Next]_vars PROVE OutAsListed'
    OBVIOUS
  <2>1. CASE Start \/ Refresh \/ TimerFires
    BY <2>1 DEF Start, Refresh, TimerFires, OutAsListed
  <2>2. CASE Stop
    BY <2>2 DEF Stop, NoConnections, OutAsListed
  <2>3. ASSUME NEW i \in Sources, SourceFails(i) PROVE OutAsListed'
    BY <2>3 DEF SourceFails, OutAsListed
  <2>4. ASSUME NEW i \in Sources, SourceAnswers(i) PROVE OutAsListed'
    BY <2>4 DEF SourceAnswers, Connections, OutAsListed, TypeOK
  <2>5. ASSUME NEW a \in Addrs, Connected(a) \/ Disconnected(a) PROVE OutAsListed'
    BY <2>5 DEF Connected, Disconnected, Out, OutAsListed, TypeOK
  <2>6. ASSUME NEW a \in Addrs, PeerChanges(a) PROVE OutAsListed'
    BY <2>6 DEF PeerChanges, moduleVars, OutAsListed
  <2>7. CASE UNCHANGED vars
    BY <2>7 DEF vars, moduleVars, OutAsListed
  <2> QED
    BY <2>1, <2>2, <2>3, <2>4, <2>5, <2>6, <2>7 DEF Next
<1> QED
  BY <1>1, <1>2, TypeCorrect, PTL DEF Spec

-----------------------------------------------------------------------------
\* The timer runs only while the module is started.
TimerStops == ~m_started => ~m_timer

\* After stop() one list at most is applied until the next start(), the answer of
\* the fetch under way; nothing opens before it and nothing is asked after it
\* (stop, fetchPeers, fetchFrom, applyPeers).
THEOREM StopEndsAsking == Spec => []StopAsksNoMore
<1> DEFINE IInv == StopAsksNoMore /\ TimerStops
<1>1. Init => IInv
  BY DEF Init, StopAsksNoMore, TimerStops
<1>2. TypeOK /\ OneSource /\ IInv /\ [Next]_vars => IInv'
  <2> SUFFICES ASSUME TypeOK, OneSource, StopAsksNoMore, TimerStops, [Next]_vars
               PROVE  IInv'
    OBVIOUS
  <2>1. CASE Start
    BY <2>1 DEF Start, StopAsksNoMore, TimerStops
  <2>2. CASE Refresh
    BY <2>2 DEF Refresh, StopAsksNoMore, TimerStops
  <2>3. CASE TimerFires
    BY <2>3 DEF TimerFires, StopAsksNoMore, TimerStops
  <2>4. CASE Stop
    BY <2>4 DEF Stop, StopAsksNoMore, TimerStops
  <2>5. ASSUME NEW i \in Sources, SourceFails(i) PROVE IInv'
    <3>1. m_fetching' => m_fetching
      BY <2>5 DEF SourceFails, NextSource, OneSource
    <3> QED
      BY <2>5, <3>1 DEF SourceFails, StopAsksNoMore, TimerStops, NoConnections
  <2>6. ASSUME NEW i \in Sources, SourceAnswers(i) PROVE IInv'
    <3>1. m_fetching
      BY <2>6 DEF SourceAnswers, OneSource
    <3>2. /\ m_fetching' = FALSE /\ m_started' = m_started /\ m_timer' = m_timer
          /\ ~m_started => lateLists' = lateLists + 1
      BY <2>6 DEF SourceAnswers
    <3> QED
      BY <3>1, <3>2 DEF StopAsksNoMore, TimerStops
  <2>7. ASSUME NEW a \in Addrs, Connected(a) \/ Disconnected(a) PROVE IInv'
    <3>1. m_out # NoConnections
      BY <2>7 DEF Connected, Disconnected, NoConnections
    <3> QED
      BY <2>7, <3>1 DEF Connected, Disconnected, Out, StopAsksNoMore, TimerStops
  <2>8. ASSUME NEW a \in Addrs, PeerChanges(a) PROVE IInv'
    BY <2>8 DEF PeerChanges, moduleVars, StopAsksNoMore, TimerStops, NoConnections
  <2>9. CASE UNCHANGED vars
    BY <2>9 DEF vars, moduleVars, StopAsksNoMore, TimerStops, NoConnections
  <2> HIDE DEF IInv
  <2> QED
    BY <2>1, <2>2, <2>3, <2>4, <2>5, <2>6, <2>7, <2>8, <2>9 DEF Next
<1> QED
  BY <1>1, <1>2, TypeCorrect, OneSourceAlways, PTL DEF Spec
==============================================================================
