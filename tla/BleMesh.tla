------------------------------- MODULE BleMesh -------------------------------
(***************************************************************************)
(* The flood-gossip of ble_mesh (ble_mesh/src/mesh.hpp, wrapped by         *)
(* ble_mesh_impl.cpp) on several machines in radio range of each other.    *)
(*                                                                         *)
(* A frame is its identity: the id is a hash of topic and payload, made    *)
(* again by every receiver.  Relays and first sends wait a random time on  *)
(* a timer (later), so they happen in any order.  The radio may lose a     *)
(* frame and deliver frames out of order.                                  *)
(***************************************************************************)
EXTENDS Naturals, Sequences, FiniteSets

CONSTANTS Nodes,
          Ranges,      \* the layouts: pairs of nodes in radio range of each other
          Ids,         \* frame identities
          TTL,         \* ttl_ (7), which goes out in a byte
          Spread,      \* originHopSpread of setPrivacy (2)
          SeenCap,     \* cap_ of the seen set (4096)
          ForeignHops, \* hop bytes other implementations send (0..255)
          Nobody,      \* no node: nothing to leave out of a broadcast
          MaxSends,    \* bound: frames originated in a behaviour
          Stoppers     \* nodes that are stopped and started

ASSUME RangeAssumption ==
  \A r \in Ranges :
    /\ r \subseteq Nodes \X Nodes
    /\ \A n, p \in Nodes : <<n, p>> \in r => (<<p, n>> \in r /\ n # p)
ASSUME NobodyAssumption == Nobody \notin Nodes
ASSUME NumbersAssumption ==
  /\ TTL \in 1..255 /\ Spread \in Nat /\ SeenCap \in Nat \ {0}
  /\ ForeignHops \subseteq 0..255 /\ MaxSends \in Nat
ASSUME StoppersAssumption == Stoppers \subseteq Nodes

VARIABLES
  range,      \* the layout; it stays
  m_started,  \* per node: the radio is on
  order,      \* per node: order_ of the seen set; ids_ is what is in it
  waiting,    \* per node: broadcasts waiting on their timer
  air         \* frames on their way over the radio

VARIABLES
  heard,      \* history: per node, every identity that entered its seen set
  sends,      \* history: frames originated
  impaired    \* history: a frame was lost, or a foreign one came

vars == <<range, m_started, order, waiting, air, heard, sends, impaired>>

\* relays counts how often a copy has been relayed; it is not on the wire.
Waiting == [id : Ids, hop : 0..255, except : Nodes \cup {Nobody}, relays : Nat]
Copy == [from : Nodes, to : Nodes, id : Ids, hop : 0..255, relays : Nat]

Init ==
  /\ range \in Ranges
  /\ m_started = [n \in Nodes |-> n \notin Stoppers]
  /\ order = [n \in Nodes |-> << >>]
  /\ waiting = [n \in Nodes |-> {}]
  /\ air = {}
  /\ heard = [n \in Nodes |-> << >>]
  /\ sends = 0
  /\ impaired = FALSE

-----------------------------------------------------------------------------
Lesser(a, b) == IF a < b THEN a ELSE b

\* SeenSet::has.
Seen(n, id) == \E i \in 1..Len(order[n]) : order[n][i] = id

\* Fault: a full seen set forgets the newest identity.
AddedOldest(s, id) == IF Len(s) < SeenCap THEN Append(s, id) ELSE s

\* SeenSet::add of a new identity.
Added(s, id) == IF Len(s) < SeenCap THEN Append(s, id) ELSE Append(Tail(s), id)

Remember(n, id) ==
  /\ order' = [order EXCEPT ![n] = Added(@, id)]
  /\ heard' = [heard EXCEPT ![n] = Append(@, id)]

\* later(): the broadcast is put on a timer.
Later(n, w) == waiting' = [waiting EXCEPT ![n] = @ \cup {w}]

\* peers() of the radio: the links of a stopped radio are gone.
Peers(n) == {p \in Nodes : <<n, p>> \in range /\ m_started[n] /\ m_started[p]}

InRange(n) == {p \in Nodes : <<n, p>> \in range}

OriginHops == (TTL - Lesser(Spread, TTL - 1))..TTL

\* flood(): the module takes frames whether or not it is started.
Flood(n, id) ==
  /\ sends < MaxSends
  /\ sends' = sends + 1
  /\ \/ /\ Seen(n, id)
        /\ UNCHANGED <<order, heard, waiting>>
     \/ /\ ~Seen(n, id)
        /\ Remember(n, id)
        /\ \E hop \in OriginHops :
             Later(n, [id |-> id, hop |-> hop, except |-> Nobody, relays |-> 0])
  /\ UNCHANGED <<range, m_started, air, impaired>>

\* Fault: the timer is not a single shot.
FireAgain(n) ==
  \E w \in waiting[n] :
    /\ air' = air \cup {[from |-> n, to |-> p, id |-> w.id, hop |-> w.hop,
                         relays |-> w.relays] : p \in Peers(n) \ {w.except}}
    /\ impaired' = (impaired \/ Peers(n) # InRange(n))
    /\ UNCHANGED <<range, m_started, waiting, order, heard, sends>>

\* The timer of a broadcast fires: a copy to every peer but the one it came from.
Fire(n) ==
  \E w \in waiting[n] :
    /\ waiting' = [waiting EXCEPT ![n] = @ \ {w}]
    /\ air' = air \cup {[from |-> n, to |-> p, id |-> w.id, hop |-> w.hop,
                         relays |-> w.relays] : p \in Peers(n) \ {w.except}}
    /\ impaired' = (impaired \/ Peers(n) # InRange(n))
    /\ UNCHANGED <<range, m_started, order, heard, sends>>

\* Fault: the hop is passed on as it came.
RelayedUndiminished(hop) == Lesser(hop, TTL)

\* Fault: a frame at its last hop but one is not relayed.
RelayedEarly(hop) == IF hop > 2 THEN Lesser(hop, TTL) - 1 ELSE 0

\* The hop a frame is relayed with; 0: not at all.
Relayed(hop) == IF hop > 1 THEN Lesser(hop, TTL) - 1 ELSE 0

\* onRadio(): announce what was not seen, and carry it forward.
Hear(n, id, hop, from, relays) ==
  /\ ~Seen(n, id)
  /\ Remember(n, id)
  /\ \/ /\ Relayed(hop) = 0
        /\ UNCHANGED waiting
     \/ /\ Relayed(hop) > 0
        /\ Later(n, [id |-> id, hop |-> Relayed(hop), except |-> from,
                     relays |-> relays + 1])

Receive ==
  \E m \in air :
    /\ air' = air \ {m}
    /\ \/ /\ m_started[m.to]
          /\ Hear(m.to, m.id, m.hop, m.from, m.relays)
          /\ UNCHANGED impaired
       \/ /\ m_started[m.to] /\ Seen(m.to, m.id)
          /\ UNCHANGED <<order, heard, waiting, impaired>>
       \/ /\ ~m_started[m.to]
          /\ impaired' = TRUE
          /\ UNCHANGED <<order, heard, waiting>>
    /\ UNCHANGED <<range, m_started, sends>>

Lose ==
  \E m \in air :
    /\ air' = air \ {m}
    /\ impaired' = TRUE
    /\ UNCHANGED <<range, m_started, order, waiting, heard, sends>>

\* A phone of the mesh, at any hop, in range of n.
Foreign(n, id, hop) ==
  /\ sends < MaxSends
  /\ sends' = sends + 1
  /\ m_started[n]
  /\ Hear(n, id, hop, Nobody, 0)
  /\ impaired' = TRUE
  /\ UNCHANGED <<range, m_started, air>>

Start(n) ==
  /\ ~m_started[n]
  /\ m_started' = [m_started EXCEPT ![n] = TRUE]
  /\ UNCHANGED <<range, order, waiting, air, heard, sends, impaired>>

\* stop(): the radio goes off; the timers and the seen set stay.
Stop(n) ==
  /\ n \in Stoppers
  /\ m_started[n]
  /\ m_started' = [m_started EXCEPT ![n] = FALSE]
  /\ UNCHANGED <<range, order, waiting, air, heard, sends, impaired>>

Next ==
  \/ \E n \in Nodes : Fire(n) \/ Start(n) \/ Stop(n)
  \/ \E n \in Nodes, id \in Ids : Flood(n, id)
  \/ \E n \in Nodes, id \in Ids, hop \in ForeignHops : Foreign(n, id, hop)
  \/ Receive \/ Lose

Spec == Init /\ [][Next]_vars

\* Timers fire, and the radio delivers a frame or loses it.
Fairness ==
  /\ \A n \in Nodes : WF_vars(Fire(n))
  /\ WF_vars(Receive \/ Lose)

FairSpec == Spec /\ Fairness

-----------------------------------------------------------------------------
TypeOK ==
  /\ range \in Ranges
  /\ m_started \in [Nodes -> BOOLEAN]
  /\ order \in [Nodes -> Seq(Ids)]
  /\ \A n \in Nodes : Len(order[n]) <= SeenCap
  /\ heard \in [Nodes -> Seq(Ids)]
  /\ \A n \in Nodes : waiting[n] \subseteq Waiting
  /\ air \subseteq Copy
  /\ sends \in 0..MaxSends
  /\ impaired \in BOOLEAN

\* No copy is relayed more than TTL - 1 times, whatever hop a foreign device put
\* in it and however often the seen sets forgot it.
HopBudget ==
  /\ \A n \in Nodes : \A w \in waiting[n] :
       w.hop + w.relays <= TTL /\ w.hop > 0
  /\ \A m \in air : m.hop + m.relays <= TTL

\* That, and every part of the state well typed.
GossipInv == TypeOK /\ HopBudget

HeardBy(n) == {heard[n][i] : i \in 1..Len(heard[n])}

Stream(n) == INSTANCE DedupStream WITH
               Window <- SeenCap, log <- heard[n], offered <- HeardBy(n)

\* Each node is the stream of DedupStream, as MultiBearer above it is: it announces
\* a frame once, and never one of its own, until SeenCap others have gone by.
HeardAsStream ==
  /\ \A n \in Nodes : Stream(n)!Init
  /\ [][\A n \in Nodes : Stream(n)!Next \/ heard'[n] = heard[n]]_vars

Quiet == air = {} /\ \A n \in Nodes : waiting[n] = {}

\* Every layout holds together, and the least hop a frame starts with is enough for
\* a way through all nodes.
Reaches ==
  /\ IsFiniteSet(Nodes)
  /\ \A hop \in OriginHops : hop + 1 >= Cardinality(Nodes)
  /\ \A r \in Ranges : \A S \in SUBSET Nodes :
       S # {} /\ S # Nodes => \E n \in S, p \in Nodes \ S : <<n, p>> \in r

\* With hops enough for the longest way round, a flood that has died out has got
\* to every node, unless the radio lost a copy or a foreign one took its place:
\* a copy that came the long way never keeps a shorter one from going on.
FloodReached ==
  (Quiet /\ ~impaired) => \A n, p \in Nodes : HeardBy(n) = HeardBy(p)

\* A flood dies out: once nothing new is sent, no frame is under way any more,
\* even when the seen sets are too small to recognise it.
FloodEnds == <>[]Quiet
==============================================================================
