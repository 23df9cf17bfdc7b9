----------------------------- MODULE ShroomsMesh -----------------------------
(***************************************************************************)
(* The connections of shrooms_mesh (shrooms_mesh/src/shrooms_mesh_impl.cpp *)
(* with the peer lists of mesh_wire.hpp): it asks the Shrooms daemon, then *)
(* the agent, who the mesh peers are, listens on its own mesh addresses,   *)
(* and keeps one outgoing connection to every peer that is listed.         *)
(*                                                                         *)
(* The sources of peer lists are numbered from 0, in the order they are    *)
(* asked.  A daemon names the meshes and may name own addresses; an        *)
(* agent names peers only, and the rest is worked out.  An address test    *)
(* against a prefix is membership of the address's mesh in a set.          *)
(***************************************************************************)
EXTENDS Naturals, FiniteSets

CONSTANTS Addrs,       \* mesh addresses of peers
          Self,        \* mesh addresses of this machine
          MeshOf,      \* the mesh of an address
          Meshes,      \* the meshes the daemon names
          NumSources,  \* sources that are configured
          Daemons      \* which of them are daemons

ASSUME AddressAssumption ==
  /\ Addrs \cap Self = {}
  /\ Meshes \subseteq {MeshOf[a] : a \in Addrs \cup Self}
ASSUME SourceAssumption ==
  NumSources \in Nat \ {0} /\ Daemons \subseteq 0..(NumSources - 1)

VARIABLES
  m_started,
  m_timer,     \* the minute timer runs
  m_fetching,
  m_servers,   \* own addresses listened on
  m_prefixes,  \* meshes inbound connections are accepted from
  m_out        \* per address: "none", "idle", "connecting" or "connected"

VARIABLES
  asked,       \* the sources being asked
  online       \* peers that are up, as daemon and agent report them

VARIABLES
  listed,      \* history: the peers wanted by the last list applied
  lateLists    \* history: lists applied since stop(), before the next start()

moduleVars == <<m_started, m_timer, m_fetching, m_servers, m_prefixes, m_out>>
vars == <<moduleVars, asked, online, listed, lateLists>>

Sources == 0..(NumSources - 1)
NoConnections == [a \in Addrs |-> "none"]

Init ==
  /\ m_started = FALSE /\ m_timer = FALSE /\ m_fetching = FALSE
  /\ m_servers = {} /\ m_prefixes = {} /\ m_out = NoConnections
  /\ asked = {}
  /\ online \in SUBSET Addrs
  /\ listed = {}
  /\ lateLists = 0

-----------------------------------------------------------------------------
\* Fault: a fetch starts whether or not one is under way.
FetchAlways ==
  /\ m_fetching' = TRUE
  /\ asked' = asked \cup {0}

\* fetchPeers(): one fetch at a time, from the first source on.
FetchPeers ==
  IF m_fetching THEN UNCHANGED <<m_fetching, asked>>
                ELSE m_fetching' = TRUE /\ asked' = asked \cup {0}

Start ==
  /\ ~m_started
  /\ m_started' = TRUE
  /\ m_timer' = TRUE
  /\ FetchPeers
  /\ UNCHANGED <<m_servers, m_prefixes, m_out, online, listed, lateLists>>

Refresh ==
  /\ m_started
  /\ FetchPeers
  /\ UNCHANGED <<m_started, m_timer, m_servers, m_prefixes, m_out, online, listed,
                 lateLists>>

TimerFires ==
  /\ m_timer
  /\ FetchPeers
  /\ UNCHANGED <<m_started, m_timer, m_servers, m_prefixes, m_out, online, listed,
                 lateLists>>

\* Fault: the timer of start() runs on.
StopTimerRuns ==
  /\ m_started
  /\ m_started' = FALSE
  /\ m_servers' = {}
  /\ m_out' = NoConnections
  /\ lateLists' = 0
  /\ listed' = {}
  /\ UNCHANGED <<m_timer, m_fetching, m_prefixes, asked, online>>

\* stop(): a fetch under way goes on.
Stop ==
  /\ m_started
  /\ m_started' = FALSE
  /\ m_timer' = FALSE
  /\ m_servers' = {}
  /\ m_out' = NoConnections
  /\ lateLists' = 0
  /\ listed' = {}
  /\ UNCHANGED <<m_fetching, m_prefixes, asked, online>>

-----------------------------------------------------------------------------
\* Fault: the end of the sources is not the end of the fetch.
NextSourceOnly(i) ==
  /\ asked' = (asked \ {i}) \cup ({i + 1} \cap Sources)
  /\ UNCHANGED m_fetching

\* fetchFrom(i + 1).
NextSource(i) ==
  IF i + 1 \in Sources
  THEN /\ asked' = (asked \ {i}) \cup {i + 1}
       /\ UNCHANGED m_fetching
  ELSE /\ asked' = asked \ {i}
       /\ m_fetching' = FALSE

\* No answer in 5 s, no such socket, or nothing useful in the answer.
SourceFails(i) ==
  /\ i \in asked
  /\ NextSource(i)
  /\ UNCHANGED <<m_started, m_timer, m_servers, m_prefixes, m_out, online, listed,
                 lateLists>>

ListedMeshes(i) == IF i \in Daemons /\ Meshes # {}
                   THEN Meshes ELSE {MeshOf[a] : a \in online}

\* The addresses to listen on: those the answer names, or else the interfaces
\* inside the listed meshes.
OwnAddresses(i, self) ==
  IF self # {} THEN self ELSE {s \in Self : MeshOf[s] \in ListedMeshes(i)}

Wanted(i) == {a \in online : MeshOf[a] \in ListedMeshes(i)}

\* Fault: a connection that failed once is not tried again.
ConnectionsOnce(want) ==
  [a \in Addrs |-> IF a \notin want THEN "none"
                   ELSE IF m_out[a] = "none" THEN "connecting" ELSE m_out[a]]

\* One connection per wanted peer: made, kept, or tried again.
Connections(want) ==
  [a \in Addrs |-> IF a \notin want THEN "none"
                   ELSE IF m_out[a] \in {"connecting", "connected"} THEN m_out[a]
                   ELSE "connecting"]

\* The answer of source i is applied.  A daemon may name any addresses as this
\* machine's, a peer's too, or none; listen() may fail for each, and the system
\* makes it fail for an address this machine does not have.
SourceAnswers(i) ==
  /\ i \in asked
  /\ \E self \in SUBSET (IF i \in Daemons THEN Addrs \cup Self ELSE {}) :
       /\ online # {} \/ self # {}
       /\ \E bound \in SUBSET (OwnAddresses(i, self) \cap Self) :
            m_servers' = m_servers \cup bound
  /\ asked' = asked \ {i}
  /\ m_fetching' = FALSE
  /\ m_prefixes' = ListedMeshes(i)
  /\ m_out' = Connections(Wanted(i))
  /\ listed' = Wanted(i)
  /\ lateLists' = IF m_started THEN lateLists ELSE lateLists + 1
  /\ UNCHANGED <<m_started, m_timer, online>>

-----------------------------------------------------------------------------
Out(a, s) ==
  /\ m_out' = [m_out EXCEPT ![a] = s]
  /\ UNCHANGED <<m_started, m_timer, m_fetching, m_servers, m_prefixes, asked,
                 online, listed, lateLists>>

Connected(a) ==
  /\ m_out[a] = "connecting"
  /\ a \in online
  /\ Out(a, "connected")

\* Refused, timed out, or closed: nothing happens until the next list.
Disconnected(a) ==
  /\ m_out[a] \in {"connecting", "connected"}
  /\ Out(a, "idle")

\* A peer comes or goes.
PeerChanges(a) ==
  /\ online' = IF a \in online THEN online \ {a} ELSE online \cup {a}
  /\ UNCHANGED <<moduleVars, asked, listed, lateLists>>

Next ==
  \/ Start \/ Refresh \/ TimerFires \/ Stop
  \/ \E i \in Sources : SourceFails(i) \/ SourceAnswers(i)
  \/ \E a \in Addrs : Connected(a) \/ Disconnected(a) \/ PeerChanges(a)

Spec == Init /\ [][Next]_vars

\* The timer fires, a source that is asked answers or is given up after 5 s, and
\* a connection attempt ends one way or the other.
Fairness ==
  /\ WF_vars(TimerFires)
  /\ \A i \in Sources : WF_vars(SourceFails(i) \/ SourceAnswers(i))
  /\ \A a \in Addrs : WF_vars(Connected(a) \/ (m_out[a] = "connecting" /\ Disconnected(a)))

FairSpec == Spec /\ Fairness

-----------------------------------------------------------------------------
TypeOK ==
  /\ m_started \in BOOLEAN /\ m_timer \in BOOLEAN /\ m_fetching \in BOOLEAN
  /\ m_servers \subseteq Self
  /\ m_prefixes \subseteq {MeshOf[a] : a \in Addrs \cup Self}
  /\ m_out \in [Addrs -> {"none", "idle", "connecting", "connected"}]
  /\ asked \subseteq Sources
  /\ online \subseteq Addrs
  /\ listed \subseteq Addrs
  /\ lateLists \in Nat

\* One fetch at a time, and the flag says so: a fetch that outlives stop() and
\* start() is not joined by a second one.
OneFetch ==
  /\ Cardinality(asked) <= 1
  /\ m_fetching <=> asked # {}

\* The outgoing connections are those of the last list applied: a peer that left
\* is dropped, one that came has a connection or an attempt.
OutAsListed == \A a \in Addrs : (m_out[a] # "none") <=> (a \in listed)

\* stop() ends the asking but not the fetch under way: until the next start() one
\* more list may be applied, the answer to that fetch, and it opens servers and
\* connections again.  Nothing opens before it, and nothing asks after it.
StopAsksNoMore ==
  ~m_started => /\ lateLists <= 1
                /\ m_fetching => lateLists = 0
                /\ lateLists = 0 => (m_servers = {} /\ m_out = NoConnections)

\* A fetch ends: sources that hang or fail cannot block the next refresh.
FetchEnds == m_fetching ~> ~m_fetching

\* A peer is reached again: if it stays up and is asked for, while lists and
\* connections are not refused forever, it is connected again and again.
Stays(a) == m_started /\ a \in online /\ MeshOf[a] \in Meshes
Reconnects ==
  \A a \in Addrs :
    (/\ \A i \in Sources : SF_vars(SourceAnswers(i))
     /\ SF_vars(Connected(a))
     /\ <>[]Stays(a)) => []<>(m_out[a] = "connected")
==============================================================================
