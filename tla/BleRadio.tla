------------------------------- MODULE BleRadio -------------------------------
(***************************************************************************)
(* The Bluetooth radio under ble_mesh (ble_mesh/src/mesh_radio_qt.cpp):    *)
(* the links it dials, the node ids it learns and routes by, the queue of  *)
(* fragments it writes to a link, and the messages it puts together again. *)
(*                                                                         *)
(* A link is an object that outlives its place in m_links, because the     *)
(* signals of its controller and the 15 ms timers of drain hold on to it;  *)
(* links are numbered in the order they are dialled.  Bluetooth itself is  *)
(* external: it may fail at any stage, report an error before it reports   *)
(* the disconnect, report no write, and lose notifications and writes.     *)
(*                                                                         *)
(* What a fragment carries is its message and its place in it; the header  *)
(* keeps the width of its fields.  A queue is the number of its fragments. *)
(***************************************************************************)
EXTENDS Naturals, Sequences, FiniteSets

CONSTANTS Addrs,      \* addresses of devices in range
          Higher,     \* the ones the tiebreak lets this radio dial
          NodeIds,    \* ids devices announce
          Centrals,   \* devices that dialled this radio and write to it
          Sizes,      \* numbers of fragments of messages
          ByteMod,    \* values of the index and count bytes (256)
          IdMod,      \* values of m_msgId (2^16)
          NoId, NoAddr,
          Senders,    \* bound: devices that send messages
          MaxWork     \* bound: links dialled, messages begun and messages sent

ASSUME AddressAssumption == Higher \subseteq Addrs /\ NoAddr \notin Addrs
ASSUME NameAssumption == NoId \notin NodeIds /\ Centrals \cap Addrs = {}
ASSUME WidthAssumption ==
  /\ Sizes \subseteq Nat \ {0}
  /\ {ByteMod, IdMod, MaxWork} \subseteq Nat \ {0}
  /\ Senders \subseteq Higher \cup Centrals

VARIABLES
  m_started,
  m_links,       \* per address: its link, 0 if none
  m_nodeToAddr,  \* per node id: the address it was last announced from
  link,          \* the links dialled so far
  work           \* links dialled, messages begun and messages sent so far

VARIABLES
  sender,        \* per device: the message it is sending, and its counter
  m_reasm        \* per key: the parts of a message

VARIABLES
  moved,         \* history: a node changed its address, or an address its node
  late,          \* history: a cleanup came after its address was dialled again
  wrote,         \* history: the centrals that have written fragments
  reused,        \* history: a device used an id a second time
  oversized,     \* history: a message had too many fragments for the header
  garbled,       \* history: something was handed up that nobody sent
  missed         \* history: a message arrived intact and was not handed up once

linkVars == <<m_started, m_links, m_nodeToAddr, link, moved, late>>
fragVars == <<sender, m_reasm, wrote, reused, oversized, garbled, missed>>
vars == <<linkVars, fragVars, work>>

Links == 1..Len(link)

\* Within the bound.
Work == work < MaxWork /\ work' = work + 1
NewLink(a) == [addr |-> a, stage |-> "dialled", ready |-> FALSE, nodeId |-> NoId,
               queued |-> 0, writing |-> FALSE, nudges |-> 0]

\* The address a fragment of a device comes with: none from a central.
FromAddr(d) == IF d \in Centrals THEN NoAddr ELSE d

Keys == (Higher \cup {NoAddr}) \X (0..(IdMod - 1))
Indexes == 0..(ByteMod - 1)
Nothing == [from |-> NoAddr, msg |-> 0, no |-> 0]
NoParts == [count |-> 0, parts |-> [i \in Indexes |-> Nothing]]
Silent == [msg |-> 0, size |-> 0, next |-> 0, whole |-> TRUE, given |-> 0]

Init ==
  /\ m_started = FALSE
  /\ m_links = [a \in Addrs |-> 0]
  /\ m_nodeToAddr = [n \in NodeIds |-> NoAddr]
  /\ link = << >>
  /\ work = 0
  /\ sender = [d \in Senders |-> Silent]
  /\ m_reasm = [k \in Keys |-> NoParts]
  /\ moved = FALSE /\ late = FALSE
  /\ wrote = {} /\ reused = FALSE /\ oversized = FALSE
  /\ garbled = FALSE /\ missed = FALSE

-----------------------------------------------------------------------------
Start ==
  /\ ~m_started
  /\ m_started' = TRUE
  /\ UNCHANGED <<m_links, m_nodeToAddr, link, work, moved, late, fragVars>>

\* stop(): the links listed are told to disconnect, and forgotten at once.
Stop ==
  /\ m_started
  /\ m_started' = FALSE
  /\ link' = [l \in Links |-> IF m_links[link[l].addr] = l
                              THEN [link[l] EXCEPT !.stage = "closing"]
                              ELSE link[l]]
  /\ m_links' = [a \in Addrs |-> 0]
  /\ m_nodeToAddr' = [n \in NodeIds |-> NoAddr]
  /\ UNCHANGED <<work, moved, late, fragVars>>

\* Fault: a device that is linked already is dialled again.
DiscoveredAgain(a) ==
  /\ m_started
  /\ a \in Higher
  /\ Work
  /\ link' = Append(link, NewLink(a))
  /\ m_links' = [m_links EXCEPT ![a] = Len(link) + 1]
  /\ UNCHANGED <<m_started, m_nodeToAddr, moved, late, fragVars>>

\* A device advertises the service: dial it, unless it is linked or has the
\* lower address, and dials us.
Discovered(a) ==
  /\ m_started
  /\ a \in Higher
  /\ m_links[a] = 0
  /\ Work
  /\ link' = Append(link, NewLink(a))
  /\ m_links' = [m_links EXCEPT ![a] = Len(link) + 1]
  /\ UNCHANGED <<m_started, m_nodeToAddr, moved, late, fragVars>>

\* The service is found and its details are in: the link is ready for good. What
\* was queued on it before stays where it is.
ServiceReady(l) ==
  /\ link[l].stage = "dialled"
  /\ link' = [link EXCEPT ![l].stage = "ready", ![l].ready = TRUE]
  /\ UNCHANGED <<m_started, m_links, m_nodeToAddr, work, moved, late, fragVars>>

\* No such service, or no such characteristic: the link stays, and is useless.
ServiceMissing(l) ==
  /\ link[l].stage = "dialled"
  /\ link' = [link EXCEPT ![l].stage = "useless"]
  /\ UNCHANGED <<m_started, m_links, m_nodeToAddr, work, moved, late, fragVars>>

\* Fault: the route of the node stays.
CleanupLinkOnly(l) ==
  /\ m_links' = [m_links EXCEPT ![link[l].addr] = 0]
  /\ late' = (late \/ m_links[link[l].addr] \notin {0, l})
  /\ UNCHANGED m_nodeToAddr

\* cleanup: forget whatever link the address has now, and the route of the node.
Cleanup(l) ==
  /\ m_links' = [m_links EXCEPT ![link[l].addr] = 0]
  /\ m_nodeToAddr' = [n \in NodeIds |-> IF n = link[l].nodeId THEN NoAddr
                                                             ELSE m_nodeToAddr[n]]
  /\ late' = (late \/ m_links[link[l].addr] \notin {0, l})

Live(l) == link[l].stage \in {"dialled", "ready", "useless"}

\* errorOccurred; the disconnect is still to come.
ErrorOccurred(l) ==
  /\ link[l].stage \notin {"failing", "gone"}
  /\ Cleanup(l)
  /\ link' = [link EXCEPT ![l].stage = "failing"]
  /\ UNCHANGED <<m_started, work, moved, fragVars>>

Disconnected(l) ==
  /\ link[l].stage # "gone"
  /\ Cleanup(l)
  /\ link' = [link EXCEPT ![l].stage = "gone"]
  /\ UNCHANGED <<m_started, work, moved, fragVars>>

\* What a link that was once ready still delivers, until it is disconnected.
Delivers(k) == k.ready /\ k.stage # "gone"

\* An announce comes in on link l: the link listed under its address, which is
\* looked up again, is given the name, and the name the address.
Announced(l, n) ==
  /\ Delivers(link[l])
  /\ LET a == link[l].addr
         k == m_links[a] IN
       /\ k # 0
       /\ link' = [link EXCEPT ![k].nodeId = n]
       /\ m_nodeToAddr' = [m_nodeToAddr EXCEPT ![n] = a]
       /\ moved' = (moved \/ link[k].nodeId \notin {NoId, n}
                          \/ \E j \in Links : link[j].nodeId = n /\ link[j].addr # a)
  /\ UNCHANGED <<m_started, m_links, work, late, fragVars>>

-----------------------------------------------------------------------------
\* Whether the characteristic of a link is valid: that of a link that works is; once
\* it is closed, or has failed, the stack takes it away when it likes.
ValidOf(k) == IF k.stage = "ready" THEN {TRUE} ELSE BOOLEAN

\* Nothing to write, a write under way, or nothing to write to.
Idle(k, valid) == k.writing \/ k.queued = 0 \/ ~k.ready \/ ~valid

\* Fault: only the report of a write moves the queue.
DrainedNoNudge(k, valid) ==
  IF Idle(k, valid) THEN k
  ELSE [k EXCEPT !.queued = @ - 1, !.writing = TRUE]

\* drain: write the next fragment, and look again in 15 ms.
Drained(k, valid) ==
  IF Idle(k, valid) THEN k
  ELSE [k EXCEPT !.queued = @ - 1, !.writing = TRUE, !.nudges = @ + 1]

Queued(k, size) == [k EXCEPT !.queued = @ + size]
Reported(k) == [k EXCEPT !.writing = FALSE]
Nudged(k) == [k EXCEPT !.nudges = @ - 1, !.writing = FALSE]

\* peers(): the nodes of the links that are ready and named.
Peers == {n \in NodeIds : \E a \in Addrs :
            m_links[a] # 0 /\ link[m_links[a]].ready
                           /\ link[m_links[a]].nodeId = n}

\* linkForNode: by node id to the address, and by the address to the link.
LinkFor(n) == IF m_nodeToAddr[n] = NoAddr THEN 0 ELSE m_links[m_nodeToAddr[n]]

\* sendTo() a node of peers(): queued on its link, or dropped without one. The link
\* is the one the route leads to, ready or not.
SendTo(n, size) ==
  /\ n \in Peers
  /\ Work
  /\ LET l == LinkFor(n) IN
       IF l = 0 THEN link' = link
       ELSE \E valid \in ValidOf(link[l]) :
              link' = [link EXCEPT ![l] = Drained(Queued(@, size), valid)]
  /\ UNCHANGED <<m_started, m_links, m_nodeToAddr, moved, late, fragVars>>

\* characteristicWritten, on stacks that report it, and reports of announces too,
\* which were written past the queue.
Written(l) ==
  /\ Delivers(link[l])
  /\ \E valid \in ValidOf(link[l]) :
       link' = [link EXCEPT ![l] = Drained(Reported(@), valid)]
  /\ UNCHANGED <<m_started, m_links, m_nodeToAddr, work, moved, late, fragVars>>

\* The 15 ms of a write are over, whether or not it is; the link may be long gone.
Nudge(l) ==
  /\ link[l].nudges > 0
  /\ \E valid \in ValidOf(link[l]) :
       link' = [link EXCEPT ![l] = Drained(Nudged(@), valid)]
  /\ UNCHANGED <<m_started, m_links, m_nodeToAddr, work, moved, late, fragVars>>

-----------------------------------------------------------------------------
\* A fragment as the header tells it: fields are cut to their width.
Header(d, s) == [key |-> <<FromAddr(d), s.msg % IdMod>>,
                 idx |-> (s.next - 1) % ByteMod,
                 count |-> s.size % ByteMod]

\* Fault: a message is complete when its last part is there.
CompleteAtLast(r) ==
  r.count > 0 /\ r.parts[r.count - 1] # Nothing

\* As many parts as the last header said.
Complete(r) ==
  Cardinality({i \in Indexes : r.parts[i] # Nothing}) = r.count

\* The parts in the order of their indexes are those of message m of device d.
IsWhole(r, d, m, size) ==
  \A i \in Indexes :
    r.parts[i] = IF i < size THEN [from |-> d, msg |-> m, no |-> i + 1] ELSE Nothing

\* onIncoming of a fragment: the part is put in its place, over what was there;
\* a complete message is handed up and forgotten.
Incoming(d, s) ==
  LET h == Header(d, s)
      part == [from |-> d, msg |-> s.msg, no |-> s.next]
      r == [count |-> h.count,
            parts |-> [m_reasm[h.key].parts EXCEPT ![h.idx] = part]]
      done == Complete(r)
      whole == done /\ s.size <= ByteMod /\ IsWhole(r, d, s.msg, s.size)
      given == s.given + (IF whole THEN 1 ELSE 0) IN
    /\ m_reasm' = [m_reasm EXCEPT ![h.key] = IF done THEN NoParts ELSE r]
    /\ garbled' = (garbled \/ (done /\ ~whole))
    /\ sender' = [sender EXCEPT ![d] = [s EXCEPT !.next = s.next + 1, !.given = given]]
    /\ missed' = (missed \/ (s.next = s.size /\ s.whole /\ given # 1))

\* A device is heard while it is connected: a central while this radio serves it.
Heard(d) ==
  \/ d \in Centrals /\ m_started
  \/ \E l \in Links : link[l].addr = d /\ Delivers(link[l])

\* A device begins its next message.
BeginMessage(d, size) ==
  /\ sender[d].next > sender[d].size \/ sender[d].msg = 0
  /\ Work
  /\ sender' = [sender EXCEPT ![d] = [msg |-> sender[d].msg + 1, size |-> size,
                                      next |-> 1, whole |-> TRUE, given |-> 0]]
  /\ reused' = (reused \/ sender[d].msg >= IdMod)
  /\ oversized' = (oversized \/ size >= ByteMod)
  /\ UNCHANGED <<m_reasm, wrote, garbled, missed, linkVars>>

Sending(d) == sender[d].next \in 1..sender[d].size

\* Its next fragment arrives.
FragmentArrives(d) ==
  /\ Sending(d)
  /\ Heard(d)
  /\ Incoming(d, sender[d])
  /\ wrote' = wrote \cup ({d} \cap Centrals)
  /\ UNCHANGED <<reused, oversized, work, linkVars>>

\* Its next fragment is lost, as is all it sends to a link that is down.
FragmentLost(d) ==
  /\ Sending(d)
  /\ sender' = [sender EXCEPT ![d].next = @ + 1, ![d].whole = FALSE]
  /\ UNCHANGED <<m_reasm, wrote, reused, oversized, garbled, missed, work, linkVars>>

Controller ==
  \E l \in Links :
    \/ ServiceReady(l) \/ ServiceMissing(l)
    \/ ErrorOccurred(l) \/ Disconnected(l)
    \/ Written(l) \/ Nudge(l)
    \/ \E n \in NodeIds : Announced(l, n)

Next ==
  \/ Start \/ Stop
  \/ \E a \in Addrs : Discovered(a)
  \/ Controller
  \/ \E n \in NodeIds, size \in Sizes : SendTo(n, size)
  \/ \E d \in Senders :
       \/ FragmentArrives(d) \/ FragmentLost(d)
       \/ \E size \in Sizes : BeginMessage(d, size)

Spec == Init /\ [][Next]_vars

-----------------------------------------------------------------------------
TypeOK ==
  /\ m_started \in BOOLEAN
  /\ m_links \in [Addrs -> 0..Len(link)]
  /\ m_nodeToAddr \in [NodeIds -> Addrs \cup {NoAddr}]
  /\ \A l \in Links : link[l].addr \in Higher /\ link[l].nodeId \in NodeIds \cup {NoId}
  /\ work \in 0..MaxWork

\* Every link that neither failed nor was closed is the one listed under its
\* address, so no device is linked twice and stop() closes all of them, unless the
\* disconnect of an older link came after its address had been dialled again. (A
\* link that reported an error is forgotten at once, connected or not.)
LiveIsListed ==
  late \/ \A l \in Links : Live(l) => m_links[link[l].addr] = l

\* Routes and links agree: a node is routed to an address exactly if the link
\* there bears its name. Every id peers() lists can then be sent to, and no frame
\* goes to another node; unless a node was seen under two addresses, an address
\* under two nodes, or a cleanup came late.
RoutesAgree ==
  \/ moved \/ late
  \/ \A n \in NodeIds, a \in Addrs :
       (m_nodeToAddr[n] = a) <=> (m_links[a] # 0 /\ link[m_links[a]].nodeId = n)

\* A queue with fragments left always has a timer that will look at it, whatever
\* the two clocks of drain did to the writing flag: no queue of a link in use waits
\* for ever on a stack that reports no writes. Where a node moved, or a cleanup came
\* late, a route may lead to a link that is not ready yet: what is queued there has
\* no timer, and the link becoming ready starts none.
QueueHasClock ==
  \/ moved \/ late
  \/ \A l \in Links : Live(l) /\ link[l].queued > 0 => link[l].nudges > 0

\* That, and every part of the state well typed.
RadioInv == TypeOK /\ QueueHasClock

Excused == Cardinality(wrote) > 1 \/ reused \/ oversized

\* Messages are put together as they were sent: nothing is handed up that nobody
\* sent, and what arrives whole is handed up once, whatever fragments of other
\* messages were lost; unless two centrals share the empty address, a device used
\* an id twice, or a message had more fragments than the header can count.
FragmentsRejoin == (garbled \/ missed) => Excused
===============================================================================
