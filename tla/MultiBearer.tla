----------------------------- MODULE MultiBearer -----------------------------
(***************************************************************************)
(* The receive path of the facade: bearers hand frames to                  *)
(* MultiBearer::ingest (core/src/multibearer.hpp), which drops the ones it *)
(* remembers and passes the others to the onReceived closure that          *)
(* LoamCoreImpl::onContextReady installs (core/src/loam_core_impl.cpp).    *)
(* That closure emits the `received` event and tees the frame into a ring  *)
(* that recentReceived() drains.                                           *)
(*                                                                         *)
(* delivered, offered and drained are history: the frames announced so     *)
(* far, the identities handed up so far, and how many frames had been      *)
(* announced when the ring was last drained.                               *)
(***************************************************************************)
EXTENDS Naturals, Sequences

CONSTANTS Topics, Bodies,   \* what a frame says
          Bearers,          \* who may hand it up
          SeenMax,          \* kSeenMax, 8192 in the code
          RxMax,            \* length of the receive ring, 256 in the code
          MaxDelivered      \* bound: frames announced in a behaviour

ASSUME SeenMaxAssumption == SeenMax \in Nat \ {0}
ASSUME RxMaxAssumption == RxMax \in Nat \ {0}
ASSUME BoundAssumption == MaxDelivered \in Nat

Frame == [topic : Topics, body : Bodies, bearer : Bearers]

\* The identity is a hash of topic and bytes only, so the same sealed bytes
\* over two bearers, under two sender ids, are one frame.
FrameId(f) == <<f.topic, f.body>>

Ids == Topics \X Bodies

VARIABLES m_seen, m_seenOrder, m_rxLog,
          delivered, offered, drained

vars == <<m_seen, m_seenOrder, m_rxLog, delivered, offered, drained>>

Init ==
  /\ m_seen = {}
  /\ m_seenOrder = << >>
  /\ m_rxLog = << >>
  /\ delivered = << >>
  /\ offered = {}
  /\ drained = 0

-----------------------------------------------------------------------------
\* The onReceived closure: the event, then the ring, oldest entries dropped.
OnReceived(f) ==
  /\ delivered' = Append(delivered, f)
  /\ m_rxLog' = IF Len(m_rxLog) < RxMax
                THEN Append(m_rxLog, f)
                ELSE Append(Tail(m_rxLog), f)

Full == Len(m_seenOrder) >= SeenMax

\* Fault: the newest entry makes room.
KeptOldest ==
  IF Full THEN SubSeq(m_seenOrder, 1, Len(m_seenOrder) - 1) ELSE m_seenOrder

\* What is left of the memory once the oldest entry has made room.
Kept == IF Full THEN Tail(m_seenOrder) ELSE m_seenOrder

\* Fault: nothing leaves the set.
EvictedNothing == {}

Evicted == IF Full THEN {Head(m_seenOrder)} ELSE {}

IngestDuplicate(f) ==
  /\ FrameId(f) \in m_seen
  /\ offered' = offered \cup {FrameId(f)}
  /\ UNCHANGED <<m_seen, m_seenOrder, m_rxLog, delivered, drained>>

IngestNew(f) ==
  /\ FrameId(f) \notin m_seen
  /\ Len(delivered) < MaxDelivered
  /\ m_seen' = (m_seen \cup {FrameId(f)}) \ Evicted
  /\ m_seenOrder' = Append(Kept, FrameId(f))
  /\ OnReceived(f)
  /\ offered' = offered \cup {FrameId(f)}
  /\ UNCHANGED drained

RecentReceived ==
  /\ m_rxLog' = << >>
  /\ drained' = Len(delivered)
  /\ UNCHANGED <<m_seen, m_seenOrder, delivered, offered>>

Next ==
  \/ \E f \in Frame : IngestDuplicate(f) \/ IngestNew(f)
  \/ RecentReceived

Spec == Init /\ [][Next]_vars

-----------------------------------------------------------------------------
TypeOK ==
  /\ m_seen \subseteq Ids
  /\ m_seenOrder \in Seq(Ids)
  /\ m_rxLog \in Seq(Frame)
  /\ delivered \in Seq(Frame)
  /\ offered \subseteq Ids
  /\ drained \in Nat

\* The set and the queue of MultiBearer hold the same identities, the queue
\* holds each once and no more than kSeenMax: an insert and its eviction never
\* drift apart (a leak in m_seen would grow for the life of the host).
MemoryAgrees ==
  /\ Len(m_seenOrder) <= SeenMax
  /\ m_seen = {m_seenOrder[i] : i \in 1..Len(m_seenOrder)}
  /\ \A i, j \in 1..Len(m_seenOrder) : i # j => m_seenOrder[i] # m_seenOrder[j]

\* The memory is exactly the last kSeenMax frames announced.
MemoryIsRecent ==
  /\ Len(m_seenOrder) = IF Len(delivered) < SeenMax THEN Len(delivered)
                                                    ELSE SeenMax
  /\ \A i \in 1..Len(m_seenOrder) :
       m_seenOrder[i] =
         FrameId(delivered[Len(delivered) - Len(m_seenOrder) + i])

\* A frame announced to apps is not announced again, over whatever bearer, for
\* the next kSeenMax frames.
NoRedelivery ==
  \A i, j \in 1..Len(delivered) :
    (i < j /\ j <= i + SeenMax) => FrameId(delivered[i]) # FrameId(delivered[j])

\* Nothing a bearer hands up is lost: whatever was ever offered to ingest has
\* been announced at least once, evictions notwithstanding.
NothingLost ==
  \A id \in offered : \E i \in 1..Len(delivered) : FrameId(delivered[i]) = id

\* The ring a headless collector drains holds the newest frames announced since
\* its last call, in order; it misses frames only when more than RxMax came.
RingIsNewest ==
  /\ drained <= Len(delivered)
  /\ Len(m_rxLog) = IF Len(delivered) - drained < RxMax
                    THEN Len(delivered) - drained ELSE RxMax
  /\ \A i \in 1..Len(m_rxLog) :
       m_rxLog[i] = delivered[Len(delivered) - Len(m_rxLog) + i]

\* The inductive invariant: the memory is the tail of the history, so neither a
\* leak nor an eviction too early or too late can go unnoticed (ingest).
IInv == TypeOK /\ MemoryAgrees /\ MemoryIsRecent /\ NoRedelivery
               /\ NothingLost /\ RingIsNewest

\* A history of frames read through their identities.
IdsOf(h) == [i \in 1..Len(h) |-> FrameId(h[i])]

\* Seen from the apps, the receive path is the stream of DedupStream.
Stream == INSTANCE DedupStream WITH
            Window <- SeenMax,
            log <- IdsOf(delivered)

\* The receive path implements the promise made to apps: announced unless
\* among the last kSeenMax frames announced.
ImplementsStream == Stream!Spec
==============================================================================
