----------------------------- MODULE ShroomsWire -----------------------------
(***************************************************************************)
(* Frames between shrooms_mesh modules: flood() writes a frame to every    *)
(* connection of a peer (shrooms_mesh_impl.cpp), the Reader of each        *)
(* connection cuts the bytes into frames again (mesh_wire.hpp), and        *)
(* received() announces a frame once.  One receiver, several peers, each   *)
(* with a connection per mesh it shares with the receiver.                 *)
(*                                                                         *)
(* A frame is its identity and the lengths the reader looks at; on the     *)
(* wire it is two pieces, the length and what follows.  A read takes any   *)
(* number of pieces: less than a piece makes the reader wait, as none does.*)
(* Connections from outside the meshes are closed when they are accepted,  *)
(* and are not here.                                                       *)
(***************************************************************************)
EXTENDS Integers, Sequences, FiniteSets, SequencesExt

CONSTANTS Frames,     \* records [id, version, topic, payload], the last two lengths
          Conns,      \* connections
          PeerOf,     \* the peer that writes to a connection
          Rogues,     \* peers that do not keep the protocol
          Version,    \* kVersion
          MaxTopic,   \* kMaxTopic
          MaxFrame,   \* kMaxFrame
          SeenMax,    \* frames received() remembers (4096)
          Backlog,    \* pieces unsent over which flood() skips a connection (16 MB)
          MaxWritten  \* bound: frames written in a behaviour

ASSUME LimitAssumption ==
  /\ {MaxTopic, MaxFrame, SeenMax, Backlog, MaxWritten} \subseteq Nat
  /\ SeenMax > 0
ASSUME PeerAssumption == Conns \subseteq DOMAIN PeerOf
ASSUME FrameAssumption == \A f \in Frames : f.topic \in Int /\ f.payload \in Int

VARIABLES
  m_buf,        \* per connection: pieces its reader holds
  m_failed,     \* the connections whose reader has failed
  m_seenOrder,  \* the identities remembered, oldest first; m_seen is its range
  unread,       \* per connection: pieces written and not yet read
  up            \* the connections that stand

VARIABLES
  log,          \* history: the identities announced, oldest first
  written,      \* history: per connection, the frames written since it stands
  count         \* history: frames written

vars == <<m_buf, m_failed, m_seenOrder, unread, up, log, written, count>>

Pieces(f) == <<[frame |-> f, part |-> 1], [frame |-> f, part |-> 2]>>

Init ==
  /\ m_buf = [c \in Conns |-> << >>]
  /\ m_failed = {}
  /\ m_seenOrder = << >>
  /\ unread = [c \in Conns |-> << >>]
  /\ up = {}
  /\ log = << >>
  /\ written = [c \in Conns |-> {}]
  /\ count = 0

-----------------------------------------------------------------------------
LengthOf(f) == 3 + f.topic + f.payload

\* flood() refuses other frames.
Floods(f) == f.topic \in 1..MaxTopic /\ LengthOf(f) <= MaxFrame

\* What encode() can make.
Encoded(f) == f.version = Version /\ f.payload >= 0

\* The reader takes a piece: a length in range, then a body it can read, of the
\* frame the length was of.
Takes(buf, i) ==
  LET f == buf[i].frame IN
    IF i % 2 = 1
    THEN buf[i].part = 1 /\ LengthOf(f) \in 3..MaxFrame
    ELSE /\ buf[i].part = 2 /\ buf[i - 1].frame = f
         /\ f.version = Version
         /\ f.topic \in 1..MaxTopic
         /\ f.payload >= 0

\* Fault: a read gives one frame at most.
WholeFirst(buf) == IF Len(buf) > 1 THEN <<buf[2].frame.id>> ELSE << >>

\* The whole frames of the buffer, and what is left of it.
Whole(buf) == [i \in 1..(Len(buf) \div 2) |-> buf[2 * i].frame.id]

\* Fault: the buffer is emptied by each read.
RestNone(buf) == << >>

Rest(buf) == IF Len(buf) % 2 = 1 THEN <<Last(buf)>> ELSE << >>

\* Fault: a frame that is remembered counts as new when the memory is full.
ReceivedFull(s, id) ==
  IF id \in ToSet(s.seen) /\ Len(s.seen) < SeenMax THEN s
  ELSE [seen |-> IF Len(s.seen) < SeenMax THEN Append(s.seen, id)
                 ELSE Tail(Append(s.seen, id)),
        log |-> Append(s.log, id)]

\* received(): a frame that is not remembered is, and is announced.
Received(s, id) ==
  IF id \in ToSet(s.seen) THEN s
  ELSE [seen |-> IF Len(s.seen) < SeenMax THEN Append(s.seen, id)
                 ELSE Tail(Append(s.seen, id)),
        log |-> Append(s.log, id)]

\* The frames of a read, one after the other.
ReceivedAll(s, ids) ==
  LET after[k \in 0..Len(ids)] == IF k = 0 THEN s ELSE Received(after[k - 1], ids[k])
  IN  after[Len(ids)]

-----------------------------------------------------------------------------
\* The peer's next list has it dial; the receiver makes a new reader.
Connect(c) ==
  /\ c \notin up
  /\ up' = up \cup {c}
  /\ m_buf' = [m_buf EXCEPT ![c] = << >>]
  /\ m_failed' = m_failed \ {c}
  /\ UNCHANGED <<m_seenOrder, unread, log, written, count>>

Close(c) ==
  /\ up' = up \ {c}
  /\ unread' = [unread EXCEPT ![c] = << >>]
  /\ written' = [written EXCEPT ![c] = {}]

\* The connection breaks: what was written and not read is lost.
Cut(c) ==
  /\ c \in up
  /\ Close(c)
  /\ UNCHANGED <<m_buf, m_failed, m_seenOrder, log, count>>

Write(cs, f) ==
  /\ count < MaxWritten
  /\ count' = count + 1
  /\ unread' = [c \in Conns |-> unread[c] \o IF c \in cs THEN Pieces(f) ELSE << >>]
  /\ written' = [c \in Conns |-> written[c] \cup IF c \in cs THEN {f} ELSE {}]
  /\ UNCHANGED <<m_buf, m_failed, m_seenOrder, up, log>>

\* flood(): to every connection that stands and is not stuck.
Flood(p, f) ==
  /\ Encoded(f) /\ Floods(f)
  /\ Write({c \in up : PeerOf[c] = p /\ Len(unread[c]) <= Backlog}, f)

\* Another program writes what it likes.
RogueWrites(c, f) ==
  /\ c \in up
  /\ PeerOf[c] \in Rogues
  /\ Write({c}, f)

\* readyRead: the whole frames are received in order; one piece the reader does
\* not take, and the connection is closed, with none of them received.
ReadyRead(c, n) ==
  /\ c \in up
  /\ LET buf == m_buf[c] \o SubSeq(unread[c], 1, n)
         taken == \A i \in 1..Len(buf) : Takes(buf, i)
         s == ReceivedAll([seen |-> m_seenOrder, log |-> log], Whole(buf)) IN
       IF taken
       THEN /\ m_buf' = [m_buf EXCEPT ![c] = Rest(buf)]
            /\ m_seenOrder' = s.seen /\ log' = s.log
            /\ unread' = [unread EXCEPT ![c] = SubSeq(@, n + 1, Len(@))]
            /\ UNCHANGED <<m_failed, up, written>>
       ELSE /\ m_failed' = m_failed \cup {c}
            /\ Close(c)
            /\ UNCHANGED <<m_buf, m_seenOrder, log>>
  /\ UNCHANGED count

Read(c) == \E n \in 1..Len(unread[c]) : ReadyRead(c, n)

Next ==
  \/ \E c \in Conns : Connect(c) \/ Cut(c) \/ Read(c)
  \/ \E p \in {PeerOf[c] : c \in Conns} \ Rogues, f \in Frames : Flood(p, f)
  \/ \E c \in Conns, f \in Frames : RogueWrites(c, f)

\* Bytes that have come are read.
Spec == Init /\ [][Next]_vars /\ \A c \in Conns : WF_vars(Read(c))

-----------------------------------------------------------------------------
Kept == {c \in Conns : PeerOf[c] \notin Rogues}

TypeOK ==
  /\ m_failed \subseteq Conns /\ up \subseteq Conns
  /\ Len(m_seenOrder) <= SeenMax
  /\ \A c \in Conns : Len(m_buf[c]) <= 1 /\ written[c] \subseteq Frames

\* A peer that keeps the protocol is never taken for one that does not: whatever
\* flood() agrees to send, the reader takes, however the bytes are split into
\* reads and whatever other peers write.
GoodPeersKept == m_failed \cap Kept = {}

\* The same frame over a second mesh, or again, is announced once while it is
\* among the last SeenMax announced, and those are exactly what is remembered.
OnceInWindow ==
  LET from == IF Len(log) > SeenMax THEN Len(log) - SeenMax ELSE 0 IN
    /\ m_seenOrder = SubSeq(log, from + 1, Len(log))
    /\ \A i, j \in 1..Len(log) : log[i] = log[j] => i = j \/ i - j > SeenMax \/ j - i > SeenMax

\* That, and every part of the state well typed.
WireInv == TypeOK /\ OnceInWindow

\* A frame flooded to a connection that is not cut is announced, whatever else is
\* in the same read, and whatever rogues write on theirs.
FloodArrives ==
  \A c \in Kept, f \in {g \in Frames : Encoded(g) /\ Floods(g)} :
    (f \in written[c]) ~> (f.id \in ToSet(log) \/ f \notin written[c])
==============================================================================
