----------------------------- MODULE ReceivePath -----------------------------
(***************************************************************************)
(* What the bearers make of the copies of a frame before they hand them to *)
(* MultiBearer: a sealed frame leaves a machine over delivery and over a   *)
(* mesh, in base64, and delivery may wrap it; the receiving bearer peels   *)
(* (delivery_bearer.hpp, segment_compat.hpp, ble_module_bearer.hpp of      *)
(* core/src).                                                              *)
(*                                                                         *)
(* A body is a sealed frame and how many times it is base64 encoded.  The  *)
(* network loses, repeats and reorders copies: what was sent stays, and is *)
(* received any number of times.                                           *)
(***************************************************************************)
EXTENDS MultiBearer

CONSTANTS Sealed,    \* sealed frames
          MaxDepth,  \* base64 layers in use (phones: 2)
          MaxSent    \* bound: frames sent in a behaviour

Garbled == [sealed |-> "garbled", depth |-> 0]

ASSUME BodiesAssumption ==
  Bodies = [sealed : Sealed, depth : 0..MaxDepth] \cup {Garbled}
ASSUME BearersAssumption == Bearers = {"delivery", "mesh"}
ASSUME SendAssumption ==
  /\ MaxDepth \in Nat \ {0} /\ MaxSent \in Nat
  /\ "garbled" \notin Sealed

VARIABLES sent,   \* the copies that may arrive
          sends   \* frames sent so far

pathVars == <<vars, sent, sends>>

\* A copy as its bearer is given it.  "sds": wrapped by the reliable channel;
\* "segment": and in a segment of its own (delivery >= 0.3.0); "part": one of
\* several segments; "plain": neither.
Copy(b, shape, t, body) == [bearer |-> b, shape |-> shape, topic |-> t, body |-> body]
Wrapped == {"sds", "segment"}
Shapes == Wrapped \cup {"plain", "part"}

PathInit == Init /\ sent = {} /\ sends = 0

Encode(body) == [body EXCEPT !.depth = @ + 1]

\* Sealed bytes are no base64: decoding stops at once, or somewhere in them.
Decode(body) == IF body.depth = 0 THEN Garbled ELSE [body EXCEPT !.depth = @ - 1]

\* Fault: what is in the wrapping is decoded too.
PeeledAlways(c) == Decode(c.body)

\* What a bearer makes of a copy: the content of a wrapping as it is, anything
\* else decoded once.
Peeled(c) == IF c.shape \in Wrapped THEN c.body ELSE Decode(c.body)

\* What it hands up: nothing of a frame that came in several segments.
HandedUp(c) ==
  IF c.shape = "part" THEN {}
  ELSE {[topic |-> c.topic, body |-> Peeled(c), bearer |-> c.bearer]}

Sends(copies) ==
  /\ sends < MaxSent
  /\ sends' = sends + 1
  /\ sent' = sent \cup copies
  /\ UNCHANGED vars

\* sendSealed() on a machine with both bearers, over a channel or by relay.
SendSealed(t, s) ==
  LET body == Encode([sealed |-> s, depth |-> 0]) IN
    \E shape \in Shapes :
      Sends({Copy("delivery", shape, t, body), Copy("mesh", "plain", t, body)})

\* Phones and older machines, over delivery, at other depths.
OthersSend(t, s) ==
  \E d \in 0..MaxDepth, shape \in Wrapped \cup {"plain"} :
    /\ shape = "plain" => d > 0
    /\ Sends({Copy("delivery", shape, t, [sealed |-> s, depth |-> d])})

Receive ==
  /\ \E c \in sent : \E f \in HandedUp(c) : IngestDuplicate(f) \/ IngestNew(f)
  /\ UNCHANGED <<sent, sends>>

PathNext ==
  \/ \E t \in Topics, s \in Sealed : SendSealed(t, s) \/ OthersSend(t, s)
  \/ Receive
  \/ RecentReceived /\ UNCHANGED <<sent, sends>>

PathSpec == PathInit /\ [][PathNext]_pathVars

-----------------------------------------------------------------------------
\* What may arrive: sealed frames, in base64 where nothing else wraps them.
SentOK ==
  \A c \in sent :
    /\ c.bearer \in Bearers /\ c.shape \in Shapes /\ c.topic \in Topics
    /\ c.body \in [sealed : Sealed, depth : 0..MaxDepth]
    /\ c.shape = "plain" => c.body.depth > 0

\* Every frame announced carries a sealed frame somebody sent on that topic, which
\* an app can still peel, however the copies were wrapped, whichever of them came,
\* and in whatever order (the receive handlers of both bearers).
PeelsToSealed ==
  \A i \in 1..Len(delivered) :
    /\ delivered[i].body # Garbled
    /\ \E c \in sent : /\ c.topic = delivered[i].topic
                       /\ c.body.sealed = delivered[i].body.sealed

\* "Bearer-independent, so the same sealed bytes over any pipe dedup to one": a
\* sealed frame is announced once in a window, over whatever bearers its copies
\* came (frameId; what each bearer passes to onFrame).
SameBytesOnce ==
  \A i, j \in 1..Len(delivered) :
    (/\ i < j /\ j <= i + SeenMax
     /\ delivered[i].topic = delivered[j].topic)
      => delivered[i].body.sealed # delivered[j].body.sealed
==============================================================================
