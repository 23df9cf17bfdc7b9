----------------------------- MODULE DedupStream -----------------------------
(***************************************************************************)
(* What the receive side of the facade promises an app: every frame any    *)
(* bearer hands up is announced, except when the same frame is among the   *)
(* last Window ones announced.  Several bearers may carry the same frame,  *)
(* any number of times and in any order.                                   *)
(***************************************************************************)
EXTENDS Naturals, Sequences

CONSTANTS Ids,      \* frame identities
          Window    \* how many announced frames are remembered

VARIABLES log,      \* the identities announced to apps, oldest first
          offered   \* every identity some bearer has handed up

Recent == {log[i] : i \in {j \in 1..Len(log) : j + Window > Len(log)}}

Init ==
  /\ log = << >>
  /\ offered = {}

Offer(id) ==
  /\ offered' = offered \cup {id}
  /\ \/ id \in Recent /\ log' = log
     \/ id \notin Recent /\ log' = Append(log, id)

Next == \E id \in Ids : Offer(id)

Spec == Init /\ [][Next]_<<log, offered>>
==============================================================================
