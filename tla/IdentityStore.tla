----------------------------- MODULE IdentityStore -----------------------------
(***************************************************************************)
(* The identities apps sign with (core/src/loam_identity.hpp,              *)
(* IdentityStore): one device key, soft keys, enrolled keycards, the       *)
(* container bindings and the default, held in memory (m_j) and written    *)
(* to identities.json by every change.                                     *)
(*                                                                         *)
(* save() truncates the file and writes it anew: it may fail to open the   *)
(* file (nothing happens) or be cut short by a full disk or a crash, which *)
(* leaves a file that does not parse.  Nobody is told.  load() takes a     *)
(* file that is missing, cannot be opened or does not parse for that of a  *)
(* new device.                                                             *)
(*                                                                         *)
(* A soft identity's id is the hash of a fresh key, so it is never minted  *)
(* twice; a keycard's is the hash of the card's key.  Labels and domains   *)
(* are left out.                                                           *)
(***************************************************************************)
EXTENDS Naturals

CONSTANTS SoftIds,    \* the soft keys that may be generated
          Cards,      \* physical keycards, named by their public key
          Enrolled,   \* the cards enrolled in an earlier session
          Containers, \* what an app binds an identity to
          NoId,       \* no binding, no default
          Torn,       \* a file that does not parse
          MaxFaults   \* bound: saves that do not complete

Ids == {"device"} \cup SoftIds \cup Cards

\* Which device key: the one of the first start, or one made since.
DeviceKeys == {"first", "later"}

Stores == [device : DeviceKeys, soft : SUBSET SoftIds, keycard : SUBSET Cards,
           bindings : [Containers -> Ids \cup {NoId}], default : Ids \cup {NoId}]

\* Ids are hashes of different keys.
ASSUME IdAssumption ==
  /\ NoId \notin Ids
  /\ "device" \notin SoftIds \cup Cards
  /\ SoftIds \cap Cards = {}
ASSUME TornAssumption == Torn \notin Stores
ASSUME CardAssumption == Enrolled \subseteq Cards
ASSUME FaultAssumption == MaxFaults \in Nat

VARIABLES m_j,       \* the store in memory
          disk,      \* identities.json: the last store written, or Torn
          minted,    \* soft keys generated so far
          faults     \* saves that did not complete so far

VARIABLES chosen,    \* history: the identity a container was last bound to
          owned,     \* history: identities added and not removed
          unsaved,   \* history: the last save did not complete
          dropped    \* history: the process restarted while unsaved, or with a
                     \* file that was missing or could not be opened

storeVars == <<m_j, disk, minted, faults>>
historyVars == <<chosen, owned, unsaved, dropped>>

NewStore(key) == [device |-> key, soft |-> {}, keycard |-> {},
                  bindings |-> [c \in Containers |-> NoId], default |-> NoId]

Exists(id) == id \in {"device"} \cup m_j.soft \cup m_j.keycard

DefaultId == IF Exists(m_j.default) THEN m_j.default ELSE "device"

\* identityIdForContainer: a keycard signs only where it is bound explicitly.
SignerOf(c) ==
  IF Exists(m_j.bindings[c]) THEN m_j.bindings[c]
  ELSE IF DefaultId \in m_j.keycard THEN "device" ELSE DefaultId

Save(store) ==
  /\ m_j' = store
  /\ \/ disk' = store /\ unsaved' = FALSE /\ UNCHANGED faults
     \/ /\ faults < MaxFaults /\ faults' = faults + 1
        /\ disk' \in {disk, Torn}
        /\ unsaved' = TRUE

Change(store) == Save(store) /\ UNCHANGED dropped

\* History: the user gave up the identity, wherever it was chosen.
Unchosen(id) ==
  chosen' = [c \in Containers |-> IF chosen[c] = id THEN NoId ELSE chosen[c]]

-------------------------------------------------------------------------------

StoreInit ==
  /\ m_j = [NewStore("first") EXCEPT !.keycard = Enrolled] /\ disk = m_j
  /\ minted = {} /\ faults = 0
  /\ chosen = [c \in Containers |-> NoId] /\ owned = Enrolled
  /\ unsaved = FALSE /\ dropped = FALSE

AddSoft(id) ==
  /\ id \in SoftIds \ minted
  /\ minted' = minted \cup {id}
  /\ Change([m_j EXCEPT !.soft = @ \cup {id}])
  /\ owned' = owned \cup {id}
  /\ UNCHANGED chosen

RenameSoft(id) ==
  /\ id \in m_j.soft
  /\ Change(m_j)
  /\ UNCHANGED <<minted, chosen, owned>>

\* Dropping an identity also drops the bindings that point at it.
Unbound(bindings, id) ==
  [c \in Containers |-> IF bindings[c] = id THEN NoId ELSE bindings[c]]

RemoveSoft(id) ==
  /\ Change([m_j EXCEPT !.soft = @ \ {id}, !.bindings = Unbound(@, id)])
  /\ owned' = owned \ ({id} \cap SoftIds)
  /\ Unchosen(id)
  /\ UNCHANGED minted

RemoveKeycard(id) ==
  /\ Change([m_j EXCEPT !.keycard = @ \ {id}, !.bindings = Unbound(@, id)])
  /\ owned' = owned \ ({id} \cap Cards)
  /\ Unchosen(id)
  /\ UNCHANGED minted

\* addKeycardIdentity: enrolling a card again only relabels it.
EnrolledStore(key) == [m_j EXCEPT !.keycard = @ \cup {key}]

SetDefault(id) ==
  /\ Exists(id)
  /\ Change([m_j EXCEPT !.default = id])
  /\ UNCHANGED <<minted, chosen, owned>>

\* Fault: the binding is kept in memory only.
BindContainerUnsaved(c, id) ==
  /\ m_j' = [m_j EXCEPT !.bindings[c] = id]
  /\ chosen' = [chosen EXCEPT ![c] = id]
  /\ UNCHANGED <<disk, minted, faults, owned, unsaved, dropped>>

\* The identity need not exist (any more, or yet).
BindContainer(c, id) ==
  /\ Change([m_j EXCEPT !.bindings[c] = id])
  /\ chosen' = [chosen EXCEPT ![c] = id]
  /\ UNCHANGED <<minted, owned>>

\* Fault: a store without soft keys is taken for an empty one.
LoadAfresh ==
  \E opened \in BOOLEAN :
    /\ IF opened /\ disk # Torn /\ disk.soft # {}
         THEN m_j' = disk /\ unsaved' = FALSE /\ UNCHANGED <<disk, faults>>
         ELSE Save(NewStore("later"))
    /\ dropped' = (dropped \/ unsaved \/ ~opened)
    /\ UNCHANGED <<minted, chosen, owned>>

\* A new process loads the file. One that is not there, cannot be opened or does
\* not parse starts a new store, which is saved over it.
Load ==
  \E opened \in BOOLEAN :
    /\ IF opened /\ disk # Torn
         THEN m_j' = disk /\ unsaved' = FALSE /\ UNCHANGED <<disk, faults>>
         ELSE Save(NewStore("later"))
    /\ dropped' = (dropped \/ unsaved \/ ~opened)
    /\ UNCHANGED <<minted, chosen, owned>>

StoreNext ==
  \/ \E id \in SoftIds : AddSoft(id) \/ RenameSoft(id)
  \/ \E id \in Ids : RemoveSoft(id) \/ RemoveKeycard(id) \/ SetDefault(id)
  \/ \E c \in Containers, id \in Ids : BindContainer(c, id)

================================================================================
