----------------------------- MODULE Keycard_proofs -----------------------------
(***************************************************************************)
(* Proofs about the identity store and the keycard delegation over it, for *)
(* any identities, cards, containers and requests, any cap on polls, and   *)
(* any number of saves that do not complete.                               *)
(***************************************************************************)
EXTENDS Keycard, TLAPS

USE IdAssumption, TornAssumption, CardAssumption, FaultAssumption,
    FormAssumption, PollsAssumption

-----------------------------------------------------------------------------
\* The store in memory and the file are stores of keys that were made.
StoresOK ==
  /\ m_j \in Stores /\ m_j.soft \subseteq minted
  /\ disk # Torn => disk \in Stores /\ disk.soft \subseteq minted
  /\ minted \subseteq SoftIds
  /\ faults \in 0..MaxFaults

\* A save that completed left on disk what is in memory. Until a restart forgets a
\* change, what the user has and chose is what the store has and binds.
HistoryOK ==
  /\ chosen \in [Containers -> Ids \cup {NoId}]
  /\ ~unsaved => disk = m_j
  /\ ~dropped => /\ m_j.device = "first"
                 /\ owned = m_j.soft \cup m_j.keycard /\ chosen = m_j.bindings

StoreIInv == StoresOK /\ HistoryOK

-----------------------------------------------------------------------------
\* What a save leaves, whether or not it completes.
LEMMA SaveKeeps ==
  ASSUME StoreIInv, NEW store \in Stores, Save(store),
         store.soft \subseteq minted', minted \subseteq minted', minted' \subseteq SoftIds
  PROVE  StoresOK' /\ (~unsaved' => disk' = m_j')
<1> USE DEF StoreIInv, StoresOK, HistoryOK
<1>1. m_j' = store
  BY DEF Save
<1>2. CASE disk' = store /\ unsaved' = FALSE /\ UNCHANGED faults
  <2>1. store # Torn
    OBVIOUS
  <2> QED
    BY <1>1, <1>2, <2>1
<1>3. CASE /\ faults < MaxFaults /\ faults' = faults + 1
           /\ disk' \in {disk, Torn}
           /\ unsaved' = TRUE
  BY <1>1, <1>3
<1> QED
  BY <1>2, <1>3 DEF Save

\* A change of the store that keeps its device key, and adds no key not made.
LEMMA ChangeKeeps ==
  ASSUME StoreIInv, NEW store \in Stores, Change(store), store.device = m_j.device,
         store.soft \subseteq minted', minted \subseteq minted', minted' \subseteq SoftIds,
         chosen' \in [Containers -> Ids \cup {NoId}],
         ~dropped => owned' = store.soft \cup store.keycard /\ chosen' = store.bindings
  PROVE  StoreIInv'
<1>1. Save(store) /\ dropped' = dropped
  BY DEF Change
<1>2. m_j' = store
  BY <1>1 DEF Save
<1> QED
  BY <1>1, <1>2, SaveKeeps DEF StoreIInv, HistoryOK

\* Dropping the bindings to an identity is what the user gives up with it.
LEMMA UnboundIsUnchosen ==
  ASSUME NEW id, m_j \in Stores, chosen = m_j.bindings, Unchosen(id)
  PROVE  chosen' = Unbound(m_j.bindings, id)
BY DEF Unchosen, Unbound

LEMMA UnboundType ==
  ASSUME NEW id, NEW b \in [Containers -> Ids \cup {NoId}]
  PROVE  Unbound(b, id) \in [Containers -> Ids \cup {NoId}]
BY DEF Unbound

LEMMA UnchosenType ==
  ASSUME NEW id, chosen \in [Containers -> Ids \cup {NoId}], Unchosen(id)
  PROVE  chosen' \in [Containers -> Ids \cup {NoId}]
BY DEF Unchosen

\* Adding, renaming and removing soft keys.
LEMMA SoftKeys ==
  ASSUME StoreIInv,
         \/ \E id \in SoftIds : AddSoft(id) \/ RenameSoft(id)
         \/ \E id \in Ids : RemoveSoft(id)
  PROVE  StoreIInv'
<1>0. m_j \in Stores /\ m_j.soft \subseteq minted /\ minted \subseteq SoftIds
  BY DEF StoreIInv, StoresOK
<1>00. /\ chosen \in [Containers -> Ids \cup {NoId}]
       /\ ~dropped => owned = m_j.soft \cup m_j.keycard /\ chosen = m_j.bindings
  BY DEF StoreIInv, HistoryOK
<1>1. ASSUME NEW id \in SoftIds, AddSoft(id) PROVE StoreIInv'
  <2> DEFINE store == [m_j EXCEPT !.soft = @ \cup {id}]
  <2>1. /\ store \in Stores /\ store.device = m_j.device
        /\ store.soft = m_j.soft \cup {id} /\ store.keycard = m_j.keycard
        /\ store.bindings = m_j.bindings
    BY <1>0 DEF Stores
  <2>2. /\ Change(store) /\ minted' = minted \cup {id}
        /\ owned' = owned \cup {id} /\ chosen' = chosen
    BY <1>1 DEF AddSoft
  <2> HIDE DEF store
  <2> QED
    BY <1>0, <1>00, <2>1, <2>2, ChangeKeeps
<1>2. ASSUME NEW id \in SoftIds, RenameSoft(id) PROVE StoreIInv'
  <2>1. Change(m_j) /\ UNCHANGED <<minted, owned, chosen>>
    BY <1>2 DEF RenameSoft
  <2> QED
    BY <1>0, <1>00, <2>1, ChangeKeeps
<1>3. ASSUME NEW id \in Ids, RemoveSoft(id) PROVE StoreIInv'
  <2> DEFINE store == [m_j EXCEPT !.soft = @ \ {id}, !.bindings = Unbound(@, id)]
  <2>1. /\ store \in Stores /\ store.device = m_j.device
        /\ store.soft = m_j.soft \ {id} /\ store.keycard = m_j.keycard
        /\ store.bindings = Unbound(m_j.bindings, id)
    BY <1>0, UnboundType DEF Stores
  <2>2. Change(store) /\ minted' = minted /\ owned' = owned \ ({id} \cap SoftIds) /\ Unchosen(id)
    BY <1>3 DEF RemoveSoft
  <2>3. ~dropped => chosen' = Unbound(m_j.bindings, id)
    BY <1>0, <1>00, <2>2, UnboundIsUnchosen
  <2>30. chosen' \in [Containers -> Ids \cup {NoId}]
    BY <1>00, <2>2, UnchosenType
  <2>4. ~dropped => owned' = store.soft \cup store.keycard
    BY <1>0, <1>00, <2>1, <2>2 DEF Stores
  <2> HIDE DEF store
  <2> QED
    BY <1>0, <2>1, <2>2, <2>3, <2>30, <2>4, ChangeKeeps
<1> QED
  BY <1>1, <1>2, <1>3

\* Removing a card, and choosing what signs.
LEMMA Choices ==
  ASSUME StoreIInv,
         \/ \E id \in Ids : RemoveKeycard(id) \/ SetDefault(id)
         \/ \E c \in Containers, id \in Ids : BindContainer(c, id)
  PROVE  StoreIInv'
<1>0. m_j \in Stores /\ m_j.soft \subseteq minted /\ minted \subseteq SoftIds
  BY DEF StoreIInv, StoresOK
<1>00. /\ chosen \in [Containers -> Ids \cup {NoId}]
       /\ ~dropped => owned = m_j.soft \cup m_j.keycard /\ chosen = m_j.bindings
  BY DEF StoreIInv, HistoryOK
<1>1. ASSUME NEW id \in Ids, RemoveKeycard(id) PROVE StoreIInv'
  <2> DEFINE store == [m_j EXCEPT !.keycard = @ \ {id}, !.bindings = Unbound(@, id)]
  <2>1. /\ store \in Stores /\ store.device = m_j.device
        /\ store.soft = m_j.soft /\ store.keycard = m_j.keycard \ {id}
        /\ store.bindings = Unbound(m_j.bindings, id)
    BY <1>0, UnboundType DEF Stores
  <2>2. Change(store) /\ minted' = minted /\ owned' = owned \ ({id} \cap Cards) /\ Unchosen(id)
    BY <1>1 DEF RemoveKeycard
  <2>3. ~dropped => chosen' = Unbound(m_j.bindings, id)
    BY <1>0, <1>00, <2>2, UnboundIsUnchosen
  <2>30. chosen' \in [Containers -> Ids \cup {NoId}]
    BY <1>00, <2>2, UnchosenType
  <2>4. ~dropped => owned' = store.soft \cup store.keycard
    BY <1>0, <1>00, <2>1, <2>2 DEF Stores
  <2> HIDE DEF store
  <2> QED
    BY <1>0, <2>1, <2>2, <2>3, <2>30, <2>4, ChangeKeeps
<1>2. ASSUME NEW id \in Ids, SetDefault(id) PROVE StoreIInv'
  <2> DEFINE store == [m_j EXCEPT !.default = id]
  <2>1. /\ store \in Stores /\ store.device = m_j.device /\ store.soft = m_j.soft
        /\ store.keycard = m_j.keycard /\ store.bindings = m_j.bindings
    BY <1>0 DEF Stores
  <2>2. Change(store) /\ UNCHANGED <<minted, owned, chosen>>
    BY <1>2 DEF SetDefault
  <2> HIDE DEF store
  <2> QED
    BY <1>0, <1>00, <2>1, <2>2, ChangeKeeps
<1>3. ASSUME NEW c \in Containers, NEW id \in Ids, BindContainer(c, id) PROVE StoreIInv'
  <2> DEFINE store == [m_j EXCEPT !.bindings[c] = id]
  <2>1. /\ store \in Stores /\ store.device = m_j.device /\ store.soft = m_j.soft
        /\ store.keycard = m_j.keycard
        /\ store.bindings = [m_j.bindings EXCEPT ![c] = id]
    BY <1>0 DEF Stores
  <2>2. /\ Change(store) /\ UNCHANGED <<minted, owned>>
        /\ chosen' = [chosen EXCEPT ![c] = id]
        /\ chosen' \in [Containers -> Ids \cup {NoId}]
    BY <1>00, <1>3 DEF BindContainer
  <2> HIDE DEF store
  <2> QED
    BY <1>0, <1>00, <2>1, <2>2, ChangeKeeps
<1> QED
  BY <1>1, <1>2, <1>3

\* A new process has the file, or a new store and a new device key.
LEMMA LoadKeeps ==
  ASSUME StoreIInv, Load
  PROVE  StoreIInv'
<1> DEFINE store == NewStore("later")
<1>1. store \in Stores /\ store.soft = {} /\ m_j # Torn
  BY DEF NewStore, Stores, DeviceKeys, StoreIInv, StoresOK
<1> HIDE DEF store
<1>2. PICK opened \in BOOLEAN :
        /\ IF opened /\ disk # Torn
             THEN m_j' = disk /\ unsaved' = FALSE /\ UNCHANGED <<disk, faults>>
             ELSE Save(store)
        /\ dropped' = (dropped \/ unsaved \/ ~opened)
        /\ UNCHANGED <<minted, chosen, owned>>
  BY DEF Load, store
<1>3. CASE opened /\ disk # Torn
  BY <1>2, <1>3 DEF StoreIInv, StoresOK, HistoryOK
<1>4. CASE ~(opened /\ disk # Torn)
  <2>1. Save(store) /\ minted' = minted
    BY <1>2, <1>4
  <2>2. minted \subseteq SoftIds
    BY DEF StoreIInv, StoresOK
  <2>3. StoresOK' /\ (~unsaved' => disk' = m_j')
    BY <1>1, <2>1, <2>2, SaveKeeps
  <2>4. dropped'
    <3>1. ~opened \/ disk = Torn
      BY <1>4
    <3>2. disk = Torn => unsaved
      BY <1>1 DEF StoreIInv, HistoryOK
    <3> QED
      BY <1>2, <3>1, <3>2
  <2> QED
    BY <1>2, <2>3, <2>4 DEF StoreIInv, HistoryOK
<1> QED
  BY <1>3, <1>4

-----------------------------------------------------------------------------
Requests == [stage : Stages, tap : 0..2, owner : Ids \cup {NoId}, asked : Ids \cup {NoId},
             keys : {{}} \cup {Candidates(card, 1) : card \in Cards}, polls : 0..MaxPolls]

\* A request that has not begun holds nothing; one that signs knows for whom; one
\* between two taps holds what the first card may have signed with.
RequestOK(q) ==
  /\ q \in Requests
  /\ q.stage = "none" => q = Idle
  /\ q.owner # NoId => q.tap = 0
  /\ q.tap = 2 <=> q.keys # {}

RequestsOK ==
  /\ requests \in [Refs -> Requests]
  /\ \A r \in Refs : RequestOK(requests[r])

AnswersOK == answers \in [Refs -> Nat] /\ OneAnswer

\* A step of request r moves r only, and answers it when it is done.
Step(r, q) ==
  /\ requests' = [requests EXCEPT ![r] = q]
  /\ answers' = IF q.stage = "done" THEN [answers EXCEPT ![r] = @ + 1] ELSE answers

LEMMA StepKeeps ==
  ASSUME RequestsOK, AnswersOK, NEW r \in Refs, NEW q, RequestOK(q), Step(r, q),
         requests[r].stage # "done"
  PROVE  RequestsOK' /\ AnswersOK'
<1>1. RequestsOK'
  BY DEF RequestsOK, RequestOK, Step
<1>2. /\ requests \in [Refs -> Requests] /\ answers \in [Refs -> Nat]
      /\ \A t \in Refs : answers[t] = IF requests[t].stage = "done" THEN 1 ELSE 0
  BY DEF RequestsOK, AnswersOK, OneAnswer
<1>3. \A t \in Refs : requests'[t] = IF t = r THEN q ELSE requests[t]
  BY <1>2 DEF Step
<1>4. CASE q.stage = "done"
  <2>1. answers' = [answers EXCEPT ![r] = @ + 1] /\ answers[r] = 0
    BY <1>2, <1>4 DEF Step
  <2>2. answers' \in [Refs -> Nat]
    BY <1>2, <2>1
  <2>3. \A t \in Refs : answers'[t] = IF t = r THEN 1 ELSE answers[t]
    BY <1>2, <2>1
  <2> QED
    BY <1>1, <1>2, <1>3, <1>4, <2>2, <2>3 DEF AnswersOK, OneAnswer
<1>5. CASE q.stage # "done"
  <2>1. answers' = answers
    BY <1>5 DEF Step
  <2> QED
    BY <1>1, <1>2, <1>3, <1>5, <2>1 DEF AnswersOK, OneAnswer
<1> QED
  BY <1>4, <1>5

\* What a request under way may turn into.
LEMMA Moved ==
  ASSUME RequestsOK, NEW r \in Refs, requests[r].stage # "none",
         NEW stage \in Stages, stage # "none"
  PROVE  RequestOK([requests[r] EXCEPT !.stage = stage])
<1>1. RequestOK(requests[r])
  BY DEF RequestsOK
<1> QED
  BY <1>1 DEF RequestOK, Requests

\* A request that goes on, or is answered with an error, gives no signature.
LEMMA MoveSteps ==
  ASSUME RequestsOK, AnswersOK, NEW r \in Refs, requests[r].stage \in Active,
         AnswerError(r) \/ \E stage \in Active : Move(r, stage)
  PROVE  RequestsOK' /\ AnswersOK' /\ UNCHANGED signed
<1>0. requests[r].stage # "none" /\ requests[r].stage # "done"
  BY DEF Active
<1>1. CASE AnswerError(r)
  <2> DEFINE q == [requests[r] EXCEPT !.stage = "done"]
  <2>1. RequestOK(q) /\ q.stage = "done"
    <3>1. "done" \in Stages
      BY DEF Stages
    <3>2. requests[r] \in Requests
      BY DEF RequestsOK
    <3> QED
      BY <1>0, <3>1, <3>2, Moved DEF Requests
  <2>2. Step(r, q)
    BY <1>1, <2>1 DEF AnswerError, Answer, Step
  <2> HIDE DEF q
  <2> QED
    BY <1>0, <1>1, <2>1, <2>2, StepKeeps DEF AnswerError
<1>2. ASSUME NEW stage \in Active, Move(r, stage)
      PROVE  RequestsOK' /\ AnswersOK' /\ UNCHANGED signed
  <2> DEFINE q == [requests[r] EXCEPT !.stage = stage]
  <2>1. RequestOK(q) /\ q.stage # "done"
    <3>1. stage \in Stages /\ stage # "none" /\ stage # "done"
      BY DEF Stages, Active
    <3>2. requests[r] \in Requests
      BY DEF RequestsOK
    <3> QED
      BY <1>0, <3>1, <3>2, Moved DEF Requests
  <2>2. Step(r, q)
    BY <1>2, <2>1 DEF Move, Step
  <2> HIDE DEF q
  <2> QED
    BY <1>0, <1>2, <2>1, <2>2, StepKeeps DEF Move
<1> QED
  BY <1>1, <1>2

-----------------------------------------------------------------------------
\* A request signs as what was chosen when it began.
AskedOK == ~dropped => \A r \in Refs : requests[r].owner = requests[r].asked

SignedOK == AskedOK /\ SignedAsChosen

IInv == StoreIInv /\ RequestsOK /\ AnswersOK /\ SignedOK

\* Steps that leave what a request holds, and forget no choice.
Holds ==
  /\ \A r \in Refs : /\ requests'[r].owner = requests[r].owner
                     /\ requests'[r].asked = requests[r].asked
  /\ dropped => dropped'

LEMMA StoreKept ==
  ASSUME StoreIInv, StoreUnchanged
  PROVE  StoreIInv'
BY DEF StoreUnchanged, storeVars, historyVars, StoreIInv, StoresOK, HistoryOK

LEMMA SignaturesKept ==
  ASSUME SignedOK, UNCHANGED signed, Holds
  PROVE  SignedOK'
BY DEF SignedOK, AskedOK, SignedAsChosen, Holds

LEMMA StepHolds ==
  ASSUME RequestsOK, NEW r \in Refs, NEW q, requests' = [requests EXCEPT ![r] = q],
         q.owner = requests[r].owner, q.asked = requests[r].asked, dropped' = dropped
  PROVE  Holds
BY DEF RequestsOK, Holds

LEMMA StageHolds ==
  ASSUME RequestsOK, NEW r \in Refs, NEW stage,
         requests' = [requests EXCEPT ![r].stage = stage], dropped' = dropped
  PROVE  Holds
<1> DEFINE q == [requests[r] EXCEPT !.stage = stage]
<1>1. requests[r] \in Requests
  BY DEF RequestsOK
<1>2. q.owner = requests[r].owner /\ q.asked = requests[r].asked
  BY <1>1 DEF Requests
<1>3. requests' = [requests EXCEPT ![r] = q]
  OBVIOUS
<1> HIDE DEF q
<1> QED
  BY <1>2, <1>3, StepHolds

LEMMA AnswerHolds ==
  ASSUME RequestsOK, NEW r \in Refs, dropped' = dropped,
         Answer(r) \/ \E stage \in Active : Move(r, stage)
  PROVE  Holds
BY StageHolds DEF Answer, Move

LEMMA OwnerIsCard ==
  ASSUME StoreIInv, NEW c, SignerOf(c) \in m_j.keycard
  PROVE  SignerOf(c) \in Ids
BY DEF StoreIInv, StoresOK, Stores, Ids

LEMMA IdleIsTyped == Idle \in Requests
<1>1. 0 \in 0..MaxPolls /\ 0 \in 0..2 /\ "none" \in Stages
  BY DEF Stages
<1> QED
  BY <1>1 DEF Idle, Requests

\* A request begins.
LEMMA Begins ==
  ASSUME IInv, NEW r \in Refs, EnrollKeycard(r) \/ \E c \in Containers : KeycardSign(r, c)
  PROVE  IInv'
<1>0. StoreIInv /\ RequestsOK /\ AnswersOK /\ SignedOK
  BY DEF IInv
<1>1. requests[r] = Idle /\ "requesting" \in Stages
  BY <1>0 DEF EnrollKeycard, KeycardSign, RequestsOK, RequestOK, Stages, Active
<1>2. CASE EnrollKeycard(r)
  <2> DEFINE q == [Idle EXCEPT !.stage = "requesting", !.tap = 1]
  <2>0. /\ q \in Requests /\ q.stage = "requesting"
        /\ q.tap = 1 /\ q.owner = NoId /\ q.asked = NoId /\ q.keys = {}
    <3>1. Idle \in Requests /\ 1 \in 0..2
      BY IdleIsTyped
    <3>2. /\ Idle.tap = 0 /\ Idle.owner = NoId /\ Idle.asked = NoId /\ Idle.keys = {}
          /\ "requesting" \in Stages
      BY <1>1 DEF Idle
    <3> QED
      BY <3>1, <3>2 DEF Requests
  <2>1. RequestOK(q) /\ q.stage # "done"
    BY <2>0 DEF RequestOK
  <2>2. requests' = [requests EXCEPT ![r] = q] /\ UNCHANGED <<answers, signed>> /\ StoreUnchanged
    BY <1>1, <1>2 DEF EnrollKeycard
  <2> HIDE DEF q
  <2>3. RequestsOK' /\ AnswersOK'
    <3>1. requests[r].stage # "done"
      BY <1>1 DEF Idle
    <3>2. Step(r, q)
      BY <2>1, <2>2 DEF Step
    <3> QED
      BY <1>0, <2>1, <3>1, <3>2, StepKeeps
  <2>4. Holds
    <3>1. Idle.owner = NoId /\ Idle.asked = NoId
      BY DEF Idle
    <3>2. dropped' = dropped
      BY <2>2 DEF StoreUnchanged, historyVars
    <3> QED
      BY <1>0, <1>1, <2>0, <2>2, <3>1, <3>2, StepHolds
  <2> QED
    BY <1>0, <2>2, <2>3, <2>4, StoreKept, SignaturesKept DEF IInv
<1>3. ASSUME NEW c \in Containers, KeycardSign(r, c) PROVE IInv'
  <2> DEFINE q == [Idle EXCEPT !.stage = "requesting", !.owner = SignerOf(c),
                         !.asked = chosen[c]]
  <2>0. SignerOf(c) \in Ids /\ chosen[c] \in Ids \cup {NoId}
    <3>1. SignerOf(c) \in Ids
      BY <1>0, <1>3, OwnerIsCard DEF KeycardSign
    <3> QED
      BY <1>0, <3>1 DEF StoreIInv, HistoryOK
  <2>00. /\ q \in Requests /\ q.stage = "requesting" /\ q.tap = 0 /\ q.keys = {}
         /\ q.owner = SignerOf(c) /\ q.asked = chosen[c]
    BY <1>1, <2>0, IdleIsTyped DEF Idle, Requests
  <2>1. RequestOK(q) /\ q.stage # "done"
    BY <2>00 DEF RequestOK
  <2>2. requests' = [requests EXCEPT ![r] = q] /\ UNCHANGED <<answers, signed>> /\ StoreUnchanged
    BY <1>1, <1>3 DEF KeycardSign
  <2> HIDE DEF q
  <2>3. RequestsOK' /\ AnswersOK'
    <3>1. requests[r].stage # "done"
      BY <1>1 DEF Idle
    <3>2. Step(r, q)
      BY <2>1, <2>2 DEF Step
    <3> QED
      BY <1>0, <2>1, <3>1, <3>2, StepKeeps
  \* Only a card that is bound signs.
  <2>4. ~dropped => SignerOf(c) = chosen[c]
    <3>1. SignerOf(c) \in m_j.keycard /\ m_j.keycard \subseteq Cards
      BY <1>0, <1>3 DEF KeycardSign, StoreIInv, StoresOK, Stores
    <3>2. ~Exists(m_j.bindings[c]) => SignerOf(c) \notin m_j.keycard
      <4>1. "device" \notin m_j.keycard
        BY <3>1
      <4> QED
        BY <4>1 DEF SignerOf
    <3>3. SignerOf(c) = m_j.bindings[c]
      BY <3>1, <3>2 DEF SignerOf
    <3> QED
      BY <1>0, <3>3 DEF StoreIInv, HistoryOK
  <2>5. SignedOK'
    <3>1. dropped' = dropped /\ signed' = signed
      BY <2>2 DEF StoreUnchanged, historyVars
    <3>2. \A t \in Refs : requests'[t] = IF t = r THEN q ELSE requests[t]
      BY <1>0, <2>2 DEF RequestsOK
    <3>3. AskedOK'
      BY <1>0, <2>00, <2>4, <3>1, <3>2 DEF SignedOK, AskedOK
    <3> QED
      BY <1>0, <3>1, <3>3 DEF SignedOK, SignedAsChosen
  <2> QED
    BY <1>0, <2>2, <2>3, <2>5, StoreKept DEF IInv
<1> QED
  BY <1>2, <1>3

\* It is put to the keycard module, polled and timed, and may fail at any step.
LEMMA GoesOn ==
  ASSUME IInv, NEW r \in Refs,
         \/ Requested(r) \/ CheckFailed(r) \/ PollTimer(r) \/ CheckPending(r)
  PROVE  IInv'
<1>0. StoreIInv /\ RequestsOK /\ AnswersOK /\ SignedOK
  BY DEF IInv
<1>1. /\ requests[r].stage \in Active /\ StoreUnchanged
      /\ \/ AnswerError(r) \/ \E stage \in Active : Move(r, stage)
         \/ /\ requests[r].polls < MaxPolls
            /\ requests' = [requests EXCEPT ![r].stage = "waiting", ![r].polls = @ + 1]
            /\ UNCHANGED <<answers, signed>>
  <2>1. requests[r].polls \in Nat
    BY <1>0 DEF RequestsOK, Requests
  <2>2. CASE Requested(r)
    BY <2>2 DEF Requested, Active
  <2>3. CASE CheckFailed(r)
    BY <2>3 DEF CheckFailed, Active
  <2>4. CASE PollTimer(r)
    BY <2>4 DEF PollTimer, Active
  <2>5. CASE CheckPending(r)
    BY <2>1, <2>5 DEF CheckPending, Active
  <2> QED
    BY <2>2, <2>3, <2>4, <2>5
<1>10. dropped' = dropped
  BY <1>1 DEF StoreUnchanged, historyVars
<1>2. CASE AnswerError(r) \/ \E stage \in Active : Move(r, stage)
  <2>1. Holds
    BY <1>0, <1>2, <1>10, AnswerHolds DEF AnswerError
  <2>2. RequestsOK' /\ AnswersOK' /\ UNCHANGED signed
    BY <1>0, <1>1, <1>2, MoveSteps
  <2> QED
    BY <1>0, <1>1, <2>1, <2>2, StoreKept, SignaturesKept DEF IInv
<1>3. CASE /\ requests[r].polls < MaxPolls
           /\ requests' = [requests EXCEPT ![r].stage = "waiting", ![r].polls = @ + 1]
           /\ UNCHANGED <<answers, signed>>
  <2> DEFINE q == [requests[r] EXCEPT !.stage = "waiting", !.polls = @ + 1]
  <2>0. RequestOK(requests[r]) /\ requests[r].stage \notin {"none", "done"}
    BY <1>0, <1>1 DEF RequestsOK, Active
  <2>00. /\ q.stage = "waiting" /\ q.tap = requests[r].tap
         /\ q.owner = requests[r].owner /\ q.keys = requests[r].keys
         /\ q.asked = requests[r].asked /\ q \in Requests
    <3>1. requests[r].polls + 1 \in 0..MaxPolls /\ "waiting" \in Stages
      BY <2>0, <1>3 DEF RequestOK, Requests, Stages, Active
    <3> QED
      BY <2>0, <3>1 DEF RequestOK, Requests
  <2>1. RequestOK(q) /\ q.stage # "done"
    BY <2>0, <2>00 DEF RequestOK
  <2>2. requests' = [requests EXCEPT ![r] = q]
    BY <1>3
  <2> HIDE DEF q
  <2>3. RequestsOK' /\ AnswersOK'
    BY <1>0, <1>3, <2>0, <2>1, <2>2, StepKeeps DEF Step
  <2>4. Holds
    BY <1>0, <1>10, <2>00, <2>2, StepHolds
  <2> QED
    BY <1>0, <1>1, <1>3, <2>3, <2>4, StoreKept, SignaturesKept DEF IInv
<1> QED
  BY <1>1, <1>2, <1>3

\* A signature is answered, and given out under the key that was asked for.
LEMMA AnswerSteps ==
  ASSUME RequestsOK, AnswersOK, NEW r \in Refs, requests[r].stage \in Active, Answer(r)
  PROVE  RequestsOK' /\ AnswersOK'
<1> DEFINE q == [requests[r] EXCEPT !.stage = "done"]
<1>0. requests[r].stage # "none" /\ requests[r].stage # "done" /\ "done" \in Stages
  BY DEF Active, Stages
<1>1. RequestOK(q) /\ q.stage = "done"
  <2>1. requests[r] \in Requests
    BY DEF RequestsOK
  <2> QED
    BY <1>0, <2>1, Moved DEF Requests
<1>2. Step(r, q)
  BY <1>1 DEF Answer, Step
<1> HIDE DEF q
<1> QED
  BY <1>0, <1>1, <1>2, StepKeeps

LEMMA Finalized ==
  ASSUME IInv, NEW r \in Refs, NEW card \in Cards, NEW form \in Forms,
         FinalizeKeycard(r, card, form)
  PROVE  IInv'
<1>0. StoreIInv /\ RequestsOK /\ AnswersOK /\ SignedOK
  BY DEF IInv
<1>1. /\ requests[r].stage \in Active /\ StoreUnchanged
      /\ AnswerError(r) => Answer(r) /\ UNCHANGED signed
  BY DEF FinalizeKeycard, Active, AnswerError
<1>10. dropped' = dropped
  BY <1>1 DEF StoreUnchanged, historyVars
<1>2. CASE AnswerError(r)
  <2>1. Holds
    BY <1>0, <1>1, <1>2, <1>10, AnswerHolds
  <2> QED
    BY <1>0, <1>1, <1>2, <2>1, AnswerSteps, StoreKept, SignaturesKept DEF IInv
<1>3. CASE /\ form # "short" /\ ~WrongCard(r, card, form)
           /\ signed' = signed \cup {[by |-> card, pub |-> requests[r].owner,
                                     asked |-> requests[r].asked, form |-> form]}
           /\ Answer(r)
  <2>1. Holds
    BY <1>0, <1>3, <1>10, AnswerHolds
  <2>2. AskedOK'
    BY <1>0, <2>1 DEF SignedOK, AskedOK, Holds
  <2>3. SignedAsChosen'
    <3> SUFFICES ASSUME ~dropped, NEW t \in signed'
                 PROVE  t.pub = t.asked /\ (t.form = "keyed" => t.by = t.asked)
      BY <1>10 DEF SignedAsChosen
    <3>1. requests[r].owner = requests[r].asked
      BY <1>0 DEF SignedOK, AskedOK
    <3>2. form = "keyed" => card = requests[r].owner
      BY <1>3 DEF WrongCard
    <3>0. \A u \in signed : u.pub = u.asked /\ (u.form = "keyed" => u.by = u.asked)
      BY <1>0 DEF SignedOK, SignedAsChosen
    <3>3. CASE t \in signed
      BY <3>0, <3>3
    <3>4. CASE t = [by |-> card, pub |-> requests[r].owner,
                    asked |-> requests[r].asked, form |-> form]
      BY <3>1, <3>2, <3>4
    <3> QED
      BY <1>3, <3>3, <3>4
  <2> QED
    BY <1>0, <1>1, <1>3, <2>2, <2>3, AnswerSteps, StoreKept DEF IInv, SignedOK
<1> QED
  BY <1>2, <1>3 DEF FinalizeKeycard

LEMMA FirstTap ==
  ASSUME IInv, NEW r \in Refs, NEW card \in Cards, NEW form, EnrolFirst(r, card, form)
  PROVE  IInv'
<1>0. StoreIInv /\ RequestsOK /\ AnswersOK /\ SignedOK
  BY DEF IInv
<1>1. /\ requests[r].stage \in Active /\ StoreUnchanged
      /\ requests[r].stage = "polling" /\ requests[r].tap = 1
      /\ AnswerError(r) => Answer(r) /\ UNCHANGED signed
  BY DEF EnrolFirst, Active, AnswerError
<1>10. dropped' = dropped
  BY <1>1 DEF StoreUnchanged, historyVars
<1>2. CASE AnswerError(r)
  <2>1. Holds
    BY <1>0, <1>1, <1>2, <1>10, AnswerHolds
  <2> QED
    BY <1>0, <1>1, <1>2, <2>1, AnswerSteps, StoreKept, SignaturesKept DEF IInv
<1> DEFINE q == [requests[r] EXCEPT !.stage = "requesting", !.tap = 2, !.polls = 0,
                                    !.keys = Candidates(card, 1)]
<1>3. CASE requests' = [requests EXCEPT ![r] = q] /\ UNCHANGED <<answers, signed>>
  <2>1. RequestOK(requests[r]) /\ Candidates(card, 1) # {}
    BY <1>0 DEF RequestsOK, Candidates
  <2>20. /\ q.stage = "requesting" /\ q.tap = 2 /\ q.keys # {}
         /\ q.owner = NoId /\ q.asked = requests[r].asked /\ q \in Requests
    <3>1. 0 \in 0..MaxPolls /\ 2 \in 0..2 /\ "requesting" \in Stages
      BY DEF Stages, Active
    <3>2. requests[r].owner = NoId
      BY <1>1, <2>1 DEF RequestOK
    <3> QED
      BY <2>1, <3>1, <3>2 DEF RequestOK, Requests
  <2>2. RequestOK(q) /\ q.stage # "done"
    BY <2>20 DEF RequestOK
  <2> HIDE DEF q
  <2>3. RequestsOK' /\ AnswersOK'
    BY <1>0, <1>1, <1>3, <2>2, StepKeeps DEF Step
  <2>4. Holds
    <3>1. requests[r].owner = NoId
      BY <1>1, <2>1 DEF RequestOK
    <3> QED
      BY <1>0, <1>3, <1>10, <2>20, <3>1, StepHolds DEF q
  <2> QED
    BY <1>0, <1>1, <1>3, <2>3, <2>4, StoreKept, SignaturesKept DEF IInv
<1> QED
  BY <1>2, <1>3 DEF EnrolFirst

\* The key both taps share is the card's own.
LEMMA SharedKey ==
  ASSUME RequestsOK, NEW r \in Refs, NEW card \in Cards, requests[r].tap = 2,
         NEW key \in Matching(r, card)
  PROVE  key \in Cards
<1>1. PICK first \in Cards : requests[r].keys = Candidates(first, 1)
  BY DEF RequestsOK, RequestOK, Requests
<1>2. key \in {first, <<first, 1>>} /\ key \in {card, <<card, 2>>}
  BY <1>1 DEF Matching, Candidates
<1>3. <<first, 1>> # <<card, 2>>
  OBVIOUS
<1>4. <<first, 1>> # card
  <2>1. 1 \in 1..2
    OBVIOUS
  <2>2. <<first, 1>> \notin Cards
    BY <2>1, KeyAssumption
  <2> QED
    BY <2>2
<1> QED
  BY <1>2, <1>3, <1>4

LEMMA SecondTap ==
  ASSUME IInv, NEW r \in Refs, NEW card \in Cards, NEW form, EnrolSecond(r, card, form)
  PROVE  IInv'
<1>0. StoreIInv /\ RequestsOK /\ AnswersOK /\ SignedOK
  BY DEF IInv
<1>1. requests[r].stage \in Active /\ requests[r].tap = 2
  BY DEF EnrolSecond, Active
<1>2. CASE AnswerError(r) /\ StoreUnchanged
  <2>1. Holds
    BY <1>0, <1>2, AnswerHolds DEF AnswerError, StoreUnchanged, historyVars
  <2> QED
    BY <1>0, <1>1, <1>2, <2>1, AnswerSteps, StoreKept, SignaturesKept DEF IInv, AnswerError
<1>3. ASSUME NEW key \in Matching(r, card),
             Change(EnrolledStore(key)), owned' = owned \cup {key}, Answer(r),
             UNCHANGED <<signed, minted, chosen>>
      PROVE  IInv'
  <2> DEFINE store == EnrolledStore(key)
  <2>1. key \in Cards
    BY <1>0, <1>1, SharedKey
  <2>2. /\ m_j \in Stores /\ m_j.soft \subseteq minted /\ minted \subseteq SoftIds
        /\ chosen \in [Containers -> Ids \cup {NoId}]
        /\ ~dropped => owned = m_j.soft \cup m_j.keycard /\ chosen = m_j.bindings
    BY <1>0 DEF StoreIInv, StoresOK, HistoryOK
  <2>3. /\ store \in Stores /\ store.device = m_j.device /\ store.soft = m_j.soft
        /\ store.keycard = m_j.keycard \cup {key} /\ store.bindings = m_j.bindings
    BY <2>1, <2>2 DEF EnrolledStore, Stores
  <2>4. Change(store)
    BY <1>3
  <2> HIDE DEF store
  <2>5. StoreIInv'
    BY <1>0, <1>3, <2>2, <2>3, <2>4, ChangeKeeps
  <2>6. Holds
    BY <1>0, <1>3, AnswerHolds DEF Change
  <2> QED
    BY <1>0, <1>1, <1>3, <2>5, <2>6, AnswerSteps, SignaturesKept DEF IInv
<1> QED
  BY <1>2, <1>3 DEF EnrolSecond

\* A request that was under way is lost with the process; nobody is answered.
LEMMA Restarted ==
  ASSUME IInv, Restart
  PROVE  IInv'
<1>0. StoreIInv /\ RequestsOK /\ AnswersOK /\ SignedOK
  BY DEF IInv
<1>1. StoreIInv'
  BY <1>0, LoadKeeps DEF Restart
<1> DEFINE q(r) == IF requests[r].stage \in Active
                   THEN [requests[r] EXCEPT !.stage = "lost"] ELSE requests[r]
<1>2. \A r \in Refs : requests'[r] = q(r) /\ RequestOK(q(r))
  <2> TAKE r \in Refs
  <2>1. "lost" \in Stages /\ requests[r] \in Requests /\ RequestOK(requests[r])
    BY <1>0 DEF Stages, RequestsOK
  <2>2. requests'[r] = q(r)
    BY DEF Restart
  <2>3. CASE requests[r].stage \in Active
    <3>1. requests[r].stage # "none"
      BY <2>3 DEF Active
    <3> QED
      BY <1>0, <2>1, <2>2, <2>3, <3>1, Moved
  <2> QED
    BY <2>1, <2>2, <2>3
<1>3. RequestsOK'
  <2>1. requests' = [r \in Refs |-> q(r)]
    BY DEF Restart
  <2>2. \A r \in Refs : q(r) \in Requests
    BY <1>2 DEF RequestOK
  <2> HIDE DEF q
  <2> QED
    BY <1>2, <2>1, <2>2 DEF RequestsOK
<1>4. \A r \in Refs : requests'[r].stage = "done" <=> requests[r].stage = "done"
  <2> TAKE r \in Refs
  <2>1. requests[r] \in Requests
    BY <1>0 DEF RequestsOK
  <2> QED
    BY <1>2, <2>1 DEF Active, Requests
<1>5. AnswersOK'
  BY <1>0, <1>4 DEF AnswersOK, OneAnswer, Restart
<1>6. Holds
  <2>1. \A r \in Refs : /\ q(r).owner = requests[r].owner /\ q(r).asked = requests[r].asked
    BY <1>0 DEF RequestsOK, Requests
  <2>2. dropped => dropped'
    BY DEF Restart, Load
  <2> QED
    BY <1>2, <2>1, <2>2 DEF Holds
<1> QED
  BY <1>0, <1>1, <1>3, <1>5, <1>6, SignaturesKept DEF IInv, Restart

-----------------------------------------------------------------------------
LEMMA InitIInv == Init => IInv
<1> SUFFICES ASSUME Init PROVE IInv
  OBVIOUS
<1>1. StoreIInv
  <2>1. /\ m_j \in Stores /\ m_j.soft = {} /\ m_j.device = "first"
        /\ m_j.keycard = Enrolled /\ m_j.bindings = chosen
        /\ chosen \in [Containers -> Ids \cup {NoId}]
    BY DEF Init, StoreInit, NewStore, Stores, DeviceKeys
  <2>2. disk = m_j /\ minted = {} /\ faults = 0 /\ owned = Enrolled
    BY DEF Init, StoreInit
  <2>3. disk # Torn
    BY <2>1, <2>2
  <2> QED
    BY <2>1, <2>2, <2>3 DEF StoreIInv, StoresOK, HistoryOK
<1>2. RequestsOK
  <2>1. requests = [r \in Refs |-> Idle] /\ RequestOK(Idle)
    BY IdleIsTyped DEF Init, Idle, RequestOK
  <2> QED
    BY <2>1, IdleIsTyped DEF RequestsOK
<1>3. AnswersOK /\ SignedOK
  BY DEF Init, Idle, AnswersOK, OneAnswer, SignedOK, AskedOK, SignedAsChosen
<1> QED
  BY <1>1, <1>2, <1>3 DEF IInv

LEMMA StoreSteps == ASSUME IInv, StoreNext, UNCHANGED keycardVars PROVE IInv'
<1>1. StoreIInv'
  <2>1. StoreIInv
    BY DEF IInv
  <2>2. CASE \/ \E id \in SoftIds : AddSoft(id) \/ RenameSoft(id)
             \/ \E id \in Ids : RemoveSoft(id)
    BY <2>1, <2>2, SoftKeys
  <2>3. CASE \/ \E id \in Ids : RemoveKeycard(id) \/ SetDefault(id)
             \/ \E c \in Containers, id \in Ids : BindContainer(c, id)
    BY <2>1, <2>3, Choices
  <2> QED
    BY <2>2, <2>3 DEF StoreNext
<1>2. RequestsOK' /\ AnswersOK'
  BY DEF IInv, keycardVars, RequestsOK, AnswersOK, OneAnswer
<1>3. SignedOK'
  <2>1. dropped' = dropped
    BY DEF StoreNext, AddSoft, RenameSoft, RemoveSoft, RemoveKeycard, SetDefault,
           BindContainer, Change
  <2> QED
    BY <2>1, SignaturesKept DEF IInv, keycardVars, Holds
<1> QED
  BY <1>1, <1>2, <1>3 DEF IInv

LEMMA NextIInv == IInv /\ [Next]_vars => IInv'
<1> SUFFICES ASSUME IInv, [Next]_vars PROVE IInv'
  OBVIOUS
<1>1. CASE StoreNext /\ UNCHANGED keycardVars
  BY <1>1, StoreSteps
<1>2. ASSUME NEW r \in Refs,
             KeycardNext(r) \/ EnrollKeycard(r) \/ \E c \in Containers : KeycardSign(r, c)
      PROVE  IInv'
  <2>1. CASE EnrollKeycard(r) \/ \E c \in Containers : KeycardSign(r, c)
    BY <2>1, Begins
  <2>2. CASE Requested(r) \/ CheckFailed(r) \/ PollTimer(r) \/ CheckPending(r)
    BY <2>2, GoesOn
  <2>3. ASSUME NEW card \in Cards, NEW form \in Forms,
               \/ FinalizeKeycard(r, card, form)
               \/ EnrolFirst(r, card, form) \/ EnrolSecond(r, card, form)
        PROVE  IInv'
    BY <2>3, Finalized, FirstTap, SecondTap
  <2> QED
    BY <1>2, <2>1, <2>2, <2>3 DEF KeycardNext, Checked
<1>3. CASE Restart
  BY <1>3, Restarted
<1>4. CASE UNCHANGED vars
  <2>1. StoreUnchanged /\ UNCHANGED keycardVars
    BY <1>4 DEF vars, StoreUnchanged
  <2>2. RequestsOK' /\ AnswersOK' /\ SignedOK'
    BY <2>1 DEF IInv, keycardVars, RequestsOK, AnswersOK, OneAnswer, SignedOK, AskedOK,
                SignedAsChosen, StoreUnchanged, historyVars
  <2> QED
    BY <2>1, <2>2, StoreKept DEF IInv
<1> QED
  BY <1>1, <1>2, <1>3, <1>4 DEF Next

\* The inductive invariant: what is in memory, on disk and given out hangs
\* together through every save, tap, poll and restart.
THEOREM Invariance == Spec => []IInv
<1> QED
  BY InitIInv, NextIInv, PTL DEF Spec

-----------------------------------------------------------------------------
LEMMA IInvStore == IInv => StoreInv
<1> SUFFICES ASSUME IInv PROVE StoreInv
  OBVIOUS
<1>1. StoreIInv /\ RequestsOK
  BY DEF IInv
<1>2. m_j.device \in DeviceKeys
  BY <1>1 DEF StoreIInv, StoresOK, Stores
<1>3. /\ m_j.soft \subseteq minted /\ faults \in 0..MaxFaults /\ minted \subseteq SoftIds
      /\ m_j.default \in Ids \cup {NoId} /\ m_j.bindings \in [Containers -> Ids \cup {NoId}]
      /\ m_j.keycard \subseteq Cards
  BY <1>1 DEF StoreIInv, StoresOK, Stores
<1>4. ASSUME NEW r \in Refs
      PROVE  /\ requests[r].stage \in Stages /\ requests[r].polls \in 0..MaxPolls
             /\ requests[r].tap \in 0..2 /\ (requests[r].owner # NoId => requests[r].tap = 0)
             /\ (requests[r].keys # {}) <=> (requests[r].tap = 2)
  BY <1>1 DEF RequestsOK, RequestOK, Requests
<1> QED
  BY <1>2, <1>3, <1>4 DEF StoreInv, TypeOK, EnrolledAreCards

\* Every part of the store and the requests is well typed, and no enrolment ever
\* recorded a key that no card has.
THEOREM StoreIsSound == Spec => []StoreInv
<1> QED
  BY Invariance, IInvStore, PTL

\* A request is answered exactly once if it is done, by a signature, an error or the
\* time-out, and never otherwise.
THEOREM AnsweredOnce == Spec => []OneAnswer
<1>1. IInv => OneAnswer
  BY DEF IInv, AnswersOK
<1> QED
  BY <1>1, Invariance, PTL

\* As long as no choice was dropped by a restart, a signature goes out under the
\* identity that was bound when it was asked for, and one that carries its key was
\* made by that card.
THEOREM SignaturesAsChosen == Spec => []SignedAsChosen
<1>1. IInv => SignedAsChosen
  BY DEF IInv, SignedOK
<1> QED
  BY <1>1, Invariance, PTL

\* What the user chose and still has is what signs, as long as no choice was dropped
\* by a restart.
THEOREM ChosenSigns == Spec => []SignsAsChosen
<1>1. IInv => SignsAsChosen
  <2> SUFFICES ASSUME IInv, ~dropped, NEW c \in Containers
               PROVE  IF chosen[c] \in owned \cup {"device"} THEN SignerOf(c) = chosen[c]
                      ELSE SignerOf(c) \notin Cards
    BY DEF SignsAsChosen
  <2>1. /\ chosen = m_j.bindings /\ owned = m_j.soft \cup m_j.keycard
        /\ m_j.soft \subseteq SoftIds
    BY DEF IInv, StoreIInv, HistoryOK, StoresOK
  <2>2. CASE chosen[c] \in owned \cup {"device"}
    BY <2>1, <2>2 DEF SignerOf, Exists
  <2>3. CASE chosen[c] \notin owned \cup {"device"}
    <3>1. SignerOf(c) \in {"device"} \cup m_j.soft
      BY <2>1, <2>3 DEF SignerOf, DefaultId, Exists
    <3> QED
      BY <2>1, <2>3, <3>1
  <2> QED
    BY <2>2, <2>3
<1> QED
  BY <1>1, Invariance, PTL

\* No key is lost, the device's, a soft one or a card's, as long as no change was
\* dropped by a restart.
THEOREM KeysAreKept == Spec => []KeysKept
<1>1. IInv => KeysKept
  BY DEF IInv, StoreIInv, HistoryOK, KeysKept
<1> QED
  BY <1>1, Invariance, PTL
================================================================================
