-------------------------------- MODULE Keycard --------------------------------
(***************************************************************************)
(* Signing and enrolment with a physical card (core/src/loam_core_impl.cpp *)
(* enrollKeycard, keycardSign and what they start), over IdentityStore.    *)
(*                                                                         *)
(* Each is an asynchronous request, named by the caller's ref: requestSign,*)
(* then checkSignStatus every second until the keycard module answers with *)
(* a signature or an error, or MaxPolls pending answers have come.  The    *)
(* answer is the keycardSignResult event.  Enrolment signs two digests and *)
(* takes the one public key both signatures could come from.               *)
(*                                                                         *)
(* The user may tap any card at any request.  A signature has a form: it   *)
(* may carry (or let one recover) the key it was made with, be bare, or be *)
(* unreadable.                                                             *)
(***************************************************************************)
EXTENDS IdentityStore, FiniteSets

CONSTANTS Refs,      \* the requests' correlation ids
          Forms,     \* forms of signature, in {"keyed", "bare", "short"}
          MaxPolls   \* the cap on pending answers, 180 in the code

ASSUME FormAssumption == Forms \subseteq {"keyed", "bare", "short"}
ASSUME PollsAssumption == MaxPolls \in Nat
\* A key a signature could also come from is not that of a card.
ASSUME KeyAssumption == \A card \in Cards, tap \in 1..2 : <<card, tap>> \notin Cards

VARIABLES requests,  \* what runs for each ref
          answers,   \* keycardSignResult events, per ref
          signed     \* signatures given to apps: by which card, under which key,
                     \* the identity chosen when it was asked for, and the form

keycardVars == <<requests, answers, signed>>
vars == <<storeVars, historyVars, keycardVars>>

Active == {"requesting", "polling", "waiting"}
Stages == Active \cup {"none", "done", "lost"}

\* "asked" is history: what the container was bound to when the request began.
Idle == [stage |-> "none", tap |-> 0, owner |-> NoId, asked |-> NoId, keys |-> {},
         polls |-> 0]

\* What the signature of one digest may have been made with: the card's key or
\* another that depends on the digest.
Candidates(card, tap) == {card, <<card, tap>>}

Move(r, stage) ==
  /\ requests' = [requests EXCEPT ![r].stage = stage]
  /\ UNCHANGED <<answers, signed>>

\* The keycardSignResult event.
Answer(r) ==
  /\ requests' = [requests EXCEPT ![r].stage = "done"]
  /\ answers' = [answers EXCEPT ![r] = @ + 1]

AnswerError(r) == Answer(r) /\ UNCHANGED signed

StoreUnchanged == UNCHANGED <<storeVars, historyVars>>

-------------------------------------------------------------------------------

Init ==
  /\ StoreInit
  /\ requests = [r \in Refs |-> Idle]
  /\ answers = [r \in Refs |-> 0] /\ signed = {}

KeycardSign(r, c) ==
  /\ requests[r].stage = "none"
  /\ SignerOf(c) \in m_j.keycard
  /\ requests' = [requests EXCEPT ![r].stage = "requesting", ![r].owner = SignerOf(c),
                                  ![r].asked = chosen[c]]
  /\ UNCHANGED <<answers, signed>> /\ StoreUnchanged

EnrollKeycard(r) ==
  /\ requests[r].stage = "none"
  /\ requests' = [requests EXCEPT ![r].stage = "requesting", ![r].tap = 1]
  /\ UNCHANGED <<answers, signed>> /\ StoreUnchanged

\* requestSign gave a signId, or the keycard module is not there.
Requested(r) ==
  /\ requests[r].stage = "requesting"
  /\ Move(r, "polling") \/ AnswerError(r)
  /\ StoreUnchanged

CheckFailed(r) ==
  /\ requests[r].stage = "polling"
  /\ AnswerError(r) /\ StoreUnchanged

\* Fault: polling has no cap.
CheckPendingUncapped(r) ==
  /\ requests[r].stage = "polling"
  /\ Move(r, "waiting") /\ StoreUnchanged

\* Fault: the time-out is told, and polling goes on.
CheckPendingGoesOn(r) ==
  /\ requests[r].stage = "polling"
  /\ requests' = [requests EXCEPT ![r].stage = "waiting",
                                  ![r].polls = IF @ < MaxPolls THEN @ + 1 ELSE @]
  /\ answers' = [answers EXCEPT ![r] = @ + (IF requests[r].polls = MaxPolls THEN 1 ELSE 0)]
  /\ UNCHANGED signed /\ StoreUnchanged

CheckPending(r) ==
  /\ requests[r].stage = "polling"
  /\ IF requests[r].polls >= MaxPolls THEN AnswerError(r)
     ELSE /\ requests' = [requests EXCEPT ![r].stage = "waiting", ![r].polls = @ + 1]
          /\ UNCHANGED <<answers, signed>>
  /\ StoreUnchanged

PollTimer(r) ==
  /\ requests[r].stage = "waiting"
  /\ Move(r, "polling") /\ StoreUnchanged

\* Fault: any card that is enrolled will do.
UnknownCard(r, card, form) == form = "keyed" /\ card \notin m_j.keycard

\* finalizeKeycard tells a wrong card only from a signature that has a key: a bare
\* one passes, whatever card it is of.
WrongCard(r, card, form) == form = "keyed" /\ card # requests[r].owner

FinalizeKeycard(r, card, form) ==
  /\ requests[r].stage = "polling" /\ requests[r].tap = 0
  /\ IF form = "short" \/ WrongCard(r, card, form) THEN AnswerError(r)
     ELSE /\ signed' = signed \cup {[by |-> card, pub |-> requests[r].owner,
                                     asked |-> requests[r].asked, form |-> form]}
          /\ Answer(r)
  /\ StoreUnchanged

EnrolFirst(r, card, form) ==
  /\ requests[r].stage = "polling" /\ requests[r].tap = 1
  /\ IF form = "short" THEN AnswerError(r)
     ELSE /\ requests' = [requests EXCEPT ![r] =
               [@ EXCEPT !.stage = "requesting", !.tap = 2, !.polls = 0,
                         !.keys = Candidates(card, 1)]]
          /\ UNCHANGED <<answers, signed>>
  /\ StoreUnchanged

\* Fault: any candidate of either tap will do.
EitherKey(r, card) == {CHOOSE key \in requests[r].keys \cup Candidates(card, 2) : key # card}

Matching(r, card) == requests[r].keys \cap Candidates(card, 2)

EnrolSecond(r, card, form) ==
  /\ requests[r].stage = "polling" /\ requests[r].tap = 2
  /\ IF form = "short" \/ Cardinality(Matching(r, card)) # 1
     THEN AnswerError(r) /\ StoreUnchanged
     ELSE \E key \in Matching(r, card) :
            /\ Change(EnrolledStore(key))
            /\ owned' = owned \cup {key}
            /\ Answer(r)
            /\ UNCHANGED <<signed, minted, chosen>>

\* Requests live in memory only.
Restart ==
  /\ Load
  /\ requests' = [r \in Refs |-> IF requests[r].stage \in Active
                                 THEN [requests[r] EXCEPT !.stage = "lost"]
                                 ELSE requests[r]]
  /\ UNCHANGED <<answers, signed>>

-------------------------------------------------------------------------------

Checked(r) ==
  \/ CheckFailed(r) \/ CheckPending(r)
  \/ \E card \in Cards, form \in Forms :
       \/ FinalizeKeycard(r, card, form)
       \/ EnrolFirst(r, card, form) \/ EnrolSecond(r, card, form)

KeycardNext(r) == Requested(r) \/ Checked(r) \/ PollTimer(r)

Next ==
  \/ StoreNext /\ UNCHANGED keycardVars
  \/ \E r \in Refs :
       \/ KeycardNext(r) \/ EnrollKeycard(r)
       \/ \E c \in Containers : KeycardSign(r, c)
  \/ Restart

Spec == Init /\ [][Next]_vars

\* The module answers every call, if only with an error; a timer fires.
FairSpec == Spec /\ \A r \in Refs : WF_vars(KeycardNext(r))

-------------------------------------------------------------------------------

\* A request holds a key to compare with while it signs, and candidates only
\* between the two taps of an enrolment; polls stay within the cap (KcPending,
\* RawSignState).
TypeOK ==
  /\ m_j.device \in DeviceKeys /\ m_j.soft \subseteq minted
  /\ m_j.default \in Ids \cup {NoId} /\ m_j.bindings \in [Containers -> Ids \cup {NoId}]
  /\ faults \in 0..MaxFaults /\ minted \subseteq SoftIds
  /\ \A r \in Refs :
       /\ requests[r].stage \in Stages /\ requests[r].polls \in 0..MaxPolls
       /\ requests[r].tap \in 0..2 /\ (requests[r].owner # NoId => requests[r].tap = 0)
       /\ (requests[r].keys # {}) <=> (requests[r].tap = 2)

\* One keycardSignResult per request, however polls, taps and time-outs meet;
\* none for a request the process did not outlive (pollKeycard, signDigestRaw).
OneAnswer ==
  \A r \in Refs : answers[r] = (IF requests[r].stage = "done" THEN 1 ELSE 0)

\* A signature is handed out under the identity the container was bound to when
\* it was asked for, and, if it carries the key it was made with, was made by that
\* card: whichever card was tapped, and whatever was bound, enrolled or removed while
\* the request waited -- unless the choice itself was dropped, by a restart after a
\* save that did not complete or with a file that could not be opened. Of a bare
\* signature the code cannot tell whose it is (keycardSign, finalizeKeycard).
SignedAsChosen ==
  ~dropped =>
    \A s \in signed : s.pub = s.asked /\ (s.form = "keyed" => s.by = s.asked)

\* Enrolment never records a key no card has, nor one card for another's tap:
\* the key is the one both taps share (enrollKeycard).
EnrolledAreCards == m_j.keycard \subseteq Cards

\* That, and every part of the state well typed.
StoreInv == TypeOK /\ EnrolledAreCards

\* What was chosen is what signs: a container bound to an identity the user
\* still has signs with it, across removals of others, enrolments and restarts,
\* and a card never signs for a container it was not bound to -- unless a restart
\* came after a save that did not complete, or with a file that was missing or could
\* not be opened (identityIdForContainer).
SignsAsChosen ==
  ~dropped => \A c \in Containers :
    IF chosen[c] \in owned \cup {"device"} THEN SignerOf(c) = chosen[c]
    ELSE SignerOf(c) \notin Cards

\* Nothing is lost: the device keeps its first key, and every soft key and card the
\* user added and did not remove is there, whatever saves failed in between as long
\* as a later one completed before the process ended -- unless a restart came after
\* one that did not, or with a file that was missing or could not be opened (load,
\* save, ensureDevice).
KeysKept ==
  ~dropped => m_j.device = "first" /\ m_j.soft \cup m_j.keycard = owned

\* Every request is answered or lost with the process, even if the card is
\* never tapped (the cap of pollKeycard and signDigestRaw).
AnswerComes ==
  \A r \in Refs : requests[r].stage \in Active ~> requests[r].stage \in {"done", "lost"}

================================================================================
