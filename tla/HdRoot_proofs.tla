----------------------------- MODULE HdRoot_proofs -----------------------------
(***************************************************************************)
(* Proofs about the HD root, for any phrases, any passwords and any number *)
(* of failing disk operations.                                             *)
(***************************************************************************)
EXTENDS HdRoot, TLAPS

USE NameAssumption, VaultAssumption, FaultAssumption

\* What a stored root is: the phrase under the password, and neither of the
\* values that stand for no vault.
LEMMA SealedIsVault ==
  ASSUME NEW phrase \in Phrases, NEW password \in Passwords
  PROVE  /\ Sealed(phrase, password).phrase = phrase
         /\ Sealed(phrase, password) \notin {None, Torn}
BY DEF Sealed

-----------------------------------------------------------------------------
\* Type correctness: the vault and the seed only ever hold phrases the user was
\* given, sealed under a password long enough (hdSaveRoot).
THEOREM TypeCorrect == Spec => []TypeOK
<1>1. Init => TypeOK
  BY DEF Init, TypeOK, Exists
<1>2. TypeOK /\ [Next]_vars => TypeOK'
  <2> SUFFICES ASSUME TypeOK, [Next]_vars PROVE TypeOK'
    OBVIOUS
  <2>1. ASSUME NEW phrase \in Phrases, NEW password \in Passwords \cup {Short},
               SaveRoot(phrase, password)
        PROVE  TypeOK'
    <3>1. password \in Passwords
      BY <2>1 DEF SaveRoot
    <3>2. CASE Stored(phrase, password)
      BY <3>1, <3>2 DEF Stored, Sealed, Fault, Announce, StatusNow, Exists, TypeOK
    <3>3. CASE NotStored(phrase, password)
      BY <3>3 DEF NotStored, Fault, TypeOK
    <3> QED
      BY <2>1, <3>2, <3>3 DEF SaveRoot
  <2>2. ASSUME NEW password \in Passwords \cup {Short}, Unlock(password)
        PROVE  TypeOK'
    BY <2>2 DEF Unlock, Opens, Announce, StatusNow, Exists, TypeOK
  <2>3. ASSUME NEW password \in Passwords \cup {Short}, Forget(password)
        PROVE  TypeOK'
    BY <2>3 DEF Forget, Fault, Announce, StatusNow, Exists, TypeOK
  <2>4. CASE Lock
    BY <2>4 DEF Lock, Announce, StatusNow, Exists, TypeOK
  <2>5. CASE Restart
    BY <2>5 DEF Restart, TypeOK
  <2>6. CASE UNCHANGED vars
    BY <2>6 DEF vars, TypeOK
  <2> QED
    BY <2>1, <2>2, <2>3, <2>4, <2>5, <2>6 DEF Next, Create, Import
<1> QED
  BY <1>1, <1>2, PTL DEF Spec

-----------------------------------------------------------------------------
\* What signs is what is stored (hdSaveRoot, hdUnlock, hdForget).
THEOREM SeedIsStored == Spec => []UnlockedIsStored
<1>1. Init => UnlockedIsStored
  BY DEF Init, UnlockedIsStored
<1>2. UnlockedIsStored /\ [Next]_vars => UnlockedIsStored'
  <2> SUFFICES ASSUME UnlockedIsStored, [Next]_vars PROVE UnlockedIsStored'
    OBVIOUS
  <2>1. ASSUME NEW phrase \in Phrases, NEW password \in Passwords \cup {Short},
               SaveRoot(phrase, password)
        PROVE  UnlockedIsStored'
    <3>1. CASE Stored(phrase, password)
      <4>1. CASE vault' = Torn
        BY <4>1 DEF UnlockedIsStored
      <4>2. CASE vault' = Sealed(phrase, password)
        <5>1. password \in Passwords
          BY <2>1 DEF SaveRoot
        <5>2. vault'.phrase = phrase /\ vault' \notin {None, Torn} /\ m_hdSeed' = phrase
          BY <3>1, <4>2, <5>1, SealedIsVault DEF Stored
        <5> QED
          BY <5>2 DEF UnlockedIsStored, Exists
      <4> QED
        BY <3>1, <4>1, <4>2 DEF Stored
    <3>2. CASE NotStored(phrase, password)
      BY <3>2 DEF NotStored, UnlockedIsStored
    <3> QED
      BY <2>1, <3>1, <3>2 DEF SaveRoot
  <2>2. ASSUME NEW password, Unlock(password)
        PROVE  UnlockedIsStored'
    BY <2>2 DEF Unlock, Opens, UnlockedIsStored, Exists
  <2>3. ASSUME NEW password, Forget(password) PROVE UnlockedIsStored'
    BY <2>3 DEF Forget, UnlockedIsStored
  <2>4. CASE Lock
    BY <2>4 DEF Lock, UnlockedIsStored
  <2>5. CASE Restart
    BY <2>5 DEF Restart, UnlockedIsStored
  <2>6. CASE UNCHANGED vars
    BY <2>6 DEF vars, UnlockedIsStored, Exists
  <2> QED
    BY <2>1, <2>2, <2>3, <2>4, <2>5, <2>6 DEF Next, Create, Import
<1> QED
  BY <1>1, <1>2, PTL DEF Spec

-----------------------------------------------------------------------------
\* Apps know: the last status event is the status, unless the vault is torn
\* (hdStatusChanged after every change).
THEOREM StatusTold == Spec => []StatusIsTold
<1>1. Init => StatusIsTold
  BY DEF Init, StatusIsTold
<1>2. StatusIsTold /\ UnlockedIsStored /\ [Next]_vars => StatusIsTold'
  <2> SUFFICES ASSUME StatusIsTold, UnlockedIsStored, [Next]_vars PROVE StatusIsTold'
    OBVIOUS
  <2>1. Announce => StatusIsTold'
    BY DEF Announce, StatusIsTold
  <2>2. ASSUME NEW phrase, NEW password, SaveRoot(phrase, password),
               NotStored(phrase, password)
        PROVE  StatusIsTold'
    <3>1. ~Exists /\ vault' = vault /\ told' = told /\ m_hdSeed' = None
      BY <2>2 DEF SaveRoot, NotStored
    <3>2. vault = Torn \/ m_hdSeed = None
      BY <3>1 DEF UnlockedIsStored
    <3> QED
      BY <3>1, <3>2 DEF StatusIsTold, StatusNow, Exists
  <2>3. CASE Restart
    BY <2>3 DEF Restart, StatusIsTold
  <2>4. CASE UNCHANGED vars
    BY <2>4 DEF vars, StatusIsTold, StatusNow, Exists
  <2> QED
    BY <2>1, <2>2, <2>3, <2>4 DEF Next, Create, Import, SaveRoot, Stored, Unlock, Forget, Lock
<1> QED
  BY <1>1, <1>2, SeedIsStored, PTL DEF Spec

-----------------------------------------------------------------------------
\* A root is never written over (hdCreate, hdImport).
THEOREM RootIsKept == Spec => RootKept
<1> DEFINE Kept == Exists /\ vault' # vault => vault' = None /\ m_hdSeed' = None
<1>1. [Next]_vars => [Kept]_vars
  BY DEF Next, Create, Import, SaveRoot, Unlock, Forget, Lock, Restart, vars
<1> QED
  BY <1>1, PTL DEF Spec, RootKept
================================================================================
