--------------------------------- MODULE HdRoot ---------------------------------
(***************************************************************************)
(* The HD root (core/src/loam_core_impl.cpp, hdCreate to hdSign): a phrase, *)
(* kept encrypted under a password in hd-root.json, and its seed, kept in  *)
(* memory while unlocked.  Every operation holds the facade's mutex, so    *)
(* each is one step; the process may stop between any two.                 *)
(*                                                                         *)
(* The file is written next to its place and renamed over it.  A write     *)
(* that cannot be opened or renamed is reported.  One that the disk cuts   *)
(* short when the stream is closed is not: the test of the stream comes    *)
(* before its buffer is written, and the torn file is renamed.             *)
(***************************************************************************)
EXTENDS Naturals

CONSTANTS Phrases,     \* recovery phrases, generated or imported
          Passwords,   \* passwords long enough to be accepted
          Short,       \* a password that is too short
          None,        \* no file, no seed
          Torn,        \* a file that does not parse
          MaxFaults    \* bound: disk operations that fail

ASSUME NameAssumption == /\ None \notin Phrases /\ Short \notin Passwords
                         /\ None # Torn
ASSUME VaultAssumption ==
  {None, Torn} \cap [phrase : Phrases, password : Passwords] = {}
ASSUME FaultAssumption == MaxFaults \in Nat

VARIABLES vault,      \* hd-root.json: None, Torn, or a phrase and its password
          m_hdSeed,   \* the phrase whose seed is in memory, or None
          told,       \* the status of the last hdStatusChanged, or None
          known,      \* history: phrases given to or by the user
          faults      \* disk operations that failed

vars == <<vault, m_hdSeed, told, known, faults>>

\* readJsonFile gives null for no file and for one that does not parse.
Exists == vault \notin {None, Torn}

Sealed(phrase, password) == [phrase |-> phrase, password |-> password]

\* hdStatusJson, of the state after the operation.
StatusNow == [exists |-> Exists, unlocked |-> m_hdSeed # None]
Announce == told' = StatusNow'

Fault == faults < MaxFaults /\ faults' = faults + 1

-------------------------------------------------------------------------------

Init ==
  /\ vault \in {None} \cup [phrase : Phrases, password : Passwords]
  /\ m_hdSeed = None /\ told = None
  /\ known = (IF Exists THEN {vault.phrase} ELSE {})
  /\ faults = 0

\* Fault: the seed outlives the write that failed.
NotStoredKept(phrase, password) == Fault /\ m_hdSeed' = phrase /\ UNCHANGED <<vault, told, known>>

\* writeJsonFile fails where it notices: the seed just made is dropped.
NotStored(phrase, password) ==
  /\ Fault /\ m_hdSeed' = None
  /\ UNCHANGED <<vault, told, known>>

Stored(phrase, password) ==
  /\ \/ vault' = Sealed(phrase, password) /\ UNCHANGED faults
     \/ vault' = Torn /\ Fault
  /\ m_hdSeed' = phrase
  /\ known' = known \cup {phrase}
  /\ Announce

\* Fault: a root that exists is not looked for.
SaveRootOver(phrase, password) ==
  password # Short /\ (Stored(phrase, password) \/ NotStored(phrase, password))

\* hdCreate (a fresh phrase) and hdImport (one the user has).
SaveRoot(phrase, password) ==
  /\ ~Exists /\ password # Short
  /\ Stored(phrase, password) \/ NotStored(phrase, password)

Create(phrase, password) == phrase \notin known /\ SaveRoot(phrase, password)

Import(phrase, password) == SaveRoot(phrase, password)

\* openMnemonic: the MAC fits the password the vault was sealed with.
Opens(password) == Exists /\ vault.password = password

Unlock(password) ==
  /\ Opens(password)
  /\ m_hdSeed' = vault.phrase
  /\ UNCHANGED <<vault, known, faults>>
  /\ Announce

\* Fault: apps are not told.
LockQuietly ==
  m_hdSeed' = None /\ UNCHANGED <<vault, told, known, faults>>

Lock ==
  /\ m_hdSeed' = None
  /\ UNCHANGED <<vault, known, faults>>
  /\ Announce

\* The file may stay: nobody looks whether it was removed.
Forget(password) ==
  /\ Opens(password)
  /\ (vault' = None /\ UNCHANGED faults) \/ (Fault /\ UNCHANGED vault)
  /\ m_hdSeed' = None
  /\ UNCHANGED known
  /\ Announce

Restart ==
  /\ m_hdSeed' = None /\ told' = None
  /\ UNCHANGED <<vault, known, faults>>

Next ==
  \/ \E phrase \in Phrases, password \in Passwords \cup {Short} :
       Create(phrase, password) \/ Import(phrase, password)
  \/ \E password \in Passwords \cup {Short} : Unlock(password) \/ Forget(password)
  \/ Lock \/ Restart

Spec == Init /\ [][Next]_vars

-------------------------------------------------------------------------------

\* A vault that parses is a phrase the user was given, under a password long
\* enough; a seed in memory is of such a phrase (hdSaveRoot, sealMnemonic).
TypeOK ==
  /\ vault \in {None, Torn} \cup [phrase : known, password : Passwords]
  /\ m_hdSeed \in {None} \cup known /\ known \subseteq Phrases
  /\ told \in {None} \cup [exists : BOOLEAN, unlocked : BOOLEAN]
  /\ faults \in 0..MaxFaults

\* What signs is what is stored: a seed in memory is the seed of the phrase in
\* the vault, so after a restart the same identities come back -- unless the
\* write of the vault was cut short unnoticed (hdSaveRoot, hdUnlock, hdForget).
UnlockedIsStored == m_hdSeed # None => vault = Torn \/ (Exists /\ vault.phrase = m_hdSeed)

\* Apps know: the last hdStatusChanged of this session still says whether there
\* is a root and whether it is unlocked, with the same exception.
StatusIsTold == told # None => vault = Torn \/ told = StatusNow

\* A root is never written over: a vault that parses only ever goes away, and
\* its seed with it (the test of hdCreate and hdImport, hdForget).
RootKept == [][Exists /\ vault' # vault => vault' = None /\ m_hdSeed' = None]_vars
================================================================================
