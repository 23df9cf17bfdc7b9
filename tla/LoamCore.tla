------------------------------- MODULE LoamCore -------------------------------
(***************************************************************************)
(* The loam_core facade (core/src/loam_core_impl.cpp) over its delivery    *)
(* bearer: the calls apps make, the status apps wait on, and the metrics   *)
(* poll with its stall detection and its peerless watchdog.                *)
(*                                                                         *)
(* Everything runs on the module's thread, so each call, each reply and    *)
(* each timer callback is one step; they interleave in any order.          *)
(*                                                                         *)
(* Clocks are ages in ticks, one tick being the 3 s of the metrics timer,  *)
(* and stop counting where the code stops telling values apart.  Metrics   *)
(* calls carry their generation, and any unanswered one may be answered at *)
(* any time; a call still unanswered when its number comes round again is  *)
(* taken never to be answered.  loam_core always subscribes to             *)
(* nodeStarted: what is said of the facade is said of EventOutcome.        *)
(***************************************************************************)
EXTENDS DeliveryBearer, Integers

CONSTANTS Configs,      \* the bearer flags apps pass to start()
          Switches,     \* what apps call setBearerEnabled with
          CallTimeout,  \* an unanswered metrics call is a failure (20 s)
          StallAfter,   \* no good answer for so long is a stall (30 s)
          StreakMax,    \* peerless answers before a restart (10)
          Cooldown,     \* least time between restarts (45 s)
          Generations   \* numbers of metrics calls (2^32 in the code)

ASSUME ConfigAssumption ==
  Configs \subseteq SUBSET {"delivery", "mesh"} /\ Switches \subseteq BOOLEAN
ASSUME TimesAssumption ==
  /\ {CallTimeout, StallAfter, StreakMax, Cooldown} \subseteq Nat \ {0}
  /\ Generations \in Nat \ {0}
  /\ Cooldown < RestartWindow

VARIABLES
  m_built, m_started, m_status,
  hasDelivery, hasMesh,      \* m_delivery, m_mesh are set
  meshReady,                 \* the mesh bearer's m_started
  deliveryOff,               \* the delivery bearer is not enabled
  notCreated                 \* history: createNode failed in the latest bring-up

VARIABLES
  pollDue,                   \* the metrics timer has fired
  m_metricsInFlight, m_metricsGen,
  outstanding,               \* the generations of the calls not answered yet
  okKnown, okAge,            \* m_lastMetricsOkMs: set, and how long ago
  sentAge,                   \* since m_metricsSentMs; CallTimeout with none in flight
  m_stalled,
  m_everConnected, m_zeroPeerStreak,
  cooldownAge,               \* since m_lastReconnectMs
  peers                      \* overallPeers: the last count reported, -1 none

VARIABLES
  wanted,                    \* history: the topics apps joined
  passedOver                 \* history: the ones only ever joined while deliveryOff

joinVars == <<deliveryOff, wanted, passedOver>>
statusVars == <<m_built, m_started, m_status, hasDelivery, hasMesh, meshReady, notCreated>>
callStateVars == <<m_metricsInFlight, m_metricsGen, outstanding, okKnown, okAge, sentAge>>
watchVars == <<m_everConnected, m_zeroPeerStreak, cooldownAge, peers>>
pollVars == <<pollDue, callStateVars, m_stalled, watchVars, joinVars>>
vars == <<bearerVars, statusVars, pollVars>>

Statuses == {"Ready", "Connecting...", "Connected", "Stopped", "Delivery error",
             "Transport stalled"}

\* onContextReady has run.
Init ==
  /\ BearerInit
  /\ m_built = FALSE /\ m_started = FALSE /\ m_status = "Ready"
  /\ hasDelivery = FALSE /\ hasMesh = FALSE /\ meshReady = FALSE
  /\ notCreated = FALSE
  /\ pollDue = FALSE
  /\ m_metricsInFlight = FALSE /\ m_metricsGen = 0 /\ outstanding = {}
  /\ okKnown = FALSE /\ okAge = StallAfter /\ sentAge = CallTimeout
  /\ m_stalled = FALSE
  /\ m_everConnected = FALSE /\ m_zeroPeerStreak = 0
  /\ cooldownAge = Cooldown + 1
  /\ peers = -1
  /\ deliveryOff = FALSE /\ wanted = {} /\ passedOver = {}

Older(age, limit) == IF age < limit THEN age + 1 ELSE age

-----------------------------------------------------------------------------
\* ensureBearers: the first caller's flags stay.
EnsureBearers(cfg) ==
  /\ m_built' = TRUE
  /\ hasDelivery' = IF m_built THEN hasDelivery ELSE "delivery" \in cfg
  /\ hasMesh' = IF m_built THEN hasMesh ELSE "mesh" \in cfg

DefaultCfg == {"delivery"}

\* Fault: a bearer that exists is taken for one that is up.
BearersBuilt == hasDelivery \/ hasMesh

BearersUp ==
  (hasDelivery /\ m_nodeReady) \/ (~hasDelivery /\ hasMesh /\ meshReady)

\* start() while started: re-announce the state to the late caller.
AppStartAgain ==
  /\ m_started
  /\ m_status' = IF ~m_stalled /\ BearersUp THEN "Connected" ELSE m_status
  /\ UNCHANGED <<m_built, m_started, hasDelivery, hasMesh, meshReady, notCreated,
                 bearerVars, pollVars>>

AppStart(cfg) ==
  /\ ~m_started
  /\ EnsureBearers(cfg)
  /\ m_started' = TRUE
  /\ meshReady' = hasMesh'
  /\ m_status' = IF ~hasDelivery' /\ hasMesh' THEN "Connected" ELSE "Connecting..."
  /\ IF hasDelivery' /\ CanStart
     THEN Start /\ notCreated' = FALSE
     ELSE UNCHANGED <<bearerVars, notCreated>>
  /\ UNCHANGED pollVars

\* stop(): the bearers keep running.
AppStop ==
  /\ m_started' = FALSE
  /\ m_status' = "Stopped"
  /\ UNCHANGED <<m_built, hasDelivery, hasMesh, meshReady, notCreated, bearerVars,
                 pollVars>>

\* Fault: only a bearer that is ready is told.
JoinReady(t) == IF hasDelivery' /\ m_nodeReady THEN Join(t) ELSE UNCHANGED bearerVars

\* joinAll: the bearers that are enabled are told; a mesh joins no topics.
JoinAll(t) ==
  IF hasDelivery' /\ ~deliveryOff THEN Join(t) ELSE UNCHANGED bearerVars

\* join(): builds the bearers with the default flags if start() has not.
AppJoin(t) ==
  /\ EnsureBearers(DefaultCfg)
  /\ JoinAll(t)
  /\ wanted' = wanted \cup {t}
  /\ passedOver' = IF deliveryOff THEN passedOver \cup ({t} \ wanted) ELSE passedOver \ {t}
  /\ UNCHANGED <<m_started, m_status, meshReady, notCreated, deliveryOff, pollDue, callStateVars,
                 m_stalled, watchVars>>

\* sendSealed() of any topic, through the bearers that are enabled; the meshes keep
\* nothing.
AppSend(t) ==
  /\ hasDelivery /\ ~deliveryOff
  /\ Send(t)
  /\ UNCHANGED <<statusVars, pollVars>>

\* setBearerEnabled("delivery", ...): an unknown bearer before the bearers are built.
AppSetEnabled(on) ==
  /\ hasDelivery
  /\ deliveryOff' = ~on
  /\ UNCHANGED <<bearerVars, statusVars, pollDue, callStateVars, m_stalled, watchVars,
                 wanted, passedOver>>

AppSetTopicMode(p, relay) ==
  SetTopicMode(p, relay) /\ UNCHANGED <<statusVars, pollVars>>

-----------------------------------------------------------------------------
\* What onReady and onError make of the bearer's news.
Announce(s) ==
  /\ m_status' = s
  /\ UNCHANGED <<m_built, m_started, hasDelivery, hasMesh, meshReady, notCreated>>

\* createNode failed: nobody is told.
NotCreated ==
  /\ CreateFailed
  /\ notCreated' = TRUE
  /\ UNCHANGED <<m_built, m_started, m_status, hasDelivery, hasMesh, meshReady, pollVars>>

Unannounced ==
  /\ \/ CreateDone \/ BringupAccepted \/ StopReplied
     \/ RestartRefused \/ RestartAccepted \/ ReportLost
     \/ (~m_awaitStart /\ (NodeUp \/ NodeDown))
  /\ UNCHANGED <<statusVars, pollVars>>

NodeIsUp ==
  /\ m_awaitStart
  /\ NodeUp
  /\ Announce("Connected")
  /\ UNCHANGED pollVars

NodeIsDown ==
  /\ m_awaitStart
  /\ NodeDown
  /\ Announce("Delivery error")
  /\ UNCHANGED pollVars

\* Fault: apps are not told.
StartRefusedSilently ==
  /\ BringupRefused
  /\ UNCHANGED <<statusVars, pollVars>>

StartRefused ==
  /\ BringupRefused
  /\ Announce("Delivery error")
  /\ UNCHANGED pollVars

-----------------------------------------------------------------------------
\* checkStall, with the time since the last good answer.
CheckStall(age) ==
  IF age >= StallAfter /\ ~m_stalled
  THEN m_stalled' = TRUE /\ Announce("Transport stalled")
  ELSE UNCHANGED <<m_stalled, statusVars>>

\* refreshMetrics does nothing without a delivery bearer that is ready.
PollIdle ==
  /\ pollDue
  /\ ~(m_built /\ hasDelivery /\ m_nodeReady)
  /\ pollDue' = FALSE
  /\ UNCHANGED <<bearerVars, statusVars, callStateVars, m_stalled, watchVars, joinVars>>

\* Fault: every poll restarts the clock.
KnownAgeReset == 0

\* The age the stall check sees: the first poll starts the clock.
KnownAge == IF okKnown THEN okAge ELSE 0

\* Fault: polls without asking whether the node is up.
PollingBlindly ==
  /\ pollDue /\ m_built /\ hasDelivery
  /\ pollDue' = FALSE
  /\ okKnown' = TRUE
  /\ okAge' = KnownAge
  /\ UNCHANGED <<bearerVars, watchVars, joinVars>>

Polling ==
  /\ pollDue /\ m_built /\ hasDelivery /\ m_nodeReady
  /\ pollDue' = FALSE
  /\ okKnown' = TRUE
  /\ okAge' = KnownAge
  /\ UNCHANGED <<bearerVars, watchVars, joinVars>>

\* A call younger than CallTimeout is waited for.
PollWait ==
  /\ Polling
  /\ m_metricsInFlight /\ sentAge < CallTimeout
  /\ CheckStall(KnownAge)
  /\ UNCHANGED <<m_metricsInFlight, m_metricsGen, outstanding, sentAge>>

\* No call in flight, or one given up: ask again.
PollSend ==
  /\ Polling
  /\ ~(m_metricsInFlight /\ sentAge < CallTimeout)
  /\ IF m_metricsInFlight THEN CheckStall(KnownAge)
                          ELSE UNCHANGED <<m_stalled, statusVars>>
  /\ m_metricsInFlight' = TRUE
  /\ m_metricsGen' = (m_metricsGen + 1) % Generations
  /\ outstanding' = outstanding \cup {m_metricsGen'}
  /\ sentAge' = 0

\* The answer to the latest call.
Answered ==
  /\ m_metricsGen \in outstanding
  /\ outstanding' = outstanding \ {m_metricsGen}
  /\ m_metricsInFlight' = FALSE
  /\ sentAge' = CallTimeout
  /\ UNCHANGED <<pollDue, m_metricsGen, okKnown, joinVars>>

AnswerFailed ==
  /\ Answered
  /\ CheckStall(okAge)
  /\ UNCHANGED <<bearerVars, okAge, watchVars>>

\* Fault: the stall is announced over, and kept.
NoteOkKeepsStall ==
  /\ okAge' = 0
  /\ UNCHANGED m_stalled
  /\ IF m_stalled THEN Announce("Connected") ELSE UNCHANGED statusVars

\* noteMetricsOk: whatever was stalled is not any more.
NoteOk ==
  /\ okAge' = 0
  /\ m_stalled' = FALSE
  /\ IF m_stalled THEN Announce("Connected") ELSE UNCHANGED statusVars

NewStreak == IF m_zeroPeerStreak < StreakMax THEN m_zeroPeerStreak + 1 ELSE StreakMax

RestartDue == m_everConnected /\ NewStreak >= StreakMax /\ cooldownAge > Cooldown

AnswerPeers ==
  /\ Answered
  /\ NoteOk
  /\ peers' = 1
  /\ m_everConnected' = TRUE
  /\ m_zeroPeerStreak' = 0
  /\ UNCHANGED <<bearerVars, cooldownAge>>

\* An answer without a peer count.
AnswerUnknown ==
  /\ Answered
  /\ NoteOk
  /\ UNCHANGED <<bearerVars, watchVars>>

\* Fault: a peerless answer is not counted.
AnswerPeerlessUncounted ==
  /\ Answered
  /\ NoteOk
  /\ ~RestartDue
  /\ peers' = 0
  /\ UNCHANGED <<bearerVars, m_zeroPeerStreak, m_everConnected, cooldownAge>>

AnswerPeerless ==
  /\ Answered
  /\ NoteOk
  /\ ~RestartDue
  /\ peers' = 0
  /\ m_zeroPeerStreak' = IF m_everConnected THEN NewStreak ELSE m_zeroPeerStreak
  /\ UNCHANGED <<bearerVars, m_everConnected, cooldownAge>>

\* Fault: the time of the restart is not noted.
AnswerRestartUnnoted ==
  /\ Answered
  /\ NoteOk
  /\ RestartDue
  /\ peers' = 0
  /\ m_zeroPeerStreak' = 0
  /\ IF CanReconnect THEN Reconnect ELSE UNCHANGED bearerVars
  /\ UNCHANGED <<cooldownAge, m_everConnected>>

\* The watchdog: peerless for StreakMax answers, out of the cooldown.
AnswerRestart ==
  /\ Answered
  /\ NoteOk
  /\ RestartDue
  /\ peers' = 0
  /\ m_zeroPeerStreak' = 0
  /\ cooldownAge' = 0
  /\ IF CanReconnect THEN Reconnect ELSE UNCHANGED bearerVars
  /\ UNCHANGED m_everConnected

\* Fault: the generation of the answer is not compared.
LateAnswerCounts(gen) ==
  /\ gen \in outstanding \ {m_metricsGen}
  /\ outstanding' = outstanding \ {gen}
  /\ m_metricsInFlight' = FALSE
  /\ NoteOk
  /\ UNCHANGED <<bearerVars, pollDue, m_metricsGen, okKnown, sentAge, watchVars, joinVars>>

\* The answer to an older call, which its generation gives away.
LateAnswer(gen) ==
  /\ gen \in outstanding
  /\ gen # m_metricsGen
  /\ outstanding' = outstanding \ {gen}
  /\ UNCHANGED <<bearerVars, statusVars, pollDue, m_metricsInFlight, m_metricsGen,
                 okKnown, okAge, sentAge, m_stalled, watchVars, joinVars>>

Tick ==
  /\ BearerTick
  /\ pollDue' = TRUE
  /\ okAge' = Older(okAge, StallAfter)
  /\ sentAge' = Older(sentAge, CallTimeout)
  /\ cooldownAge' = Older(cooldownAge, Cooldown + 1)
  /\ UNCHANGED <<statusVars, m_metricsInFlight, m_metricsGen, outstanding, okKnown, m_stalled,
                 m_everConnected, m_zeroPeerStreak, peers, joinVars>>

-----------------------------------------------------------------------------
App ==
  \/ AppStartAgain \/ AppStop
  \/ \E cfg \in Configs : AppStart(cfg)
  \/ \E t \in Topics : AppJoin(t) \/ AppSend(t)
  \/ \E on \in Switches : AppSetEnabled(on)
  \/ \E p \in Prefixes, relay \in BOOLEAN : AppSetTopicMode(p, relay)

Poll == PollIdle \/ PollWait \/ PollSend

GoodAnswer == AnswerPeers \/ AnswerPeerless \/ AnswerRestart

Answer ==
  \/ GoodAnswer \/ AnswerUnknown \/ AnswerFailed
  \/ \E gen \in outstanding : LateAnswer(gen)

Node == NotCreated \/ Unannounced \/ NodeIsUp \/ NodeIsDown \/ StartRefused

Next == App \/ Poll \/ Answer \/ Node \/ Tick

Spec == Init /\ [][Next]_vars

\* Timers keep firing and the event loop gets to them.
TimersRun == WF_vars(Tick) /\ WF_vars(Poll)

TimerSpec == Spec /\ TimersRun

\* Every call to delivery_module is eventually answered, one way or the other.
CallsAnswered == WF_vars(Node)

\* The node answers metrics calls, with a peer count, again and again.
MetricsFlow == SF_vars(GoodAnswer)
FairSpec == TimerSpec /\ CallsAnswered /\ MetricsFlow

-----------------------------------------------------------------------------
StatusTypes ==
  /\ m_built \in BOOLEAN /\ m_started \in BOOLEAN
  /\ m_status \in Statuses
  /\ hasDelivery \in BOOLEAN /\ hasMesh \in BOOLEAN /\ meshReady \in BOOLEAN
  /\ notCreated \in BOOLEAN
  /\ deliveryOff \in BOOLEAN /\ wanted \subseteq Topics /\ passedOver \subseteq wanted

PollTypes ==
  /\ pollDue \in BOOLEAN /\ m_metricsInFlight \in BOOLEAN
  /\ m_metricsGen \in 0..(Generations - 1) /\ outstanding \subseteq 0..(Generations - 1)
  /\ okKnown \in BOOLEAN /\ m_stalled \in BOOLEAN /\ m_everConnected \in BOOLEAN
  /\ okAge \in 0..StallAfter
  /\ sentAge \in 0..CallTimeout
  /\ m_zeroPeerStreak \in 0..StreakMax
  /\ cooldownAge \in 0..(Cooldown + 1)
  /\ peers \in {-1, 0, 1}

CoreTypeOK == TypeOK /\ StatusTypes /\ PollTypes

\* A call to the node that is not answered is not joined by another one before
\* CallTimeout is over, whatever answers come meanwhile to calls given up before:
\* a wedged node is not asked again at every poll.
OneCallAtATime ==
  [][(m_metricsGen' # m_metricsGen /\ m_metricsGen \in outstanding)
       => sentAge >= CallTimeout]_vars

\* Metrics are asked only of a node that is up, and a stall is only ever the
\* stall of such a node: no restart begins with a call or a stall pending.
PollsReadyNode == (m_metricsInFlight \/ m_stalled) => m_nodeReady

\* The bearer is never in a bring-up and a restart at once, and a ready one is in
\* neither: the watchdog cannot restart a node that start() is bringing up.
BringUpExclusive ==
  /\ m_reconnecting => ~m_starting
  /\ m_nodeReady => (~m_starting /\ ~m_reconnecting)

\* That, and every part of the facade's state well typed.
CoreInv == CoreTypeOK /\ BringUpExclusive

\* An app that reads "Connecting..." on a delivery node that has never been up waits
\* for a bring-up that is under way: every other outcome is announced, but for
\* createNode failing, which nobody is told of.
ConnectingIsBusy ==
  (m_status = "Connecting..." /\ hasDelivery /\ ~m_everReady) => (m_starting \/ notCreated)

\* An app that reads "Connected" has a transport that came up.
ConnectedIsEarned ==
  (m_status = "Connected") => (m_everReady \/ (~hasDelivery /\ meshReady))

\* Every topic an app joined has been asked of the node while it is ready, whatever
\* bring-ups, restarts and other apps came since, unless a restart failed, or the
\* delivery bearer was disabled each time the topic was joined.
AppTopicsJoined ==
  (hasDelivery /\ m_nodeReady /\ ~restartFailed) => (wanted \ passedOver) \subseteq nodeTopics

\* Restarts of the node are spaced: the watchdog starts none within the cooldown
\* of the one before.
RestartsSpaced == [][stopping' > stopping => reconnectAge > Cooldown]_vars

Peerless == m_nodeReady /\ m_everConnected /\ peers = 0

\* The watchdog does its work: a node that once had peers, and that goes on
\* answering, does not stay up and peerless for good.
NeverPeerlessForever ==
  (CallsAnswered /\ MetricsFlow) => (Peerless ~> ~Peerless)

Good == GoodAnswer \/ AnswerUnknown

\* A stall is told to apps: polled for ever, a node that stays up and stops giving
\* good answers is announced as stalled, whether it refuses or never answers.
StallNoticed == []<>m_stalled \/ []<>~m_nodeReady \/ []<><<Good>>_vars

\* A stall ends when the node answers again.
StallHeals == MetricsFlow => (m_stalled ~> ~m_stalled)

Overdue == m_reconnecting /\ reconnectAge = RestartWindow

\* "A restart in flight blocks a new one for 60 s, so one that never reports
\* back doesn't block recovery for good."
RestartNotStuck == Overdue ~> ~Overdue

==============================================================================
