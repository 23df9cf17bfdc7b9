---------------------------- MODULE DeliveryBearer ----------------------------
(***************************************************************************)
(* The life cycle of the delivery bearer (core/src/delivery_bearer.hpp):   *)
(* bring-up (createNode, start, nodeStarted), restart (reconnect: stop,    *)
(* start, nodeStarted), and the topics it joins on the node.               *)
(*                                                                         *)
(* Everything the bearer asks of delivery_module is an asynchronous call.  *)
(* Outstanding calls are counted per reply handler; the module may answer  *)
(* them in any order, refuse them, or (MayLose) never report.  A refused   *)
(* start may still run: the caller only gave up waiting for it.            *)
(*                                                                         *)
(* m_pendingTopics is a set here: the code's vector may hold a topic more  *)
(* than once and joins it as often, which the node does not notice.        *)
(***************************************************************************)
EXTENDS Naturals

CONSTANTS Topics,        \* content topics
          Prefixes,      \* what setTopicMode may be called with
          TopicsOf,      \* the topics a prefix matches
          UseChannels,   \* Config.useChannels
          EventOutcome,  \* Ops.onNodeStarted is set (delivery >= 0.3.0)
          RestartWindow, \* how long a restart blocks another one, in ticks
          MaxCalls,      \* bound: calls of one kind outstanding at once
          MayLose        \* a started node may never report

ASSUME PrefixAssumption == TopicsOf \in [Prefixes -> SUBSET Topics]
ASSUME FlagAssumption ==
  UseChannels \in BOOLEAN /\ EventOutcome \in BOOLEAN /\ MayLose \in BOOLEAN
ASSUME WindowAssumption == RestartWindow \in Nat \ {0}
ASSUME CallsAssumption == MaxCalls \in Nat \ {0}

VARIABLES
  m_nodeReady, m_starting, m_reconnecting, m_everReady, m_awaitStart,
  m_pendingTopics, m_allTopics,
  m_relayPrefixes,   \* the facade's, read through Config.relayOnly
  reconnectAge,      \* ticks since m_reconnectAtMs, up to RestartWindow
  handlers           \* when the receive handlers were registered: "early"
                     \* (before createNode), "listening" (node up)

VARIABLES
  creating, stopping,          \* createNode and stop calls without a reply
  bringupStarts, restartStarts,\* start calls of start() and of reconnect()
  booting,                     \* starts the module has not reported on
  nodeTopics, nodeChannels     \* what the node is asked to subscribe to

VARIABLES
  restartFailed,   \* history: a restart ended without a running node
  modeFlipped,     \* history: the mode of a joined topic was changed
  misrouted        \* history: sends in a mode the node does not have for the
                   \* topic, as "joined" or "stranger" to this bearer

lifeVars == <<m_nodeReady, m_starting, m_reconnecting, m_everReady, m_awaitStart>>
topicVars == <<m_pendingTopics, m_allTopics, nodeTopics, nodeChannels>>
callVars == <<creating, stopping, bringupStarts, restartStarts, booting>>
sendVars == <<m_relayPrefixes, modeFlipped, misrouted>>
bearerVars == <<lifeVars, topicVars, callVars, sendVars,
                reconnectAge, handlers, restartFailed>>

BearerInit ==
  /\ m_nodeReady = FALSE /\ m_starting = FALSE /\ m_reconnecting = FALSE
  /\ m_everReady = FALSE /\ m_awaitStart = FALSE
  /\ m_pendingTopics = {} /\ m_allTopics = {}
  /\ nodeTopics = {} /\ nodeChannels = {}
  /\ m_relayPrefixes = {} /\ modeFlipped = FALSE /\ misrouted = {}
  /\ creating = 0 /\ stopping = 0 /\ booting = 0
  /\ bringupStarts = 0 /\ restartStarts = 0
  /\ reconnectAge = RestartWindow
  /\ handlers = {}
  /\ restartFailed = FALSE

-----------------------------------------------------------------------------
RelayOnly(t) == \E p \in m_relayPrefixes : t \in TopicsOf[p]

Channels(t) == UseChannels /\ ~RelayOnly(t)

\* Fault: no channel is created.
DoJoinPlain(ts) ==
  /\ nodeTopics' = nodeTopics \cup ts
  /\ UNCHANGED nodeChannels

\* doJoin of every topic of ts: subscribe, and a channel where the mode says so.
\* Both are asynchronous calls whose replies are ignored: nodeTopics and
\* nodeChannels are what the running node has been asked for.
DoJoin(ts) ==
  /\ nodeTopics' = nodeTopics \cup ts
  /\ nodeChannels' = nodeChannels \cup {t \in ts : Channels(t)}

\* Fault: the handlers are not registered again once the node listens.
BecomeReadyDeaf ==
  /\ m_nodeReady' = TRUE
  /\ m_starting' = FALSE
  /\ m_everReady' = TRUE
  /\ DoJoin(m_pendingTopics)
  /\ m_pendingTopics' = {}
  /\ UNCHANGED <<m_reconnecting, m_allTopics, handlers>>

\* The end of a bring-up.  Only the pending topics are joined.
BecomeReady ==
  /\ m_nodeReady' = TRUE
  /\ m_starting' = FALSE
  /\ m_everReady' = TRUE
  /\ handlers' = handlers \cup {"listening"}
  /\ DoJoin(m_pendingTopics)
  /\ m_pendingTopics' = {}
  /\ UNCHANGED <<m_reconnecting, m_allTopics>>

\* Fault: a restart joins what was put off, like a bring-up.
FinishRestartPending ==
  /\ m_reconnecting' = FALSE
  /\ m_nodeReady' = TRUE
  /\ DoJoin(m_pendingTopics)
  /\ UNCHANGED <<m_starting, m_everReady, handlers, m_pendingTopics, m_allTopics>>

\* The end of a restart.  Every topic ever joined is joined again.
FinishRestart ==
  /\ m_reconnecting' = FALSE
  /\ m_nodeReady' = TRUE
  /\ DoJoin(m_allTopics)
  /\ UNCHANGED <<m_starting, m_everReady, handlers, m_pendingTopics, m_allTopics>>

\* A start is dispatched: with events, the module will report on the node.
Dispatch ==
  IF EventOutcome THEN booting < MaxCalls /\ booting' = booting + 1
                  ELSE UNCHANGED booting

\* A refused start was turned down, or the caller only gave up waiting for it.
Refused ==
  \/ UNCHANGED booting
  \/ booting > 0 /\ booting' = booting - 1

-----------------------------------------------------------------------------
\* Fault: a restart in flight does not stop a bring-up.
CanStartAnyway == ~m_nodeReady /\ ~m_starting

CanStart == ~m_nodeReady /\ ~m_starting /\ ~m_reconnecting

\* start(): register the handlers, then createNode.
Start ==
  /\ CanStart
  /\ creating < MaxCalls
  /\ m_starting' = TRUE
  /\ handlers' = handlers \cup {"early"}
  /\ creating' = creating + 1
  /\ UNCHANGED <<m_nodeReady, m_reconnecting, m_everReady, m_awaitStart, topicVars,
                 stopping, bringupStarts, restartStarts, booting, sendVars,
                 reconnectAge, restartFailed>>

\* createNode failed: the bring-up is over, and nobody is told.
CreateFailed ==
  /\ creating > 0
  /\ creating' = creating - 1
  /\ m_starting' = FALSE
  /\ UNCHANGED <<m_nodeReady, m_reconnecting, m_everReady, m_awaitStart, topicVars,
                 stopping, bringupStarts, restartStarts, booting, sendVars,
                 reconnectAge, handlers, restartFailed>>

\* createNode worked: ask the node to start.  m_awaitStart is set before the
\* call, as the event may come before the reply.
CreateDone ==
  /\ creating > 0
  /\ bringupStarts < MaxCalls
  /\ creating' = creating - 1
  /\ m_awaitStart' = EventOutcome
  /\ bringupStarts' = bringupStarts + 1
  /\ Dispatch
  /\ UNCHANGED <<m_nodeReady, m_starting, m_reconnecting, m_everReady, topicVars,
                 stopping, restartStarts, sendVars, reconnectAge, handlers,
                 restartFailed>>

BringupRefused ==
  /\ bringupStarts > 0
  /\ bringupStarts' = bringupStarts - 1
  /\ Refused
  /\ m_awaitStart' = FALSE
  /\ m_starting' = FALSE
  /\ UNCHANGED <<m_nodeReady, m_reconnecting, m_everReady, topicVars, creating,
                 stopping, restartStarts, sendVars, reconnectAge,
                 handlers, restartFailed>>

BringupAccepted ==
  /\ bringupStarts > 0
  /\ bringupStarts' = bringupStarts - 1
  /\ \/ /\ EventOutcome
        /\ UNCHANGED <<lifeVars, topicVars, handlers>>
     \/ /\ ~EventOutcome
        /\ BecomeReady
        /\ UNCHANGED m_awaitStart
  /\ UNCHANGED <<creating, stopping, restartStarts, booting, sendVars,
                 reconnectAge, restartFailed>>

\* The module reports a start that worked.
NodeUp ==
  /\ EventOutcome
  /\ booting > 0
  /\ booting' = booting - 1
  /\ \/ /\ ~m_awaitStart
        /\ UNCHANGED <<lifeVars, topicVars, handlers>>
     \/ /\ m_awaitStart
        /\ m_awaitStart' = FALSE
        /\ IF m_reconnecting THEN FinishRestart ELSE BecomeReady
  /\ UNCHANGED <<creating, stopping, bringupStarts, restartStarts, sendVars,
                 reconnectAge, restartFailed>>

\* The module reports a start that failed.
NodeDown ==
  /\ EventOutcome
  /\ booting > 0
  /\ booting' = booting - 1
  /\ \/ /\ ~m_awaitStart
        /\ UNCHANGED <<lifeVars, restartFailed>>
     \/ /\ m_awaitStart
        /\ m_awaitStart' = FALSE
        /\ m_starting' = FALSE
        /\ m_reconnecting' = FALSE
        /\ restartFailed' = (restartFailed \/ m_reconnecting)
        /\ UNCHANGED <<m_nodeReady, m_everReady>>
  /\ UNCHANGED <<topicVars, creating, stopping, bringupStarts, restartStarts,
                 sendVars, reconnectAge, handlers>>

\* The module never reports on a start.
ReportLost ==
  /\ MayLose
  /\ booting > 0
  /\ booting' = booting - 1
  /\ UNCHANGED <<lifeVars, topicVars, creating, stopping, bringupStarts,
                 restartStarts, sendVars, reconnectAge, handlers, restartFailed>>

\* join(): remembered for restarts, and put off while the node is not ready.
Join(t) ==
  /\ m_allTopics' = m_allTopics \cup {t}
  /\ \/ /\ ~m_nodeReady
        /\ m_pendingTopics' = m_pendingTopics \cup {t}
        /\ UNCHANGED <<nodeTopics, nodeChannels>>
     \/ /\ m_nodeReady
        /\ DoJoin({t})
        /\ UNCHANGED m_pendingTopics
  /\ UNCHANGED <<lifeVars, callVars, sendVars, reconnectAge, handlers, restartFailed>>

CanReconnect ==
  m_everReady /\ ~(m_reconnecting /\ reconnectAge < RestartWindow)

\* reconnect(): the node is told to stop, and loses what it was subscribed to.
Reconnect ==
  /\ CanReconnect
  /\ stopping < MaxCalls
  /\ m_reconnecting' = TRUE
  /\ reconnectAge' = 0
  /\ m_nodeReady' = FALSE
  /\ stopping' = stopping + 1
  /\ nodeTopics' = {}
  /\ nodeChannels' = {}
  /\ UNCHANGED <<m_starting, m_everReady, m_awaitStart, m_pendingTopics, m_allTopics,
                 creating, bringupStarts, restartStarts, booting, sendVars,
                 handlers, restartFailed>>

\* The reply to stop, whatever it says, is followed by start.
StopReplied ==
  /\ stopping > 0
  /\ restartStarts < MaxCalls
  /\ stopping' = stopping - 1
  /\ m_awaitStart' = EventOutcome
  /\ restartStarts' = restartStarts + 1
  /\ Dispatch
  /\ UNCHANGED <<m_nodeReady, m_starting, m_reconnecting, m_everReady, topicVars,
                 creating, bringupStarts, sendVars, reconnectAge, handlers,
                 restartFailed>>

\* A refused restart keeps waiting for the event, if there will be one.
RestartRefused ==
  /\ restartStarts > 0
  /\ restartStarts' = restartStarts - 1
  /\ Refused
  /\ \/ /\ EventOutcome
        /\ UNCHANGED <<lifeVars, restartFailed>>
     \/ /\ ~EventOutcome
        /\ m_awaitStart' = FALSE
        /\ m_reconnecting' = FALSE
        /\ restartFailed' = TRUE
        /\ UNCHANGED <<m_nodeReady, m_starting, m_everReady>>
  /\ UNCHANGED <<topicVars, creating, stopping, bringupStarts, sendVars,
                 reconnectAge, handlers>>

RestartAccepted ==
  /\ restartStarts > 0
  /\ restartStarts' = restartStarts - 1
  /\ \/ /\ EventOutcome
        /\ UNCHANGED <<lifeVars, topicVars, handlers>>
     \/ /\ ~EventOutcome
        /\ m_awaitStart' = FALSE
        /\ FinishRestart
  /\ UNCHANGED <<creating, stopping, bringupStarts, booting, sendVars,
                 reconnectAge, restartFailed>>

\* setTopicMode(): read at the next doJoin and at every send.
SetTopicMode(p, relay) ==
  /\ m_relayPrefixes' = IF relay THEN m_relayPrefixes \cup {p}
                                 ELSE m_relayPrefixes \ {p}
  /\ modeFlipped' = (modeFlipped \/ \E t \in m_allTopics : Channels(t) # Channels(t)')
  /\ UNCHANGED <<lifeVars, topicVars, callVars, misrouted, reconnectAge, handlers,
                 restartFailed>>

\* send() on any topic, joined or not.  Not ready: dropped.
Send(t) ==
  /\ m_nodeReady
  /\ misrouted' = IF t \in nodeTopics /\ (Channels(t) <=> t \in nodeChannels)
                  THEN misrouted
                  ELSE misrouted \cup {IF t \in m_allTopics THEN "joined" ELSE "stranger"}
  /\ UNCHANGED <<lifeVars, topicVars, callVars, m_relayPrefixes, modeFlipped,
                 reconnectAge, handlers, restartFailed>>

\* Time passes for the restart window.
AgeRestart ==
  reconnectAge' = IF reconnectAge < RestartWindow THEN reconnectAge + 1
                                                  ELSE reconnectAge

BearerTick ==
  /\ AgeRestart
  /\ UNCHANGED <<lifeVars, topicVars, callVars, sendVars, handlers, restartFailed>>

Reply ==
  \/ CreateFailed \/ CreateDone
  \/ BringupRefused \/ BringupAccepted
  \/ StopReplied \/ RestartRefused \/ RestartAccepted

Report == NodeUp \/ NodeDown \/ ReportLost

Call ==
  \/ Start \/ Reconnect
  \/ \E t \in Topics : Join(t) \/ Send(t)
  \/ \E p \in Prefixes, relay \in BOOLEAN : SetTopicMode(p, relay)

BearerNext == Call \/ Reply \/ Report \/ BearerTick

BearerSpec == BearerInit /\ [][BearerNext]_bearerVars

-----------------------------------------------------------------------------
Counts == 0..MaxCalls

FlagTypes ==
  /\ m_nodeReady \in BOOLEAN /\ m_starting \in BOOLEAN
  /\ m_reconnecting \in BOOLEAN /\ m_everReady \in BOOLEAN
  /\ m_awaitStart \in BOOLEAN
  /\ restartFailed \in BOOLEAN /\ modeFlipped \in BOOLEAN

TopicTypes ==
  /\ m_pendingTopics \subseteq Topics /\ m_allTopics \subseteq Topics
  /\ nodeTopics \subseteq Topics /\ nodeChannels \subseteq Topics
  /\ misrouted \subseteq {"joined", "stranger"}
  /\ m_relayPrefixes \subseteq Prefixes
  /\ handlers \subseteq {"early", "listening"}

CountTypes ==
  /\ creating \in Counts /\ stopping \in Counts /\ booting \in Counts
  /\ bringupStarts \in Counts /\ restartStarts \in Counts
  /\ reconnectAge \in 0..RestartWindow

TypeOK == FlagTypes /\ TopicTypes /\ CountTypes

\* A bearer that says it is ready is not in the middle of a restart: send() and
\* join() never talk to a node that has been told to stop.
ReadyNotReconnecting == m_nodeReady => ~m_reconnecting

\* A ready bearer has its receive handlers registered with a module that is
\* listening, and createNode is never called before the early registration.
ReceivesWhenReady ==
  /\ m_nodeReady => "listening" \in handlers
  /\ creating > 0 => "early" \in handlers

\* Unless a restart has failed, a ready node has been asked to subscribe to every
\* topic ever joined on the bearer, whenever the joins came: before bring-up,
\* during a restart, or in between.
JoinedUnlessRestartFailed ==
  (m_nodeReady /\ ~restartFailed) => m_allTopics \subseteq nodeTopics

\* On a topic joined on the bearer, a frame is sent in a mode the node does not
\* have only after a failed restart or a change of mode on a joined topic.  A
\* topic never joined on it, such as one joined while the bearer was disabled, is
\* sent on all the same, on a channel nobody created.
RoutedUnlessFlipped == "joined" \in misrouted => (restartFailed \/ modeFlipped)
==============================================================================
