---------------------------- MODULE LoamCore_proofs ----------------------------
(***************************************************************************)
(* Proofs about the facade and its delivery bearer.  First the bearer, for *)
(* every set of topics, every bound on outstanding calls, with and without *)
(* nodeStarted events.  Then the facade, for all time limits and all calls *)
(* of apps: its steps are steps of the bearer, so the theorems about the   *)
(* bearer carry over, and what the facade adds is proved.                  *)
(***************************************************************************)
EXTENDS LoamCore, TLAPS

USE PrefixAssumption, FlagAssumption, WindowAssumption, CallsAssumption

-----------------------------------------------------------------------------
\* What the flags may be together.  Once the node has been up, only a restart in
\* progress or a failed one leaves the bearer down; so a bring-up in progress
\* is the first, or follows a failed restart.
Flags ==
  /\ m_nodeReady => m_everReady
  /\ m_reconnecting => m_everReady
  /\ m_everReady /\ ~m_nodeReady /\ ~m_reconnecting => restartFailed
  /\ m_starting /\ ~restartFailed => ~m_everReady

\* The calls of a restart are made by a bearer that has been up.
RestartCalls == (stopping > 0 \/ restartStarts > 0) => m_everReady

\* Without events there is one bring-up call at a time, while m_starting.
OneBringup ==
  ~EventOutcome => /\ creating + bringupStarts <= 1
                   /\ creating + bringupStarts = 1 => m_starting

\* A topic that is neither on the node nor pending is waiting for a restart.
TopicsAccounted ==
  /\ m_pendingTopics \subseteq m_allTopics
  /\ nodeTopics \subseteq m_allTopics
  /\ nodeChannels \subseteq nodeTopics
  /\ ~restartFailed /\ ~m_reconnecting
       => m_allTopics \subseteq nodeTopics \cup m_pendingTopics

\* Until a joined topic's mode is changed, the node has a channel exactly for
\* the subscribed topics in channel mode.
ChannelsAgree ==
  ~modeFlipped => \A t \in nodeTopics : Channels(t) <=> t \in nodeChannels

IInv == /\ TypeOK /\ Flags /\ RestartCalls /\ (EventOutcome => ReadyNotReconnecting) 
        /\ OneBringup /\ TopicsAccounted /\ ChannelsAgree
        /\ JoinedUnlessRestartFailed /\ RoutedUnlessFlipped

\* Every step keeps the flags Boolean, the topics topics and the counts in bounds.
LEMMA FlagTypesStep ==
  ASSUME FlagTypes, [BearerNext]_bearerVars
  PROVE  FlagTypes'
<1> USE DEF FlagTypes
<1>1. CASE Start
  BY <1>1 DEF Start, CanStart, lifeVars, sendVars
<1>2. CASE CreateFailed
  BY <1>2 DEF CreateFailed, lifeVars, sendVars
<1>3. CASE CreateDone
  BY <1>3 DEF CreateDone, Dispatch, lifeVars, sendVars
<1>4. CASE BringupRefused
  BY <1>4 DEF BringupRefused, Refused, lifeVars, sendVars
<1>5. CASE BringupAccepted
  BY <1>5 DEF BringupAccepted, BecomeReady, DoJoin, lifeVars, sendVars
<1>6. CASE NodeUp
  BY <1>6 DEF NodeUp, BecomeReady, FinishRestart, DoJoin, lifeVars, sendVars
<1>7. CASE NodeDown
  BY <1>7 DEF NodeDown, lifeVars, sendVars
<1>8. CASE Reconnect
  BY <1>8 DEF Reconnect, CanReconnect, lifeVars, sendVars
<1>9. CASE StopReplied
  BY <1>9 DEF StopReplied, Dispatch, lifeVars, sendVars
<1>10. CASE RestartRefused
  BY <1>10 DEF RestartRefused, Refused, lifeVars, sendVars
<1>11. CASE RestartAccepted
  BY <1>11 DEF RestartAccepted, FinishRestart, DoJoin, lifeVars, sendVars
<1>12. ASSUME NEW p \in Prefixes, NEW relay \in BOOLEAN, SetTopicMode(p, relay)
     PROVE  FlagTypes'
  BY <1>12 DEF SetTopicMode, lifeVars, sendVars
<1>13. CASE \/ ReportLost
            \/ \E t \in Topics : Join(t)
            \/ \E t \in Topics : Send(t)
            \/ BearerTick
            \/ UNCHANGED bearerVars
  BY <1>13 DEF ReportLost, Join, DoJoin, Send, BearerTick, AgeRestart,
              bearerVars, lifeVars, topicVars, callVars, sendVars
<1> QED
  BY <1>1, <1>2, <1>3, <1>4, <1>5, <1>6, <1>7, <1>8, <1>9, <1>10, <1>11, <1>12, <1>13 DEF BearerNext, Call, Reply, Report

LEMMA TopicTypesStep ==
  ASSUME TopicTypes, [BearerNext]_bearerVars
  PROVE  TopicTypes'
<1> USE DEF TopicTypes
<1>1. CASE Start
  BY <1>1 DEF Start, CanStart, topicVars, sendVars
<1>2. CASE BringupAccepted
  BY <1>2 DEF BringupAccepted, BecomeReady, DoJoin, topicVars, sendVars
<1>3. CASE NodeUp
  BY <1>3 DEF NodeUp, BecomeReady, FinishRestart, DoJoin, topicVars, sendVars
<1>4. ASSUME NEW t \in Topics, Join(t)
     PROVE  TopicTypes'
  BY <1>4 DEF Join, DoJoin, topicVars, sendVars
<1>5. CASE Reconnect
  BY <1>5 DEF Reconnect, CanReconnect, topicVars, sendVars
<1>6. CASE RestartAccepted
  BY <1>6 DEF RestartAccepted, FinishRestart, DoJoin, topicVars, sendVars
<1>7. ASSUME NEW p \in Prefixes, NEW relay \in BOOLEAN, SetTopicMode(p, relay)
     PROVE  TopicTypes'
  BY <1>7 DEF SetTopicMode, topicVars, sendVars
<1>8. ASSUME NEW t \in Topics, Send(t)
     PROVE  TopicTypes'
  BY <1>8 DEF Send, topicVars, sendVars
<1>9. CASE \/ CreateFailed
           \/ CreateDone
           \/ BringupRefused
           \/ NodeDown
           \/ ReportLost
           \/ StopReplied
           \/ RestartRefused
           \/ BearerTick
           \/ UNCHANGED bearerVars
  BY <1>9 DEF CreateFailed, CreateDone, Dispatch, BringupRefused, Refused,
              NodeDown, ReportLost, StopReplied, RestartRefused, BearerTick,
              AgeRestart, bearerVars, lifeVars, topicVars, callVars, sendVars
<1> QED
  BY <1>1, <1>2, <1>3, <1>4, <1>5, <1>6, <1>7, <1>8, <1>9 DEF BearerNext, Call, Reply, Report

LEMMA CountTypesStep ==
  ASSUME CountTypes, [BearerNext]_bearerVars
  PROVE  CountTypes'
<1> USE DEF CountTypes, Counts
<1>1. CASE Start
  BY <1>1 DEF Start, CanStart, callVars
<1>2. CASE CreateFailed
  BY <1>2 DEF CreateFailed, callVars
<1>3. CASE CreateDone
  BY <1>3 DEF CreateDone, Dispatch, callVars
<1>4. CASE BringupRefused
  BY <1>4 DEF BringupRefused, Refused, callVars
<1>5. CASE BringupAccepted
  BY <1>5 DEF BringupAccepted, BecomeReady, DoJoin, callVars
<1>6. CASE NodeUp
  BY <1>6 DEF NodeUp, BecomeReady, FinishRestart, DoJoin, callVars
<1>7. CASE NodeDown
  BY <1>7 DEF NodeDown, callVars
<1>8. CASE ReportLost
  BY <1>8 DEF ReportLost, callVars
<1>9. CASE Reconnect
  BY <1>9 DEF Reconnect, CanReconnect, callVars
<1>10. CASE StopReplied
  BY <1>10 DEF StopReplied, Dispatch, callVars
<1>11. CASE RestartRefused
  BY <1>11 DEF RestartRefused, Refused, callVars
<1>12. CASE RestartAccepted
  BY <1>12 DEF RestartAccepted, FinishRestart, DoJoin, callVars
<1>13. CASE BearerTick
  BY <1>13 DEF BearerTick, AgeRestart, callVars
<1>14. CASE \/ \E t \in Topics : Join(t)
            \/ \E p \in Prefixes, relay \in BOOLEAN : SetTopicMode(p, relay)
            \/ \E t \in Topics : Send(t)
            \/ UNCHANGED bearerVars
  BY <1>14 DEF Join, DoJoin, SetTopicMode, Send, bearerVars, lifeVars,
              topicVars, callVars, sendVars
<1> QED
  BY <1>1, <1>2, <1>3, <1>4, <1>5, <1>6, <1>7, <1>8, <1>9, <1>10, <1>11, <1>12, <1>13, <1>14 DEF BearerNext, Call, Reply, Report

\* Every step keeps the flags consistent.
LEMMA FlagsStep ==
  ASSUME FlagTypes, RestartCalls, Flags, [BearerNext]_bearerVars
  PROVE  Flags'
<1> USE DEF FlagTypes, Flags
<1>1. CASE Start
  BY <1>1 DEF Start, CanStart, lifeVars, topicVars, callVars, sendVars
<1>2. CASE CreateFailed
  BY <1>2 DEF CreateFailed, lifeVars, topicVars, callVars, sendVars
<1>3. CASE CreateDone
  BY <1>3 DEF CreateDone, Dispatch, lifeVars, topicVars, callVars, sendVars
<1>4. CASE BringupRefused
  BY <1>4 DEF BringupRefused, Refused, lifeVars, topicVars, callVars, sendVars
<1>5. CASE BringupAccepted
  BY <1>5 DEF BringupAccepted, BecomeReady, DoJoin, lifeVars, topicVars, callVars, sendVars
<1>6. CASE NodeUp
  BY <1>6 DEF NodeUp, BecomeReady, FinishRestart, DoJoin, lifeVars, topicVars, callVars, sendVars
<1>7. CASE NodeDown
  BY <1>7 DEF NodeDown, lifeVars, topicVars, callVars, sendVars
<1>8. CASE Reconnect
  BY <1>8 DEF Reconnect, CanReconnect, lifeVars, topicVars, callVars, sendVars
<1>9. CASE StopReplied
  BY <1>9 DEF StopReplied, Dispatch, lifeVars, topicVars, callVars, sendVars
<1>10. CASE RestartRefused
  <2>1. CASE EventOutcome
    BY <1>10, <2>1 DEF RestartRefused, lifeVars
  <2>2. CASE ~EventOutcome
    BY <1>10, <2>2 DEF RestartRefused
  <2> QED
    BY <2>1, <2>2
<1>11. CASE RestartAccepted
  <2>1. m_everReady
    BY <1>11 DEF RestartAccepted, RestartCalls
  <2>2. CASE EventOutcome
    BY <1>11, <2>2 DEF RestartAccepted, lifeVars
  <2>3. CASE ~EventOutcome
    <3>1. /\ m_nodeReady' = TRUE /\ m_reconnecting' = FALSE
          /\ m_everReady' = m_everReady /\ m_starting' = m_starting
          /\ restartFailed' = restartFailed
      BY <1>11, <2>3 DEF RestartAccepted, FinishRestart
    <3> QED
      BY <2>1, <3>1
  <2> QED
    BY <2>2, <2>3
<1>12. CASE \/ ReportLost
            \/ \E t \in Topics : Join(t)
            \/ \E p \in Prefixes, relay \in BOOLEAN : SetTopicMode(p, relay)
            \/ \E t \in Topics : Send(t)
            \/ BearerTick
            \/ UNCHANGED bearerVars
  BY <1>12 DEF ReportLost, Join, DoJoin, SetTopicMode, Send, BearerTick,
              AgeRestart, bearerVars, lifeVars, topicVars, callVars, sendVars
<1> QED
  BY <1>1, <1>2, <1>3, <1>4, <1>5, <1>6, <1>7, <1>8, <1>9, <1>10, <1>11, <1>12 DEF BearerNext, Call, Reply, Report

\* Every step of a restart follows a bring-up.
LEMMA RestartCallsStep ==
  ASSUME FlagTypes, CountTypes, Flags, RestartCalls, [BearerNext]_bearerVars
  PROVE  RestartCalls'
<1> USE DEF FlagTypes, CountTypes, Counts, Flags, RestartCalls
<1>1. CASE BringupAccepted
  BY <1>1 DEF BringupAccepted, BecomeReady, DoJoin, lifeVars, topicVars, callVars, sendVars
<1>2. CASE NodeUp
  BY <1>2 DEF NodeUp, BecomeReady, FinishRestart, DoJoin, lifeVars, topicVars, callVars, sendVars
<1>3. CASE NodeDown
  BY <1>3 DEF NodeDown, lifeVars, topicVars, callVars, sendVars
<1>4. CASE Reconnect
  BY <1>4 DEF Reconnect, CanReconnect, lifeVars, topicVars, callVars, sendVars
<1>5. CASE StopReplied
  BY <1>5 DEF StopReplied, Dispatch, lifeVars, topicVars, callVars, sendVars
<1>6. CASE RestartRefused
  <2>1. m_everReady
    BY <1>6 DEF RestartRefused
  <2>2. m_everReady' = m_everReady
    BY <1>6 DEF RestartRefused, lifeVars
  <2> QED
    BY <2>1, <2>2
<1>7. CASE RestartAccepted
  <2>1. m_everReady
    BY <1>7 DEF RestartAccepted
  <2>2. m_everReady' = m_everReady
    BY <1>7 DEF RestartAccepted, FinishRestart, lifeVars
  <2> QED
    BY <2>1, <2>2
<1>8. CASE \/ Start
           \/ CreateFailed
           \/ CreateDone
           \/ BringupRefused
           \/ ReportLost
           \/ \E t \in Topics : Join(t)
           \/ \E p \in Prefixes, relay \in BOOLEAN : SetTopicMode(p, relay)
           \/ \E t \in Topics : Send(t)
           \/ BearerTick
           \/ UNCHANGED bearerVars
  BY <1>8 DEF Start, CanStart, CreateFailed, CreateDone, Dispatch,
              BringupRefused, Refused, ReportLost, Join, DoJoin, SetTopicMode,
              Send, BearerTick, AgeRestart, bearerVars, lifeVars, topicVars,
              callVars, sendVars
<1> QED
  BY <1>1, <1>2, <1>3, <1>4, <1>5, <1>6, <1>7, <1>8 DEF BearerNext, Call, Reply, Report

\* A ready bearer is not restarting, when the outcome comes as an event.
LEMMA ReadyStep ==
  ASSUME FlagTypes, EventOutcome, ReadyNotReconnecting, [BearerNext]_bearerVars
  PROVE  ReadyNotReconnecting'
<1> USE DEF FlagTypes, ReadyNotReconnecting
<1>1. CASE BringupAccepted
  BY <1>1 DEF BringupAccepted, BecomeReady, DoJoin, lifeVars, topicVars, callVars, sendVars
<1>2. CASE NodeUp
  BY <1>2 DEF NodeUp, BecomeReady, FinishRestart, DoJoin, lifeVars, topicVars, callVars, sendVars
<1>3. CASE NodeDown
  BY <1>3 DEF NodeDown, lifeVars, topicVars, callVars, sendVars
<1>4. CASE Reconnect
  BY <1>4 DEF Reconnect, CanReconnect, lifeVars, topicVars, callVars, sendVars
<1>5. CASE RestartRefused
  BY <1>5 DEF RestartRefused, Refused, lifeVars, topicVars, callVars, sendVars
<1>6. CASE RestartAccepted
  BY <1>6 DEF RestartAccepted, FinishRestart, DoJoin, lifeVars, topicVars, callVars, sendVars
<1>7. CASE \/ Start
           \/ CreateFailed
           \/ CreateDone
           \/ BringupRefused
           \/ ReportLost
           \/ \E t \in Topics : Join(t)
           \/ StopReplied
           \/ \E p \in Prefixes, relay \in BOOLEAN : SetTopicMode(p, relay)
           \/ \E t \in Topics : Send(t)
           \/ BearerTick
           \/ UNCHANGED bearerVars
  BY <1>7 DEF Start, CanStart, CreateFailed, CreateDone, Dispatch,
              BringupRefused, Refused, ReportLost, Join, DoJoin, StopReplied,
              SetTopicMode, Send, BearerTick, AgeRestart, bearerVars,
              lifeVars, topicVars, callVars, sendVars
<1> QED
  BY <1>1, <1>2, <1>3, <1>4, <1>5, <1>6, <1>7 DEF BearerNext, Call, Reply, Report

\* Without events, bring-ups do not overlap.
LEMMA OneBringupStep ==
  ASSUME FlagTypes, CountTypes, OneBringup, [BearerNext]_bearerVars
  PROVE  OneBringup'
<1> USE DEF FlagTypes, CountTypes, Counts, OneBringup
<1>1. CASE Start
  BY <1>1 DEF Start, CanStart, lifeVars, topicVars, callVars, sendVars
<1>2. CASE CreateFailed
  BY <1>2 DEF CreateFailed, lifeVars, topicVars, callVars, sendVars
<1>3. CASE CreateDone
  BY <1>3 DEF CreateDone, Dispatch, lifeVars, topicVars, callVars, sendVars
<1>4. CASE BringupRefused
  BY <1>4 DEF BringupRefused, Refused, lifeVars, topicVars, callVars, sendVars
<1>5. CASE BringupAccepted
  BY <1>5 DEF BringupAccepted, BecomeReady, DoJoin, lifeVars, topicVars, callVars, sendVars
<1>6. CASE NodeUp
  BY <1>6 DEF NodeUp, BecomeReady, FinishRestart, DoJoin, lifeVars, topicVars, callVars, sendVars
<1>7. CASE NodeDown
  BY <1>7 DEF NodeDown, lifeVars, topicVars, callVars, sendVars
<1>8. CASE RestartRefused
  BY <1>8 DEF RestartRefused, Refused, lifeVars, topicVars, callVars, sendVars
<1>9. CASE RestartAccepted
  BY <1>9 DEF RestartAccepted, FinishRestart, DoJoin, lifeVars, topicVars, callVars, sendVars
<1>10. CASE \/ ReportLost
            \/ \E t \in Topics : Join(t)
            \/ Reconnect
            \/ StopReplied
            \/ \E p \in Prefixes, relay \in BOOLEAN : SetTopicMode(p, relay)
            \/ \E t \in Topics : Send(t)
            \/ BearerTick
            \/ UNCHANGED bearerVars
  BY <1>10 DEF ReportLost, Join, DoJoin, Reconnect, CanReconnect, StopReplied,
              Dispatch, SetTopicMode, Send, BearerTick, AgeRestart,
              bearerVars, lifeVars, topicVars, callVars, sendVars
<1> QED
  BY <1>1, <1>2, <1>3, <1>4, <1>5, <1>6, <1>7, <1>8, <1>9, <1>10 DEF BearerNext, Call, Reply, Report

\* No step loses track of a topic.  A bring-up that ends without events follows
\* no completed one unless a restart failed (OneBringup, Flags).
LEMMA TopicsStep ==
  ASSUME FlagTypes, CountTypes, Flags, OneBringup, TopicsAccounted, [BearerNext]_bearerVars
  PROVE  TopicsAccounted'
<1> USE DEF FlagTypes, CountTypes, Counts, Flags, OneBringup, TopicsAccounted
<1>1. CASE Start
  BY <1>1 DEF Start, CanStart, lifeVars, topicVars, callVars, sendVars
<1>2. CASE BringupAccepted
  BY <1>2 DEF BringupAccepted, BecomeReady, DoJoin, lifeVars, topicVars, callVars, sendVars
<1>3. CASE NodeUp
  BY <1>3 DEF NodeUp, BecomeReady, FinishRestart, DoJoin, lifeVars, topicVars, callVars, sendVars
<1>4. CASE NodeDown
  BY <1>4 DEF NodeDown, lifeVars, topicVars, callVars, sendVars
<1>5. ASSUME NEW t \in Topics, Join(t)
     PROVE  TopicsAccounted'
  BY <1>5 DEF Join, DoJoin, lifeVars, topicVars, callVars, sendVars
<1>6. CASE Reconnect
  BY <1>6 DEF Reconnect, CanReconnect, lifeVars, topicVars, callVars, sendVars
<1>7. CASE RestartRefused
  BY <1>7 DEF RestartRefused, Refused, lifeVars, topicVars, callVars, sendVars
<1>8. CASE RestartAccepted
  BY <1>8 DEF RestartAccepted, FinishRestart, DoJoin, lifeVars, topicVars, callVars, sendVars
<1>9. CASE \/ CreateFailed
           \/ CreateDone
           \/ BringupRefused
           \/ ReportLost
           \/ StopReplied
           \/ \E p \in Prefixes, relay \in BOOLEAN : SetTopicMode(p, relay)
           \/ \E t \in Topics : Send(t)
           \/ BearerTick
           \/ UNCHANGED bearerVars
  BY <1>9 DEF CreateFailed, CreateDone, Dispatch, BringupRefused, Refused,
              ReportLost, StopReplied, SetTopicMode, Send, BearerTick,
              AgeRestart, bearerVars, lifeVars, topicVars, callVars, sendVars
<1> QED
  BY <1>1, <1>2, <1>3, <1>4, <1>5, <1>6, <1>7, <1>8, <1>9 DEF BearerNext, Call, Reply, Report

\* A node that has just come up, or is up, has what was asked of it.
LEMMA JoinedStep ==
  ASSUME FlagTypes, CountTypes, Flags, OneBringup, TopicsAccounted,
         JoinedUnlessRestartFailed, [BearerNext]_bearerVars
  PROVE  JoinedUnlessRestartFailed'
<1> USE DEF FlagTypes, CountTypes, Counts, Flags, OneBringup, TopicsAccounted,
           JoinedUnlessRestartFailed
<1>1. CASE BringupAccepted
  <2>1. CASE EventOutcome
    BY <1>1, <2>1 DEF BringupAccepted, lifeVars, topicVars
  <2>2. CASE ~EventOutcome
    <3>1. m_starting
      BY <1>1, <2>2 DEF BringupAccepted
    <3>2. restartFailed \/ ~m_reconnecting
      BY <3>1
    <3>3. m_allTopics' = m_allTopics /\ nodeTopics' = nodeTopics \cup m_pendingTopics
          /\ restartFailed' = restartFailed
      BY <1>1, <2>2 DEF BringupAccepted, BecomeReady, DoJoin
    <3> QED
      BY <3>2, <3>3
  <2> QED
    BY <2>1, <2>2
<1>2. CASE NodeUp
  BY <1>2 DEF NodeUp, BecomeReady, FinishRestart, DoJoin, lifeVars, topicVars, callVars, sendVars
<1>3. CASE NodeDown
  <2>1. m_nodeReady' = m_nodeReady /\ m_allTopics' = m_allTopics
        /\ nodeTopics' = nodeTopics
    BY <1>3 DEF NodeDown, lifeVars, topicVars
  <2>2. ~restartFailed' => ~restartFailed
    BY <1>3 DEF NodeDown
  <2> QED
    BY <2>1, <2>2
<1>4. ASSUME NEW t \in Topics, Join(t)
     PROVE  JoinedUnlessRestartFailed'
  BY <1>4 DEF Join, DoJoin, lifeVars, topicVars, callVars, sendVars
<1>5. CASE Reconnect
  BY <1>5 DEF Reconnect, CanReconnect, lifeVars, topicVars, callVars, sendVars
<1>6. CASE RestartRefused
  <2>1. m_nodeReady' = m_nodeReady /\ m_allTopics' = m_allTopics
        /\ nodeTopics' = nodeTopics
    BY <1>6 DEF RestartRefused, lifeVars, topicVars
  <2>2. ~restartFailed' => ~restartFailed
    BY <1>6 DEF RestartRefused
  <2> QED
    BY <2>1, <2>2
<1>7. CASE RestartAccepted
  BY <1>7 DEF RestartAccepted, FinishRestart, DoJoin, lifeVars, topicVars, callVars, sendVars
<1>8. CASE \/ Start
           \/ CreateFailed
           \/ CreateDone
           \/ BringupRefused
           \/ ReportLost
           \/ StopReplied
           \/ \E p \in Prefixes, relay \in BOOLEAN : SetTopicMode(p, relay)
           \/ \E t \in Topics : Send(t)
           \/ BearerTick
           \/ UNCHANGED bearerVars
  BY <1>8 DEF Start, CanStart, CreateFailed, CreateDone, Dispatch,
              BringupRefused, Refused, ReportLost, StopReplied, SetTopicMode,
              Send, BearerTick, AgeRestart, bearerVars, lifeVars, topicVars,
              callVars, sendVars
<1> QED
  BY <1>1, <1>2, <1>3, <1>4, <1>5, <1>6, <1>7, <1>8 DEF BearerNext, Call, Reply, Report

\* The node's channels follow the modes until a joined topic's mode is changed.
LEMMA ChannelsStep ==
  ASSUME TopicTypes, TopicsAccounted, ChannelsAgree, [BearerNext]_bearerVars
  PROVE  ChannelsAgree'
<1> USE DEF TopicTypes, TopicsAccounted, ChannelsAgree, Channels, RelayOnly
<1>1. CASE BringupAccepted
  BY <1>1 DEF BringupAccepted, BecomeReady, DoJoin, lifeVars, topicVars, callVars, sendVars
<1>2. CASE NodeUp
  BY <1>2 DEF NodeUp, BecomeReady, FinishRestart, DoJoin, lifeVars, topicVars, callVars, sendVars
<1>3. ASSUME NEW t \in Topics, Join(t)
     PROVE  ChannelsAgree'
  BY <1>3 DEF Join, DoJoin, lifeVars, topicVars, callVars, sendVars
<1>4. CASE Reconnect
  BY <1>4 DEF Reconnect, CanReconnect, lifeVars, topicVars, callVars, sendVars
<1>5. CASE RestartAccepted
  BY <1>5 DEF RestartAccepted, FinishRestart, DoJoin, lifeVars, topicVars, callVars, sendVars
<1>6. ASSUME NEW p \in Prefixes, NEW relay \in BOOLEAN, SetTopicMode(p, relay)
     PROVE  ChannelsAgree'
  BY <1>6 DEF SetTopicMode, lifeVars, topicVars, callVars, sendVars
<1>7. CASE \/ Start
           \/ CreateFailed
           \/ CreateDone
           \/ BringupRefused
           \/ NodeDown
           \/ ReportLost
           \/ StopReplied
           \/ RestartRefused
           \/ \E t \in Topics : Send(t)
           \/ BearerTick
           \/ UNCHANGED bearerVars
  BY <1>7 DEF Start, CanStart, CreateFailed, CreateDone, Dispatch,
              BringupRefused, Refused, NodeDown, ReportLost, StopReplied,
              RestartRefused, Send, BearerTick, AgeRestart, bearerVars,
              lifeVars, topicVars, callVars, sendVars
<1> QED
  BY <1>1, <1>2, <1>3, <1>4, <1>5, <1>6, <1>7 DEF BearerNext, Call, Reply, Report

\* A send on a joined topic is misrouted only after a failed restart or a change
\* of mode.
LEMMA RoutedStep ==
  ASSUME FlagTypes, TopicsAccounted, ChannelsAgree,
         JoinedUnlessRestartFailed, RoutedUnlessFlipped, [BearerNext]_bearerVars
  PROVE  RoutedUnlessFlipped'
<1> USE DEF FlagTypes, RoutedUnlessFlipped
<1>1. CASE NodeDown
  BY <1>1 DEF NodeDown, lifeVars, topicVars, callVars, sendVars
<1>2. CASE RestartRefused
  BY <1>2 DEF RestartRefused, Refused, lifeVars, topicVars, callVars, sendVars
<1>3. ASSUME NEW p \in Prefixes, NEW relay \in BOOLEAN, SetTopicMode(p, relay)
     PROVE  RoutedUnlessFlipped'
  BY <1>3 DEF SetTopicMode, lifeVars, topicVars, callVars, sendVars
<1>4. ASSUME NEW t \in Topics, Send(t)
     PROVE  RoutedUnlessFlipped'
  <2>1. restartFailed' = restartFailed /\ modeFlipped' = modeFlipped
    BY <1>4 DEF Send
  <2>2. CASE restartFailed \/ modeFlipped
    BY <2>1, <2>2
  <2>3. CASE ~restartFailed /\ ~modeFlipped
    <3>1. t \in m_allTopics => t \in nodeTopics
      BY <1>4, <2>3 DEF Send, JoinedUnlessRestartFailed
    <3>2. t \in m_allTopics => (Channels(t) <=> t \in nodeChannels)
      BY <2>3, <3>1 DEF ChannelsAgree
    <3>3. "joined" \in misrouted' => "joined" \in misrouted
      BY <1>4, <3>1, <3>2 DEF Send
    <3> QED
      BY <2>1, <3>3
  <2> QED
    BY <2>2, <2>3
<1>5. CASE \/ Start
           \/ CreateFailed
           \/ CreateDone
           \/ BringupRefused
           \/ BringupAccepted
           \/ NodeUp
           \/ ReportLost
           \/ \E t \in Topics : Join(t)
           \/ Reconnect
           \/ StopReplied
           \/ RestartAccepted
           \/ BearerTick
           \/ UNCHANGED bearerVars
  BY <1>5 DEF Start, CanStart, CreateFailed, CreateDone, Dispatch,
              BringupRefused, Refused, BringupAccepted, BecomeReady, DoJoin,
              NodeUp, FinishRestart, ReportLost, Join, Reconnect,
              CanReconnect, StopReplied, RestartAccepted, BearerTick,
              AgeRestart, bearerVars, lifeVars, topicVars, callVars, sendVars
<1> QED
  BY <1>1, <1>2, <1>3, <1>4, <1>5 DEF BearerNext, Call, Reply, Report

-----------------------------------------------------------------------------
LEMMA InitInvariant == BearerInit => IInv
<1> SUFFICES ASSUME BearerInit PROVE IInv
  OBVIOUS
<1> USE DEF BearerInit
<1>1. FlagTypes
  BY DEF FlagTypes
<1>2. TopicTypes
  BY DEF TopicTypes
<1>3. CountTypes
  BY DEF CountTypes, Counts
<1>4. Flags /\ RestartCalls /\ ReadyNotReconnecting
  BY DEF Flags, RestartCalls, ReadyNotReconnecting
<1>5. OneBringup
  BY DEF OneBringup
<1>6. TopicsAccounted /\ ChannelsAgree
  BY DEF TopicsAccounted, ChannelsAgree
<1>7. JoinedUnlessRestartFailed /\ RoutedUnlessFlipped
  BY DEF JoinedUnlessRestartFailed, RoutedUnlessFlipped
<1> QED
  BY <1>1, <1>2, <1>3, <1>4, <1>5, <1>6, <1>7 DEF IInv, TypeOK

\* The inductive invariant is kept by every step.
LEMMA StepInvariant == IInv /\ [BearerNext]_bearerVars => IInv'
<1> SUFFICES ASSUME IInv, [BearerNext]_bearerVars PROVE IInv'
  OBVIOUS
<1> USE DEF IInv, TypeOK
<1>1. TypeOK'
  BY FlagTypesStep, TopicTypesStep, CountTypesStep
<1>2. Flags' /\ RestartCalls'
  BY FlagsStep, RestartCallsStep
<1>3. EventOutcome => ReadyNotReconnecting'
  BY ReadyStep
<1>4. OneBringup' /\ TopicsAccounted' /\ ChannelsAgree'
  BY OneBringupStep, TopicsStep, ChannelsStep
<1>5. JoinedUnlessRestartFailed' /\ RoutedUnlessFlipped'
  BY JoinedStep, RoutedStep
<1> QED
  BY <1>1, <1>2, <1>3, <1>4, <1>5

\* The inductive invariant of the bearer, with and without events.
THEOREM BearerInvariant == BearerSpec => []IInv
BY InitInvariant, StepInvariant, PTL DEF BearerSpec

\* Type correctness of the bearer.
THEOREM BearerTypes == BearerSpec => []TypeOK
BY BearerInvariant, PTL DEF IInv

\* Until a restart fails, a ready node has been asked for every topic ever joined.
THEOREM AllTopicsJoined == BearerSpec => []JoinedUnlessRestartFailed
BY BearerInvariant, PTL DEF IInv

\* Frames on topics joined on the bearer go out in the mode the topic was joined
\* in, until an app changes the mode of a joined topic or a restart fails.
THEOREM RoutedAsJoined == BearerSpec => []RoutedUnlessFlipped
BY BearerInvariant, PTL DEF IInv

\* With delivery 0.3.0 and later, a ready bearer is never mid-restart.
THEOREM ReadyIsSettled == EventOutcome => (BearerSpec => []ReadyNotReconnecting)
<1>1. IInv => (EventOutcome => ReadyNotReconnecting)
  BY DEF IInv
<1>2. BearerSpec => [](EventOutcome => ReadyNotReconnecting)
  BY <1>1, BearerInvariant, PTL
<1> SUFFICES ASSUME EventOutcome PROVE BearerSpec => []ReadyNotReconnecting
  OBVIOUS
<1>3. (EventOutcome => ReadyNotReconnecting) => ReadyNotReconnecting
  OBVIOUS
<1> QED
  BY <1>2, <1>3, PTL
-----------------------------------------------------------------------------
\* Once the node has been up the handlers are with a module that listens, so a
\* restart need not register them again.
Listening ==
  /\ m_everReady => "listening" \in handlers
  /\ creating > 0 => "early" \in handlers

LEMMA ListeningStep ==
  ASSUME IInv, Listening, [BearerNext]_bearerVars
  PROVE  Listening'
<1> USE DEF Listening, lifeVars, callVars
<1>0. creating \in Nat
  BY DEF IInv, TypeOK, CountTypes, Counts
<1>1. CASE Start
  BY <1>1 DEF Start
<1>2. CASE CreateFailed
  BY <1>0, <1>2 DEF CreateFailed
<1>3. CASE CreateDone
  BY <1>0, <1>3 DEF CreateDone
<1>4. CASE BringupRefused
  BY <1>4 DEF BringupRefused
<1>5. CASE BringupAccepted
  BY <1>5 DEF BringupAccepted, BecomeReady
<1>6. CASE NodeUp
  BY <1>6 DEF NodeUp, BecomeReady, FinishRestart
<1>7. CASE NodeDown
  BY <1>7 DEF NodeDown
<1>8. CASE ReportLost
  BY <1>8 DEF ReportLost
<1>9. CASE \E t \in Topics : Join(t) \/ Send(t)
  BY <1>9 DEF Join, Send
<1>10. CASE Reconnect
  BY <1>10 DEF Reconnect
<1>11. CASE StopReplied
  BY <1>11 DEF StopReplied
<1>12. CASE RestartRefused
  BY <1>12 DEF RestartRefused
<1>13. CASE RestartAccepted
  BY <1>13 DEF RestartAccepted, FinishRestart
<1>14. CASE \E p \in Prefixes, relay \in BOOLEAN : SetTopicMode(p, relay)
  BY <1>14 DEF SetTopicMode
<1>15. CASE BearerTick
  BY <1>15 DEF BearerTick
<1>16. CASE UNCHANGED bearerVars
  BY <1>16 DEF bearerVars
<1> QED
  BY <1>1, <1>2, <1>3, <1>4, <1>5, <1>6, <1>7, <1>8, <1>9, <1>10, <1>11, <1>12,
     <1>13, <1>14, <1>15, <1>16 DEF BearerNext, Call, Reply, Report

\* A ready bearer hears its node, after every bring-up and every restart, and the
\* handlers are registered before createNode.
THEOREM ReadyBearerHears == BearerSpec => []ReceivesWhenReady
<1>1. BearerInit => Listening
  BY DEF BearerInit, Listening
<1>2. IInv /\ Listening /\ [BearerNext]_bearerVars => Listening'
  BY ListeningStep
<1>3. IInv /\ Listening => ReceivesWhenReady
  BY DEF IInv, Flags, Listening, ReceivesWhenReady
<1> QED
  BY <1>1, <1>2, <1>3, BearerInvariant, PTL DEF BearerSpec

-----------------------------------------------------------------------------
USE ConfigAssumption, TimesAssumption

\* A step of the facade is a step of the bearer, or leaves the bearer alone.
LEMMA CoreStep == [Next]_vars => [BearerNext]_bearerVars
<1> SUFFICES ASSUME [Next]_vars PROVE [BearerNext]_bearerVars
  OBVIOUS
<1>1. CASE App
  <2>1. CASE AppStartAgain \/ AppStop
    BY <2>1 DEF AppStartAgain, AppStop
  <2>2. ASSUME NEW cfg \in Configs, AppStart(cfg) PROVE [BearerNext]_bearerVars
    BY <2>2 DEF AppStart, BearerNext, Call
  <2>3. ASSUME NEW t \in Topics, AppJoin(t) PROVE [BearerNext]_bearerVars
    BY <2>3 DEF AppJoin, JoinAll, BearerNext, Call
  <2>4. ASSUME NEW t \in Topics, AppSend(t) PROVE [BearerNext]_bearerVars
    BY <2>4 DEF AppSend, BearerNext, Call
  <2>5. ASSUME NEW on \in Switches, AppSetEnabled(on) PROVE [BearerNext]_bearerVars
    BY <2>5 DEF AppSetEnabled
  <2>6. ASSUME NEW p \in Prefixes, NEW relay \in BOOLEAN, AppSetTopicMode(p, relay)
        PROVE  [BearerNext]_bearerVars
    BY <2>6 DEF AppSetTopicMode, BearerNext, Call
  <2> QED
    BY <1>1, <2>1, <2>2, <2>3, <2>4, <2>5, <2>6 DEF App
<1>2. CASE Poll
  BY <1>2 DEF Poll, PollIdle, PollWait, PollSend, Polling
<1>3. CASE Answer
  BY <1>3 DEF Answer, GoodAnswer, AnswerPeers, AnswerPeerless, AnswerRestart,
              AnswerUnknown, AnswerFailed, LateAnswer, BearerNext, Call
<1>4. CASE Node
  BY <1>4 DEF Node, NotCreated, Unannounced, NodeIsUp, NodeIsDown, StartRefused,
              BearerNext, Reply, Report
<1>5. CASE Tick
  BY <1>5 DEF Tick, BearerNext
<1>6. CASE UNCHANGED vars
  BY <1>6 DEF vars
<1> QED
  BY <1>1, <1>2, <1>3, <1>4, <1>5, <1>6 DEF Next

\* The facade drives its delivery bearer as the model of the bearer allows, so what
\* holds of the bearer holds of the facade's.
THEOREM CoreIsBearer == Spec => BearerSpec
<1>1. Init => BearerInit
  BY DEF Init
<1> QED
  BY <1>1, CoreStep, PTL DEF Spec, BearerSpec

\* The inductive invariant of the bearer holds under the facade.
THEOREM CoreBearerInvariant == Spec => []IInv
BY CoreIsBearer, BearerInvariant, PTL

-----------------------------------------------------------------------------
\* The poll: one call is waited for, the latest, of a node that is ready, and
\* such a node is in neither a bring-up nor a restart.
InFlightIsLatest == m_metricsInFlight <=> m_metricsGen \in outstanding

Settled == BringUpExclusive /\ InFlightIsLatest /\ PollsReadyNode

\* The poll keeps the bearer as it is and asks ready nodes only.
LEMMA SettledPoll ==
  ASSUME Settled, Poll
  PROVE  Settled'
<1> USE DEF Settled, BringUpExclusive, InFlightIsLatest, PollsReadyNode
<1>1. CASE PollIdle
  BY <1>1 DEF PollIdle, bearerVars, lifeVars, callStateVars
<1>2. CASE PollWait
  BY <1>2 DEF PollWait, Polling, CheckStall, bearerVars, lifeVars
<1>3. CASE PollSend
  BY <1>3 DEF PollSend, Polling, CheckStall, bearerVars, lifeVars
<1> QED
  BY <1>1, <1>2, <1>3 DEF Poll

\* An answer frees the slot of its call, and only such an answer restarts the node.
LEMMA SettledAnswer ==
  ASSUME Settled, Answer
  PROVE  Settled'
<1> USE DEF Settled, BringUpExclusive, InFlightIsLatest, PollsReadyNode
<1>1. CASE AnswerPeers \/ AnswerUnknown \/ AnswerPeerless
  BY <1>1 DEF AnswerPeers, AnswerUnknown, AnswerPeerless, Answered, NoteOk, bearerVars, lifeVars
<1>2. CASE AnswerFailed
  BY <1>2 DEF AnswerFailed, Answered, CheckStall, bearerVars, lifeVars
<1>3. CASE AnswerRestart
  BY <1>3 DEF AnswerRestart, Answered, NoteOk, Reconnect, bearerVars, lifeVars
<1>4. CASE \E gen \in outstanding : LateAnswer(gen)
  BY <1>4 DEF LateAnswer, bearerVars, lifeVars
<1> QED
  BY <1>1, <1>2, <1>3, <1>4 DEF Answer, GoodAnswer

\* What leaves the poll alone and a ready node ready keeps the poll settled.
LEMMA SettledFrame ==
  ASSUME Settled, UNCHANGED pollVars, BringUpExclusive', m_nodeReady => m_nodeReady'
  PROVE  Settled'
BY DEF Settled, InFlightIsLatest, PollsReadyNode, pollVars, callStateVars

\* News of the node end a bring-up or a restart, or change nothing.
LEMMA SettledNode ==
  ASSUME EventOutcome, Settled, Node
  PROVE  Settled'
<1> USE DEF BringUpExclusive
<1>0. BringUpExclusive
  BY DEF Settled
<1>1. ASSUME CreateFailed PROVE BringUpExclusive' /\ (m_nodeReady => m_nodeReady')
  BY <1>0, <1>1 DEF CreateFailed
<1>2. ASSUME UNCHANGED lifeVars PROVE BringUpExclusive' /\ (m_nodeReady => m_nodeReady')
  BY <1>0, <1>2 DEF lifeVars
<1>3. ASSUME CreateDone \/ StopReplied
      PROVE  BringUpExclusive' /\ (m_nodeReady => m_nodeReady')
  <2>1. CASE CreateDone
    BY <1>0, <2>1 DEF CreateDone
  <2>2. CASE StopReplied
    BY <1>0, <2>2 DEF StopReplied
  <2> QED
    BY <1>3, <2>1, <2>2
<1>4. ASSUME BringupAccepted \/ RestartAccepted \/ RestartRefused \/ ReportLost
      PROVE  UNCHANGED lifeVars
  BY <1>4 DEF BringupAccepted, RestartAccepted, RestartRefused, ReportLost
<1>5. ASSUME ~m_awaitStart, NodeUp \/ NodeDown PROVE UNCHANGED lifeVars
  BY <1>5 DEF NodeUp, NodeDown
<1>6. ASSUME m_awaitStart, NodeUp PROVE BringUpExclusive' /\ (m_nodeReady => m_nodeReady')
  <2>1. CASE m_reconnecting
    BY <1>0, <1>6, <2>1 DEF NodeUp, FinishRestart
  <2>2. CASE ~m_reconnecting
    BY <1>0, <1>6, <2>2 DEF NodeUp, BecomeReady
  <2> QED
    BY <2>1, <2>2
<1>7. ASSUME m_awaitStart, NodeDown PROVE BringUpExclusive' /\ (m_nodeReady => m_nodeReady')
  <2>1. ~m_starting' /\ ~m_reconnecting' /\ m_nodeReady' = m_nodeReady
    BY <1>7 DEF NodeDown
  <2> QED
    BY <2>1
<1>8. ASSUME BringupRefused PROVE BringUpExclusive' /\ (m_nodeReady => m_nodeReady')
  BY <1>0, <1>8 DEF BringupRefused
<1>9. UNCHANGED pollVars
  BY DEF Node, NotCreated, Unannounced, NodeIsUp, NodeIsDown, StartRefused
<1>10. BringUpExclusive' /\ (m_nodeReady => m_nodeReady')
  <2>1. CASE NotCreated
    BY <1>1, <2>1 DEF NotCreated
  <2>2. CASE Unannounced
    BY <1>2, <1>3, <1>4, <1>5, <2>2 DEF Unannounced
  <2>3. CASE NodeIsUp
    BY <1>6, <2>3 DEF NodeIsUp
  <2>4. CASE NodeIsDown
    BY <1>7, <2>4 DEF NodeIsDown
  <2>5. CASE StartRefused
    BY <1>8, <2>5 DEF StartRefused
  <2> QED
    BY <2>1, <2>2, <2>3, <2>4, <2>5 DEF Node
<1> QED
  BY <1>9, <1>10, SettledFrame

\* Apps can start a bearer only while it is settled.
LEMMA SettledApp ==
  ASSUME Settled, App
  PROVE  Settled'
<1> USE DEF Settled, BringUpExclusive, InFlightIsLatest, PollsReadyNode, pollVars, callStateVars
<1>1. CASE AppStartAgain \/ AppStop
  BY <1>1 DEF AppStartAgain, AppStop, bearerVars, lifeVars
<1>2. ASSUME NEW cfg \in Configs, AppStart(cfg) PROVE Settled'
  BY <1>2 DEF AppStart, Start, CanStart, bearerVars, lifeVars
<1>3. ASSUME NEW t \in Topics, AppJoin(t) PROVE Settled'
  BY <1>3 DEF AppJoin, JoinAll, Join, bearerVars, lifeVars
<1>4. ASSUME NEW t \in Topics, AppSend(t) PROVE Settled'
  BY <1>4 DEF AppSend, Send, lifeVars
<1>5. ASSUME NEW on \in Switches, AppSetEnabled(on) PROVE Settled'
  BY <1>5 DEF AppSetEnabled, bearerVars, lifeVars
<1>6. ASSUME NEW p \in Prefixes, NEW relay \in BOOLEAN, AppSetTopicMode(p, relay) PROVE Settled'
  BY <1>6 DEF AppSetTopicMode, SetTopicMode, lifeVars
<1> QED
  BY <1>1, <1>2, <1>3, <1>4, <1>5, <1>6 DEF App

\* The flags of bring-up, restart and poll never contradict each other.
THEOREM AlwaysSettled == EventOutcome => (Spec => []Settled)
<1> SUFFICES ASSUME EventOutcome PROVE Spec => []Settled
  OBVIOUS
<1>1. Init => Settled
  BY DEF Init, BearerInit, Settled, BringUpExclusive, InFlightIsLatest, PollsReadyNode
<1>2. Settled /\ [Next]_vars => Settled'
  <2> SUFFICES ASSUME Settled, [Next]_vars PROVE Settled'
    OBVIOUS
  <2>1. CASE Tick
    BY <2>1 DEF Tick, BearerTick, lifeVars, Settled, BringUpExclusive, InFlightIsLatest,
                PollsReadyNode
  <2>2. CASE UNCHANGED vars
    BY <2>2 DEF vars, bearerVars, lifeVars, pollVars, callStateVars, Settled,
                BringUpExclusive, InFlightIsLatest, PollsReadyNode
  <2> QED
    BY <2>1, <2>2, SettledApp, SettledPoll, SettledAnswer, SettledNode DEF Next
<1> QED
  BY <1>1, <1>2, PTL DEF Spec

\* Metrics are asked of ready nodes only, and a stall is never left over from a
\* node that has been restarted.
THEOREM PollsSettledNode == EventOutcome => (Spec => []PollsReadyNode)
<1>1. Settled => PollsReadyNode
  BY DEF Settled
<1> SUFFICES ASSUME EventOutcome PROVE Spec => []PollsReadyNode
  OBVIOUS
<1>2. Spec => []Settled
  BY AlwaysSettled
<1> QED
  BY <1>1, <1>2, PTL

-----------------------------------------------------------------------------
\* Once up, always up; once joined, always remembered.
LEMMA BearerGrows ==
  ASSUME [BearerNext]_bearerVars
  PROVE  (m_everReady => m_everReady') /\ m_allTopics \subseteq m_allTopics'
<1> USE DEF topicVars, lifeVars
<1>1. CASE Start
  BY <1>1 DEF Start
<1>2. CASE Reconnect
  BY <1>2 DEF Reconnect
<1>3. CASE \E t \in Topics : Join(t) \/ Send(t)
  BY <1>3 DEF Join, Send
<1>4. CASE \E p \in Prefixes, relay \in BOOLEAN : SetTopicMode(p, relay)
  BY <1>4 DEF SetTopicMode
<1>5. CASE CreateFailed
  BY <1>5 DEF CreateFailed
<1>6. CASE CreateDone
  BY <1>6 DEF CreateDone
<1>7. CASE BringupRefused
  BY <1>7 DEF BringupRefused
<1>8. CASE BringupAccepted
  BY <1>8 DEF BringupAccepted, BecomeReady
<1>9. CASE StopReplied
  BY <1>9 DEF StopReplied
<1>10. CASE RestartRefused
  BY <1>10 DEF RestartRefused
<1>11. CASE RestartAccepted
  BY <1>11 DEF RestartAccepted, FinishRestart
<1>12. CASE NodeUp
  BY <1>12 DEF NodeUp, FinishRestart, BecomeReady
<1>13. CASE NodeDown
  BY <1>13 DEF NodeDown
<1>14. CASE ReportLost
  BY <1>14 DEF ReportLost
<1>15. CASE BearerTick
  BY <1>15 DEF BearerTick
<1>16. CASE UNCHANGED bearerVars
  BY <1>16 DEF bearerVars
<1> QED
  BY <1>1, <1>2, <1>3, <1>4, <1>5, <1>6, <1>7, <1>8, <1>9, <1>10, <1>11, <1>12,
     <1>13, <1>14, <1>15, <1>16 DEF BearerNext, Call, Reply, Report

\* The bearers are built by start() and join() only, and topics are joined by
\* join() only.
LEMMA BuiltByStartOrJoin ==
  ASSUME [Next]_vars,
         ~(\E cfg \in Configs : AppStart(cfg)), ~(\E t \in Topics : AppJoin(t))
  PROVE  UNCHANGED <<m_built, hasDelivery, hasMesh, meshReady, wanted, passedOver>>
<1> USE DEF statusVars, pollVars, joinVars, Announce
<1>1. CASE AppStartAgain \/ AppStop
  BY <1>1 DEF AppStartAgain, AppStop
<1>2. CASE \E t \in Topics : AppSend(t)
  BY <1>2 DEF AppSend
<1>3. CASE \E on \in Switches : AppSetEnabled(on)
  BY <1>3 DEF AppSetEnabled
<1>4. CASE \E p \in Prefixes, relay \in BOOLEAN : AppSetTopicMode(p, relay)
  BY <1>4 DEF AppSetTopicMode
<1>5. CASE Poll
  BY <1>5 DEF Poll, PollIdle, PollWait, PollSend, Polling, CheckStall
<1>6. CASE Answer
  <2>1. CASE GoodAnswer
    BY <2>1 DEF GoodAnswer, AnswerPeers, AnswerPeerless, AnswerRestart, Answered, NoteOk
  <2>2. CASE AnswerUnknown
    BY <2>2 DEF AnswerUnknown, Answered, NoteOk
  <2>3. CASE AnswerFailed
    BY <2>3 DEF AnswerFailed, Answered, CheckStall
  <2>4. CASE \E gen \in outstanding : LateAnswer(gen)
    BY <2>4 DEF LateAnswer
  <2> QED
    BY <1>6, <2>1, <2>2, <2>3, <2>4 DEF Answer
<1>7. CASE Node
  BY <1>7 DEF Node, NotCreated, Unannounced, NodeIsUp, NodeIsDown, StartRefused
<1>8. CASE Tick
  BY <1>8 DEF Tick
<1>9. CASE UNCHANGED vars
  BY <1>9 DEF vars
<1> QED
  BY <1>1, <1>2, <1>3, <1>4, <1>5, <1>6, <1>7, <1>8, <1>9 DEF Next, App

\* The bearer remembers every topic an app joined while it was switched on.
TopicsKept ==
  /\ ~m_built => wanted = {}
  /\ hasDelivery => (wanted \ passedOver) \subseteq m_allTopics

THEOREM TopicsRemembered == Spec => []TopicsKept
<1>1. Init => TopicsKept
  BY DEF Init, TopicsKept
<1>2. ASSUME TopicsKept, [Next]_vars PROVE TopicsKept'
  <2>1. m_allTopics \subseteq m_allTopics'
    BY <1>2, CoreStep, BearerGrows
  <2>2. ASSUME NEW cfg \in Configs, AppStart(cfg) PROVE TopicsKept'
    BY <1>2, <2>1, <2>2 DEF AppStart, EnsureBearers, pollVars, joinVars, TopicsKept
  <2>3. ASSUME NEW t \in Topics, AppJoin(t) PROVE TopicsKept'
    <3>1. m_built' /\ wanted' = wanted \cup {t}
      BY <2>3 DEF AppJoin, EnsureBearers
    <3>2. ASSUME hasDelivery' PROVE wanted \ passedOver \subseteq m_allTopics
      BY <1>2, <2>3, <3>2 DEF AppJoin, EnsureBearers, TopicsKept
    <3>3. CASE deliveryOff
      <4>1. wanted' \ passedOver' \subseteq wanted \ passedOver
        BY <2>3, <3>1, <3>3 DEF AppJoin
      <4> QED
        BY <2>1, <3>1, <3>2, <4>1 DEF TopicsKept
    <3>4. CASE ~deliveryOff
      <4>1. wanted' \ passedOver' \subseteq (wanted \ passedOver) \cup {t}
        BY <2>3, <3>1, <3>4 DEF AppJoin
      <4>2. hasDelivery' => t \in m_allTopics'
        BY <2>3, <3>4 DEF AppJoin, JoinAll, Join
      <4> QED
        BY <2>1, <3>1, <3>2, <4>1, <4>2 DEF TopicsKept
    <3> QED
      BY <3>3, <3>4
  <2>4. CASE UNCHANGED <<m_built, hasDelivery, hasMesh, meshReady, wanted, passedOver>>
    BY <1>2, <2>1, <2>4 DEF TopicsKept
  <2> QED
    BY <1>2, <2>2, <2>3, <2>4, BuiltByStartOrJoin
<1> QED
  BY <1>1, <1>2, PTL DEF Spec

\* Unless a restart failed, every topic an app joined while the bearer was on is
\* on the node whenever it is ready.
THEOREM TopicsReachTheNode == Spec => []AppTopicsJoined
<1>1. IInv /\ TopicsKept => AppTopicsJoined
  BY DEF IInv, JoinedUnlessRestartFailed, TopicsKept, AppTopicsJoined
<1> QED
  BY <1>1, CoreBearerInvariant, TopicsRemembered, PTL
-----------------------------------------------------------------------------
\* A bearer that is down and was never up stays in its bring-up, but for the
\* three ways a bring-up fails.
StillComing == m_starting \/ m_everReady

LEMMA ReplyKeepsComing ==
  ASSUME EventOutcome, IInv, StillComing,
         \/ CreateDone \/ BringupAccepted \/ StopReplied
         \/ RestartRefused \/ RestartAccepted \/ ReportLost
         \/ (~m_awaitStart /\ (NodeUp \/ NodeDown))
         \/ (m_awaitStart /\ NodeUp)
  PROVE  StillComing'
<1> USE DEF StillComing, lifeVars
<1>1. CASE CreateDone
  BY <1>1 DEF CreateDone
<1>2. CASE BringupAccepted
  BY <1>2 DEF BringupAccepted
<1>3. CASE StopReplied
  BY <1>3 DEF StopReplied
<1>4. CASE RestartRefused
  BY <1>4 DEF RestartRefused
<1>5. CASE RestartAccepted
  BY <1>5 DEF RestartAccepted
<1>6. CASE ReportLost
  BY <1>6 DEF ReportLost
<1>7. CASE ~m_awaitStart /\ (NodeUp \/ NodeDown)
  BY <1>7 DEF NodeUp, NodeDown
<1>8. CASE m_awaitStart /\ NodeUp
  BY <1>8 DEF NodeUp, FinishRestart, BecomeReady
<1> QED
  BY <1>1, <1>2, <1>3, <1>4, <1>5, <1>6, <1>7, <1>8

\* Before the bearers are built nothing is connected or connecting.
NothingYet ==
  ~m_built => ~hasDelivery /\ ~meshReady /\ ~m_started /\ m_status # "Connecting..."

Told == NothingYet /\ ConnectedIsEarned /\ ConnectingIsBusy

\* News that leave the status alone, or set it to what asks for nothing.
LEMMA ToldFrame ==
  ASSUME Told, m_everReady => m_everReady',
         UNCHANGED <<m_built, hasDelivery, meshReady, notCreated>>, m_started' => m_started,
         StillComing => StillComing',
         \/ m_status' = m_status
         \/ m_status' \in {"Stopped", "Delivery error", "Transport stalled"}
         \/ m_status' = "Connected" /\ (m_everReady' \/ (~hasDelivery /\ meshReady))
  PROVE  Told'
BY DEF Told, NothingYet, ConnectedIsEarned, ConnectingIsBusy, StillComing

\* What apps read is true whenever a call of an app returns.
LEMMA ToldApp ==
  ASSUME IInv, Told, App
  PROVE  Told'
<1> USE DEF pollVars, statusVars, bearerVars, lifeVars, StillComing
<1>0. m_everReady => m_everReady'
  BY CoreStep, BearerGrows DEF Next
<1>1. CASE AppStartAgain
  <2>1. BearersUp => m_everReady \/ (~hasDelivery /\ meshReady)
    BY DEF BearersUp, IInv, Flags
  <2>2. UNCHANGED <<m_built, m_started, hasDelivery, meshReady, notCreated>>
    BY <1>1 DEF AppStartAgain
  <2>3. m_everReady' = m_everReady /\ m_starting' = m_starting
    BY <1>1 DEF AppStartAgain
  <2>4. m_status' = m_status \/ (m_status' = "Connected" /\ BearersUp)
    BY <1>1 DEF AppStartAgain
  <2> QED
    BY <2>1, <2>2, <2>3, <2>4, ToldFrame
<1>2. CASE AppStop
  BY <1>2, ToldFrame DEF AppStop
<1>3. ASSUME NEW cfg \in Configs, AppStart(cfg) PROVE Told'
  <2>1. m_built' /\ meshReady' = hasMesh'
    BY <1>3 DEF AppStart, EnsureBearers
  <2>2. m_status' = "Connected" => ~hasDelivery' /\ meshReady'
    BY <1>3, <2>1 DEF AppStart
  <2>3. hasDelivery' => m_starting' \/ m_everReady'
    <3>1. CASE hasDelivery' /\ CanStart
      BY <1>3, <3>1 DEF AppStart, Start
    <3>2. CASE hasDelivery' /\ ~CanStart
      <4>1. UNCHANGED lifeVars
        BY <1>3, <3>2 DEF AppStart
      <4> QED
        BY <3>2, <4>1 DEF CanStart, IInv, Flags
    <3> QED
      BY <3>1, <3>2
  <2> QED
    BY <2>1, <2>2, <2>3 DEF Told, NothingYet, ConnectedIsEarned, ConnectingIsBusy
<1>4. ASSUME NEW t \in Topics, AppJoin(t) PROVE Told'
  <2>1. m_built' /\ (m_built => hasDelivery' = hasDelivery)
    BY <1>4 DEF AppJoin, EnsureBearers
  <2>2. UNCHANGED <<m_status, meshReady, notCreated>> /\ UNCHANGED lifeVars
    BY <1>4 DEF AppJoin, JoinAll, Join
  <2> QED
    BY <2>1, <2>2 DEF Told, NothingYet, ConnectedIsEarned, ConnectingIsBusy
<1>5. ASSUME NEW t \in Topics, AppSend(t) PROVE Told'
  BY <1>5, ToldFrame DEF AppSend, Send
<1>6. ASSUME NEW on \in Switches, AppSetEnabled(on) PROVE Told'
  BY <1>6, ToldFrame DEF AppSetEnabled
<1>7. ASSUME NEW p \in Prefixes, NEW relay \in BOOLEAN, AppSetTopicMode(p, relay) PROVE Told'
  BY <1>7, ToldFrame DEF AppSetTopicMode, SetTopicMode
<1> QED
  BY <1>1, <1>2, <1>3, <1>4, <1>5, <1>6, <1>7 DEF App

\* A stall is over only when the node, once up, answered.
LEMMA ToldPollAnswer ==
  ASSUME IInv, Settled, Told, Poll \/ Answer
  PROVE  Told'
<1> USE DEF statusVars, bearerVars, lifeVars, StillComing, Announce
<1>0. m_everReady => m_everReady'
  BY CoreStep, BearerGrows DEF Next
<1>1. m_stalled => m_everReady
  BY DEF Settled, PollsReadyNode, IInv, Flags
<1>2. CASE PollIdle
  BY <1>2, ToldFrame DEF PollIdle
<1>3. CASE PollWait
  BY <1>3, ToldFrame DEF PollWait, Polling, CheckStall
<1>4. CASE PollSend
  BY <1>4, ToldFrame DEF PollSend, Polling, CheckStall
<1>5. CASE AnswerPeers
  BY <1>1, <1>5, ToldFrame DEF AnswerPeers, NoteOk
<1>6. CASE AnswerPeerless
  BY <1>1, <1>6, ToldFrame DEF AnswerPeerless, NoteOk
<1>7. CASE AnswerRestart
  <2>1. StillComing => StillComing'
    BY <1>7 DEF AnswerRestart, Reconnect
  <2> QED
    BY <1>0, <1>1, <1>7, <2>1, ToldFrame DEF AnswerRestart, NoteOk
<1>8. CASE AnswerUnknown
  BY <1>1, <1>8, ToldFrame DEF AnswerUnknown, NoteOk
<1>9. CASE AnswerFailed
  BY <1>9, ToldFrame DEF AnswerFailed, CheckStall
<1>10. CASE \E gen \in outstanding : LateAnswer(gen)
  BY <1>10, ToldFrame DEF LateAnswer
<1> QED
  BY <1>2, <1>3, <1>4, <1>5, <1>6, <1>7, <1>8, <1>9, <1>10 DEF Poll, Answer, GoodAnswer

\* Every end of a bring-up is announced, but for createNode failing.
LEMMA ToldNode ==
  ASSUME EventOutcome, IInv, IInv', Told, Node
  PROVE  Told'
<1> USE DEF statusVars, Announce
<1>0. m_everReady => m_everReady'
  BY CoreStep, BearerGrows DEF Next
<1>1. CASE NotCreated
  BY <1>0, <1>1 DEF NotCreated, Told, NothingYet, ConnectedIsEarned, ConnectingIsBusy
<1>2. CASE Unannounced
  <2>1. StillComing => StillComing'
    BY <1>2, ReplyKeepsComing DEF Unannounced
  <2> QED
    BY <1>0, <1>2, <2>1, ToldFrame DEF Unannounced
<1>3. CASE NodeIsUp
  <2>1. StillComing => StillComing'
    BY <1>3, ReplyKeepsComing DEF NodeIsUp
  <2>2. m_nodeReady'
    BY <1>3 DEF NodeIsUp, NodeUp, FinishRestart, BecomeReady
  <2>3. m_everReady'
    BY <2>2 DEF IInv, Flags
  <2> QED
    BY <1>0, <1>3, <2>1, <2>3, ToldFrame DEF NodeIsUp
<1>4. CASE NodeIsDown \/ StartRefused
  <2>1. m_status' = "Delivery error" /\ UNCHANGED <<m_built, m_started, hasDelivery, meshReady>>
    BY <1>4 DEF NodeIsDown, StartRefused
  <2> QED
    BY <2>1 DEF Told, NothingYet, ConnectedIsEarned, ConnectingIsBusy
<1> QED
  BY <1>1, <1>2, <1>3, <1>4 DEF Node

\* "Connected" and "Connecting..." are never left standing without a cause.
THEOREM AlwaysTold == EventOutcome => (Spec => []Told)
<1> SUFFICES ASSUME EventOutcome PROVE Spec => []Told
  OBVIOUS
<1>0. Spec => []Settled
  BY AlwaysSettled
<1>1. Init => Told
  BY DEF Init, BearerInit, Told, NothingYet, ConnectedIsEarned, ConnectingIsBusy
<1>2. IInv /\ IInv' /\ Settled /\ Told /\ [Next]_vars => Told'
  <2> SUFFICES ASSUME IInv, IInv', Settled, Told, [Next]_vars PROVE Told'
    OBVIOUS
  <2>1. CASE Tick
    BY <2>1, ToldFrame DEF Tick, BearerTick, statusVars, lifeVars, StillComing
  <2>2. CASE UNCHANGED vars
    BY <2>2, ToldFrame DEF vars, bearerVars, statusVars, lifeVars, StillComing
  <2> QED
    BY <2>1, <2>2, ToldApp, ToldPollAnswer, ToldNode DEF Next
<1> QED
  BY <1>0, <1>1, <1>2, CoreBearerInvariant, PTL DEF Spec

\* An app that reads "Connected" has a transport that came up.
THEOREM ConnectedMeansUp == EventOutcome => (Spec => []ConnectedIsEarned)
<1>1. Told => ConnectedIsEarned
  BY DEF Told
<1> SUFFICES ASSUME EventOutcome PROVE Spec => []ConnectedIsEarned
  OBVIOUS
<1>2. Spec => []Told
  BY AlwaysTold
<1> QED
  BY <1>1, <1>2, PTL

\* An app that reads "Connecting..." on a node that has never been up waits for a
\* bring-up under way, or for one whose createNode failed.
THEOREM ConnectingMeansComing == EventOutcome => (Spec => []ConnectingIsBusy)
<1>1. Told => ConnectingIsBusy
  BY DEF Told
<1> SUFFICES ASSUME EventOutcome PROVE Spec => []ConnectingIsBusy
  OBVIOUS
<1>2. Spec => []Told
  BY AlwaysTold
<1> QED
  BY <1>1, <1>2, PTL
-----------------------------------------------------------------------------
LEMMA BuiltBearers ==
  ASSUME StatusTypes, NEW cfg, EnsureBearers(cfg)
  PROVE  m_built' = TRUE /\ hasDelivery' \in BOOLEAN /\ hasMesh' \in BOOLEAN
<1>1. CASE m_built
  BY <1>1 DEF StatusTypes, EnsureBearers
<1>2. CASE ~m_built
  <2>1. ("delivery" \in cfg) \in BOOLEAN /\ ("mesh" \in cfg) \in BOOLEAN
    OBVIOUS
  <2>2. hasDelivery' = ("delivery" \in cfg) /\ hasMesh' = ("mesh" \in cfg)
    BY <1>2 DEF EnsureBearers
  <2> QED
    BY <2>1, <2>2 DEF EnsureBearers
<1> QED
  BY <1>1, <1>2

\* The typing of the status, of the topics apps joined and of the poll.
LEMMA StatusTypesStep ==
  ASSUME StatusTypes, [Next]_vars
  PROVE  StatusTypes'
<1> USE DEF StatusTypes, statusVars, joinVars, Announce, Statuses
<1>1. CASE AppStartAgain
  BY <1>1 DEF AppStartAgain, pollVars
<1>2. CASE AppStop
  BY <1>2 DEF AppStop, pollVars
<1>3. ASSUME NEW cfg \in Configs, AppStart(cfg) PROVE StatusTypes'
  <2>1. /\ m_built' \in BOOLEAN /\ m_started' \in BOOLEAN
        /\ hasDelivery' \in BOOLEAN /\ hasMesh' \in BOOLEAN /\ meshReady' \in BOOLEAN
    BY <1>3, BuiltBearers DEF AppStart
  <2>2. notCreated' \in BOOLEAN /\ m_status' \in Statuses
    BY <1>3 DEF AppStart
  <2> QED
    BY <1>3, <2>1, <2>2 DEF AppStart, pollVars
<1>4. ASSUME NEW t \in Topics, AppJoin(t) PROVE StatusTypes'
  <2>1. /\ m_built' \in BOOLEAN
        /\ hasDelivery' \in BOOLEAN /\ hasMesh' \in BOOLEAN
    BY <1>4, BuiltBearers DEF AppJoin
  <2>2. wanted' \subseteq Topics /\ passedOver' \subseteq wanted'
    BY <1>4 DEF AppJoin
  <2> QED
    BY <1>4, <2>1, <2>2 DEF AppJoin
<1>5. ASSUME NEW t \in Topics, AppSend(t) PROVE StatusTypes'
  BY <1>5 DEF AppSend, pollVars
<1>6. ASSUME NEW on \in Switches, AppSetEnabled(on) PROVE StatusTypes'
  BY <1>6 DEF AppSetEnabled
<1>7. ASSUME NEW p \in Prefixes, NEW relay \in BOOLEAN, AppSetTopicMode(p, relay)
      PROVE  StatusTypes'
  BY <1>7 DEF AppSetTopicMode, pollVars
<1>8. CASE Poll
  BY <1>8 DEF Poll, PollIdle, PollWait, PollSend, Polling, CheckStall
<1>9. CASE GoodAnswer
  BY <1>9 DEF GoodAnswer, AnswerPeers, AnswerPeerless, AnswerRestart, Answered, NoteOk
<1>10. CASE AnswerUnknown \/ AnswerFailed \/ (\E gen \in outstanding : LateAnswer(gen))
  <2>1. CASE AnswerUnknown
    BY <2>1 DEF AnswerUnknown, Answered, NoteOk
  <2>2. CASE AnswerFailed
    BY <2>2 DEF AnswerFailed, Answered, CheckStall
  <2>3. CASE \E gen \in outstanding : LateAnswer(gen)
    BY <2>3 DEF LateAnswer
  <2> QED
    BY <1>10, <2>1, <2>2, <2>3
<1>11. CASE Node
  BY <1>11 DEF Node, NotCreated, Unannounced, NodeIsUp, NodeIsDown, StartRefused, pollVars
<1>12. CASE Tick
  BY <1>12 DEF Tick
<1>13. CASE UNCHANGED vars
  BY <1>13 DEF vars, pollVars
<1> HIDE DEF StatusTypes
<1>14. CASE App
  BY <1>1, <1>2, <1>3, <1>4, <1>5, <1>6, <1>7, <1>14 DEF App
<1>15. CASE Answer
  BY <1>9, <1>10, <1>15 DEF Answer
<1> QED
  BY <1>8, <1>11, <1>12, <1>13, <1>14, <1>15 DEF Next

LEMMA NoteOkTypes ==
  ASSUME NoteOk
  PROVE  okAge' \in 0..StallAfter /\ m_stalled' \in BOOLEAN
<1>1. okAge' = 0 /\ m_stalled' = FALSE
  BY DEF NoteOk
<1>2. okAge' \in 0..StallAfter
  BY <1>1
<1>3. m_stalled' \in BOOLEAN
  BY <1>1
<1> QED
  BY <1>2, <1>3

\* An answer leaves the poll without a call in flight.
LEMMA AnsweredTypes ==
  ASSUME PollTypes, Answered
  PROVE  /\ outstanding' \subseteq 0..(Generations - 1)
         /\ sentAge' \in 0..CallTimeout
         /\ m_metricsInFlight' = FALSE
         /\ UNCHANGED <<pollDue, m_metricsGen, okKnown>>
<1>1. CallTimeout \in Nat
  BY TimesAssumption
<1>2. sentAge' = CallTimeout /\ outstanding' \subseteq outstanding
  BY DEF Answered
<1>3. sentAge' \in 0..CallTimeout
  BY <1>1, <1>2
<1> QED
  BY <1>2, <1>3 DEF Answered, PollTypes

LEMMA PollTypesStep ==
  ASSUME PollTypes, [Next]_vars
  PROVE  PollTypes'
<1>0. /\ StallAfter \in Nat /\ CallTimeout \in Nat /\ StreakMax \in Nat \ {0}
      /\ Cooldown \in Nat /\ Generations \in Nat \ {0}
  OBVIOUS
<1> USE <1>0 DEF PollTypes, callStateVars, watchVars
<1>1. CASE UNCHANGED pollVars
  BY <1>1 DEF pollVars
<1>2. ASSUME NEW t \in Topics, AppJoin(t) PROVE PollTypes'
  BY <1>2 DEF AppJoin
<1>3. ASSUME NEW on \in Switches, AppSetEnabled(on) PROVE PollTypes'
  BY <1>3 DEF AppSetEnabled
<1>4. CASE PollIdle
  BY <1>4 DEF PollIdle
<1>5. KnownAge \in 0..StallAfter
  BY DEF KnownAge
<1>6. CASE PollWait
  BY <1>5, <1>6 DEF PollWait, Polling, CheckStall
<1>7. CASE PollSend
  <2>1. /\ m_metricsGen' \in 0..(Generations - 1)
        /\ outstanding' \subseteq 0..(Generations - 1)
    <3>1. m_metricsGen' = (m_metricsGen + 1) % Generations
      BY <1>7 DEF PollSend
    <3>2. m_metricsGen' \in 0..(Generations - 1)
      BY <3>1
    <3> QED
      BY <1>7, <3>2 DEF PollSend
  <2>2. m_stalled' \in BOOLEAN
    BY <1>7 DEF PollSend, CheckStall
  <2>3. sentAge' \in 0..CallTimeout
    BY <1>7 DEF PollSend
  <2> QED
    BY <1>5, <1>7, <2>1, <2>2, <2>3 DEF PollSend, Polling
<1>8. CASE AnswerPeers
  <2>1. okAge' \in 0..StallAfter /\ m_stalled' \in BOOLEAN
    BY <1>8, NoteOkTypes DEF AnswerPeers
  <2>2. m_zeroPeerStreak' \in 0..StreakMax /\ cooldownAge' \in 0..(Cooldown + 1)
    BY <1>8 DEF AnswerPeers
  <2> QED
    BY <1>8, <2>1, <2>2, AnsweredTypes DEF AnswerPeers
<1>9. CASE AnswerPeerless
  <2>1. m_zeroPeerStreak' \in 0..StreakMax
    BY <1>9 DEF AnswerPeerless, NewStreak
  <2>2. okAge' \in 0..StallAfter /\ m_stalled' \in BOOLEAN
    BY <1>9, NoteOkTypes DEF AnswerPeerless
  <2> QED
    BY <1>9, <2>1, <2>2, AnsweredTypes DEF AnswerPeerless
<1>10. CASE AnswerRestart
  <2>1. okAge' \in 0..StallAfter /\ m_stalled' \in BOOLEAN
    BY <1>10, NoteOkTypes DEF AnswerRestart
  <2>2. m_zeroPeerStreak' \in 0..StreakMax /\ cooldownAge' \in 0..(Cooldown + 1)
    BY <1>10 DEF AnswerRestart
  <2> QED
    BY <1>10, <2>1, <2>2, AnsweredTypes DEF AnswerRestart
<1>11. CASE AnswerUnknown
  <2>1. okAge' \in 0..StallAfter /\ m_stalled' \in BOOLEAN
    BY <1>11, NoteOkTypes DEF AnswerUnknown
  <2> QED
    BY <1>11, <2>1, AnsweredTypes DEF AnswerUnknown
<1>12. CASE AnswerFailed
  BY <1>12, AnsweredTypes DEF AnswerFailed, CheckStall
<1>13. CASE \E gen \in outstanding : LateAnswer(gen)
  BY <1>13 DEF LateAnswer
<1>14. CASE Tick
  <2>1. /\ okAge' \in 0..StallAfter /\ sentAge' \in 0..CallTimeout
        /\ cooldownAge' \in 0..(Cooldown + 1)
    BY <1>14 DEF Tick, Older
  <2> QED
    BY <1>14, <2>1 DEF Tick
<1>15. App => \/ UNCHANGED pollVars
              \/ \E t \in Topics : AppJoin(t)
              \/ \E on \in Switches : AppSetEnabled(on)
  BY DEF App, AppStartAgain, AppStop, AppStart, AppSend, AppSetTopicMode
<1>16. Node => UNCHANGED pollVars
  BY DEF Node, NotCreated, Unannounced, NodeIsUp, NodeIsDown, StartRefused
<1> QED
  BY <1>1, <1>2, <1>3, <1>4, <1>6, <1>7, <1>8, <1>9, <1>10, <1>11, <1>12, <1>13, <1>14,
     <1>15, <1>16 DEF Next, Poll, Answer, GoodAnswer, vars

\* Every variable of the facade and of its bearer stays within its bounds.
THEOREM CoreTypes == Spec => []CoreTypeOK
<1>0. /\ StallAfter \in Nat /\ CallTimeout \in Nat /\ StreakMax \in Nat
      /\ Cooldown \in Nat /\ Generations \in Nat \ {0}
  OBVIOUS
<1>1. Init => StatusTypes /\ PollTypes
  <2>1. Init => StatusTypes
    BY DEF Init, StatusTypes, Statuses
  <2>2. Init => /\ pollDue \in BOOLEAN /\ m_metricsInFlight \in BOOLEAN
                /\ okKnown \in BOOLEAN
                /\ m_stalled \in BOOLEAN /\ m_everConnected \in BOOLEAN
    BY DEF Init
  <2>3. Init => /\ m_metricsGen \in 0..(Generations - 1) /\ outstanding = {}
                /\ okAge \in 0..StallAfter
                /\ sentAge \in 0..CallTimeout /\ m_zeroPeerStreak \in 0..StreakMax
                /\ cooldownAge \in 0..(Cooldown + 1) /\ peers \in {-1, 0, 1}
    BY <1>0 DEF Init
  <2> QED
    BY <2>1, <2>2, <2>3 DEF PollTypes
<1>2. StatusTypes /\ PollTypes /\ [Next]_vars => StatusTypes' /\ PollTypes'
  BY StatusTypesStep, PollTypesStep
<1>3. IInv /\ StatusTypes /\ PollTypes => CoreTypeOK
  BY DEF IInv, CoreTypeOK
<1> QED
  BY <1>1, <1>2, <1>3, CoreBearerInvariant, PTL DEF Spec

\* So it does, and bring-up, restart and readiness exclude each other.
THEOREM CoreInvariant == EventOutcome => (Spec => []CoreInv)
<1>1. CoreTypeOK /\ Settled => CoreInv
  BY DEF CoreInv, Settled
<1> SUFFICES ASSUME EventOutcome PROVE Spec => []CoreInv
  OBVIOUS
<1>2. Spec => []Settled
  BY AlwaysSettled
<1> QED
  BY <1>1, <1>2, CoreTypes, PTL

\* Only a poll that sends a call gives it a new generation.
LEMMA OnlyPollSends ==
  ASSUME [Next]_vars, m_metricsGen' # m_metricsGen
  PROVE  PollSend
<1> USE DEF pollVars, callStateVars
<1>1. CASE App
  BY <1>1 DEF App, AppStartAgain, AppStop, AppStart, AppJoin, AppSend, AppSetEnabled,
              AppSetTopicMode
<1>2. CASE Poll
  BY <1>2 DEF Poll, PollIdle, PollWait
<1>3. CASE Answer
  BY <1>3 DEF Answer, GoodAnswer, AnswerPeers, AnswerPeerless, AnswerRestart,
              AnswerUnknown, AnswerFailed, Answered, LateAnswer
<1>4. CASE Node
  BY <1>4 DEF Node, NotCreated, Unannounced, NodeIsUp, NodeIsDown, StartRefused
<1>5. CASE Tick \/ UNCHANGED vars
  BY <1>5 DEF Tick, vars
<1> QED
  BY <1>1, <1>2, <1>3, <1>4, <1>5 DEF Next

\* A node that has not answered is asked again after CallTimeout only, whatever
\* answers come to calls given up before (refreshMetrics).
THEOREM CallsDontPile == EventOutcome => (Spec => OneCallAtATime)
<1> SUFFICES ASSUME EventOutcome PROVE Spec => OneCallAtATime
  OBVIOUS
<1> DEFINE Piles == m_metricsGen' # m_metricsGen /\ m_metricsGen \in outstanding
<1>1. Settled /\ CoreTypeOK /\ [Next]_vars => [Piles => sentAge >= CallTimeout]_vars
  <2> SUFFICES ASSUME Settled, CoreTypeOK, [Next]_vars, Piles
               PROVE  sentAge >= CallTimeout
    OBVIOUS
  <2>1. PollSend
    BY OnlyPollSends
  <2>2. m_metricsInFlight
    BY DEF Settled, InFlightIsLatest
  <2>3. ~(sentAge < CallTimeout)
    BY <2>1, <2>2 DEF PollSend
  <2>4. sentAge \in 0..CallTimeout /\ CallTimeout \in Nat
    BY TimesAssumption DEF CoreTypeOK, PollTypes
  <2> QED
    BY <2>3, <2>4
<1>2. Spec => []Settled
  BY AlwaysSettled
<1> QED
  BY <1>1, <1>2, CoreTypes, PTL DEF Spec, OneCallAtATime

-----------------------------------------------------------------------------
\* The cooldown is never ahead of the restart it was started for.
CooldownBehind == cooldownAge <= reconnectAge

\* Only the watchdog's restart tells the node to stop; only it and time change the
\* age of the latest restart.
LEMMA OnlyWatchdogStops ==
  ASSUME CountTypes, [Next]_vars, ~AnswerRestart
  PROVE  /\ ~(stopping' > stopping)
         /\ Tick \/ UNCHANGED <<cooldownAge, reconnectAge>>
<1> USE DEF CountTypes, Counts, bearerVars, callVars
<1>1. CASE UNCHANGED vars
  BY <1>1 DEF vars, pollVars, watchVars
<1>2. CASE AppStartAgain
  BY <1>2 DEF AppStartAgain, pollVars, watchVars
<1>3. CASE AppStop
  BY <1>3 DEF AppStop, pollVars, watchVars
<1>4. ASSUME NEW cfg \in Configs, AppStart(cfg)
      PROVE  ~(stopping' > stopping) /\ UNCHANGED <<cooldownAge, reconnectAge>>
  <2>1. UNCHANGED <<stopping, reconnectAge>>
    BY <1>4 DEF AppStart, Start
  <2> QED
    BY <1>4, <2>1 DEF AppStart, pollVars, watchVars
<1>5. ASSUME NEW t \in Topics, AppJoin(t)
      PROVE  ~(stopping' > stopping) /\ UNCHANGED <<cooldownAge, reconnectAge>>
  <2>1. UNCHANGED <<stopping, reconnectAge>>
    BY <1>5 DEF AppJoin, JoinAll, Join
  <2> QED
    BY <1>5, <2>1 DEF AppJoin, watchVars
<1>6. ASSUME NEW t \in Topics, AppSend(t)
      PROVE  ~(stopping' > stopping) /\ UNCHANGED <<cooldownAge, reconnectAge>>
  BY <1>6 DEF AppSend, Send, pollVars, watchVars
<1>7. ASSUME NEW on \in Switches, AppSetEnabled(on)
      PROVE  ~(stopping' > stopping) /\ UNCHANGED <<cooldownAge, reconnectAge>>
  BY <1>7 DEF AppSetEnabled, watchVars
<1>8. ASSUME NEW p \in Prefixes, NEW relay \in BOOLEAN, AppSetTopicMode(p, relay)
      PROVE  ~(stopping' > stopping) /\ UNCHANGED <<cooldownAge, reconnectAge>>
  BY <1>8 DEF AppSetTopicMode, SetTopicMode, pollVars, watchVars
<1>9. CASE Poll
  BY <1>9 DEF Poll, PollIdle, PollWait, PollSend, Polling, watchVars
<1>10. CASE Answer
  BY <1>10 DEF Answer, GoodAnswer, AnswerPeers, AnswerPeerless, AnswerUnknown,
               AnswerFailed, LateAnswer, watchVars
<1>11. CASE Node
  <2>1. \/ CreateFailed \/ CreateDone \/ BringupAccepted \/ BringupRefused
        \/ StopReplied \/ RestartRefused \/ RestartAccepted
        \/ ReportLost \/ NodeUp \/ NodeDown
    BY <1>11 DEF Node, NotCreated, Unannounced, NodeIsUp, NodeIsDown, StartRefused
  <2>2. StopReplied => stopping' = stopping - 1 /\ reconnectAge' = reconnectAge
    BY DEF StopReplied
  <2>3. CreateFailed \/ CreateDone \/ BringupAccepted \/ BringupRefused
        => UNCHANGED <<stopping, reconnectAge>>
    BY DEF CreateFailed, CreateDone, BringupAccepted, BringupRefused
  <2>4. RestartRefused \/ RestartAccepted \/ ReportLost
        => UNCHANGED <<stopping, reconnectAge>>
    BY DEF RestartRefused, RestartAccepted, ReportLost
  <2>5. NodeUp \/ NodeDown => UNCHANGED <<stopping, reconnectAge>>
    BY DEF NodeUp, NodeDown
  <2>6. UNCHANGED cooldownAge
    BY <1>11 DEF Node, NotCreated, Unannounced, NodeIsUp, NodeIsDown, StartRefused,
                 pollVars, watchVars
  <2> QED
    BY <2>1, <2>2, <2>3, <2>4, <2>5, <2>6
<1>12. CASE Tick
  BY <1>12 DEF Tick, BearerTick
<1> QED
  BY <1>1, <1>2, <1>3, <1>4, <1>5, <1>6, <1>7, <1>8, <1>9, <1>10, <1>11, <1>12
     DEF Next, App

\* The watchdog leaves more than the cooldown between two restarts of the node.
THEOREM RestartsAreSpaced == Spec => RestartsSpaced
<1>0. Cooldown \in Nat /\ RestartWindow \in Nat /\ Cooldown < RestartWindow
  BY WindowAssumption, TimesAssumption
<1>1. Init => CooldownBehind
  BY <1>0 DEF Init, BearerInit, CooldownBehind
<1>2. CoreTypeOK /\ CooldownBehind /\ [Next]_vars => CooldownBehind'
  <2> SUFFICES ASSUME CoreTypeOK, CooldownBehind, [Next]_vars PROVE CooldownBehind'
    OBVIOUS
  <2>1. reconnectAge \in 0..RestartWindow /\ cooldownAge \in 0..(Cooldown + 1)
    BY DEF CoreTypeOK, TypeOK, CountTypes, PollTypes
  <2>2. CASE AnswerRestart
    <3>1. cooldownAge' = 0 /\ reconnectAge' \in {0, reconnectAge}
      BY <2>2 DEF AnswerRestart, Reconnect, bearerVars
    <3> QED
      BY <2>1, <3>1 DEF CooldownBehind
  <2>3. CASE Tick
    BY <1>0, <2>1, <2>3 DEF Tick, BearerTick, AgeRestart, Older, CooldownBehind
  <2> QED
    BY <2>2, <2>3, OnlyWatchdogStops
       DEF CooldownBehind, CoreTypeOK, TypeOK
<1>3. CoreTypeOK /\ CooldownBehind /\ [Next]_vars
        => [stopping' > stopping => reconnectAge > Cooldown]_vars
  <2> SUFFICES ASSUME CoreTypeOK, CooldownBehind, [Next]_vars, stopping' > stopping
               PROVE  reconnectAge > Cooldown
    OBVIOUS
  <2>1. AnswerRestart
    BY OnlyWatchdogStops DEF CoreTypeOK, TypeOK
  <2>2. cooldownAge > Cooldown
    BY <2>1 DEF AnswerRestart, RestartDue
  <2>3. reconnectAge \in Nat /\ cooldownAge \in Nat /\ Cooldown \in Nat
    BY DEF CoreTypeOK, TypeOK, CountTypes, PollTypes
  <2> QED
    BY <2>2, <2>3 DEF CooldownBehind
<1> QED
  BY <1>1, <1>2, <1>3, CoreTypes, PTL DEF Spec, RestartsSpaced
================================================================================
