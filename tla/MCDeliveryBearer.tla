--------------------------- MODULE MCDeliveryBearer ---------------------------
EXTENDS DeliveryBearer, TLC

CONSTANTS t1, t2, p1, p2

\* p1 is a prefix of both topics, p2 of one.
MCTopicsOf == (p1 :> {t1, t2}) @@ (p2 :> {t2})

\* The module the bearer runs on: one that reports on its starts (EventOutcome,
\* since 0.3.0), or an older one, whose reply to start is the outcome
\* (there with two calls of a kind under way at once).
VARIABLE reports

Older == INSTANCE DeliveryBearer WITH EventOutcome <- FALSE, MaxCalls <- 2

MCInit == BearerInit /\ reports \in BOOLEAN
MCNext ==
  /\ UNCHANGED reports
  /\ \/ reports /\ BearerNext
     \/ ~reports /\ Older!BearerNext
MCSpec == MCInit /\ [][MCNext]_<<bearerVars, reports>>
==============================================================================
