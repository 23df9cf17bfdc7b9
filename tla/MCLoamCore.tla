------------------------------ MODULE MCLoamCore ------------------------------
EXTENDS LoamCore, TLC

CONSTANTS t1, p1

\* loam_core always subscribes to nodeStarted.
ASSUME EventsAssumption == EventOutcome

MCOneTopic == p1 :> {t1}
MCNoTopic == << >>

\* The flags an app may ask for; neither, with Bluetooth only or with nothing.
MCConfigs == {{"delivery"}, {"mesh"}, {}}
MCDeliveryOnly == {{"delivery"}}
==============================================================================
