---------------------------- MODULE MCShroomsWire ----------------------------
EXTENDS ShroomsWire

Frame(id, version, topic, payload) ==
  [id |-> id, version |-> version, topic |-> topic, payload |-> payload]

\* The smallest and the largest frame flood() sends, one it refuses as too large,
\* one of another protocol, and one whose length does not hold its topic.
AllFrames == {Frame("small", 1, 1, 0), Frame("large", 1, 2, 3), Frame("over", 1, 2, 4),
              Frame("other", 2, 1, 0), Frame("short", 1, 2, -1)}

\* Two connections of one peer, one of a rogue.
Peers == [c \in {"mesh1", "mesh2", "rogue"} |-> IF c = "rogue" THEN "r" ELSE "p"]
==============================================================================
