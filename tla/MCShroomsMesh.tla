---------------------------- MODULE MCShroomsMesh ----------------------------
EXTENDS ShroomsMesh, TLC

CONSTANTS s1, s2, a1, a2, a3, home, work, other

\* This machine is in two meshes; one peer is in each, one in a third.
MCMeshOf == (s1 :> home) @@ (s2 :> work) @@ (a1 :> home) @@ (a2 :> work)
              @@ (a3 :> other)
==============================================================================
