CONSTANTS
  s1 = s1
  s2 = s2
  a1 = a1
  a2 = a2
  a3 = a3
  home = home
  work = work
  other = other
  Addrs = {a1, a2, a3}
  Self = {s1, s2}
  MeshOf <- MCMeshOf
  Meshes = {home, work}
  NumSources = 2
  Daemons = {0}
SPECIFICATION FairSpec
INVARIANTS OneFetch StopAsksNoMore
PROPERTIES FetchEnds Reconnects
