\* Two connections after one name, offering the same ops; magmux spawned the first.
\* Each leaves by its connection or its process while two invocations are under way.
SPECIFICATION FairSpec
CONSTANTS
  c1 = c1
  c2 = c2
  n1 = n1
  o1 = o1
  o2 = o2
  NoConn = NoConn
  Conns = {c1, c2}
  Names = {n1}
  NameOf <- OneName
  OpsOf <- SameOps
  Spawned = {c1}
  Calls = {i1, i2}
  MaxInFlight = 1
INVARIANTS ChangesAreAnnounced NoOpOutlivesItsPlugin
PROPERTY GoneFailsFast
CHECK_DEADLOCK FALSE
