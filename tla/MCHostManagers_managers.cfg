SPECIFICATION FairSpec
CONSTANTS
  c1 = c1  c2 = c2  h1 = h1  h2 = h2  g1 = g1  g2 = g2
  None = None
  Callers = {c1, c2}  Hosts = {h1, h2}  Groups = {g1, g2}  Name <- OneName
  MaxManagers = 2
INVARIANTS TypeOK HostHasManager GroupInOnePlace OpenIsReachable
PROPERTIES HostCallsReturn GroupCallsReturn
CHECK_DEADLOCK FALSE
