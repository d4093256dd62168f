\* Two forwarders on one group, two callers, calls overlapping; reports are delivered.
SPECIFICATION FairSpec
CONSTANTS
  f1 = f1
  f2 = f2
  g1 = g1
  b1 = b1
  b2 = b2
  c1 = c1
  c2 = c2
  Forwarders = {f1, f2}
  Groups = {g1}
  Backends = {b1}
  Callers = {c1, c2}
  Ids <- IdsOfOneGroup
  Modes = {"checked"}
  Name <- OwnName
  Drains = FALSE
INVARIANTS TypeOK ListedIsFed FedIsListed
PROPERTIES WellIsServedEventually
