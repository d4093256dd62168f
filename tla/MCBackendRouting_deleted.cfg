\* A checked backend deleted from a forwarder.
SPECIFICATION Spec
CONSTANTS
  f1 = f1
  f2 = f2
  g1 = g1
  b1 = b1
  b2 = b2
  c1 = c1
  c2 = c2
  Forwarders = {f1}
  Groups = {g1}
  Backends = {b1}
  Callers = {c1}
  Ids <- IdsOfForwarders
  Modes = {"checked"}
  Name <- OwnName
  Drains = TRUE
INVARIANTS DeletedIsNotServed
