\* Overlapping calls, direct and group backends, late reports.
SPECIFICATION Spec
CONSTANTS
  f1 = f1
  f2 = f2
  g1 = g1
  b1 = b1
  b2 = b2
  c1 = c1
  c2 = c2
  Forwarders = {f1}
  Groups = {g1}
  Backends = {b1, b2}
  Callers = {c1, c2}
  Ids <- IdsMixed
  Modes = {"plain", "checked"}
  Name <- OwnName
  Drains = FALSE
SYMMETRY CallerSymmetry
INVARIANTS UsableIsServed NoStrayEndpoint CheckedIsWatched
