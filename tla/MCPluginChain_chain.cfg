SPECIFICATION Spec
CONSTANTS
  token = token  token2 = token2  log = log  limit = limit  k1 = k1  k2 = k2
  None = None
  Plugins = {token, token2, log, limit}  Name <- NameOf  Priority <- PriorityOf
  Configs = {k1, k2}  MaxLen = 3
SYMMETRY Symmetry
INVARIANTS TypeOK HighestFirst ListedOnce OwnConfigWhenSorted
