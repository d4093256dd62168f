SPECIFICATION FairSpec
CONSTANTS
  c1 = c1  c2 = c2  r1 = r1  r2 = r2  www = www  re = re  get = get  post = post
  f1 = f1  f2 = f2  f3 = f3  m1 = m1  m2 = m2  n1 = n1
  None = None
  Callers = {c1}  Requests = {r1}
  Hosts = {www, re}  Patterns = {re}  Names = {www}
  Keys = {get}  Forwarders = {f1}  Mdws = {m1}
  Handlers = {n1}  MaxRouters = 1  MaxMdws = 1  Overlap = TRUE
INVARIANT OwnNotFound
PROPERTY CallsReturn
PROPERTY RequestsEnd
