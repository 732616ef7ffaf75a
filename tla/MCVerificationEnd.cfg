SPECIFICATION VerFairSpec
CONSTANTS
  c1 = c1
  c2 = c2
  d1 = d1
  d1b = d1b
  d2 = d2
  p1 = p1
  p2 = p2
  x1 = x1
  x2 = x2
  NoDef = NoDef
  NoCandidate = NoCandidate
  s1 = s1
  s2 = s2
  k1 = k1
  Checks = {c1, c2}
  Defs = {d1, d1b, d2}
  CheckOf <- MCCheckOf
  Policies = {p1, p2}
  DefIn <- MCDefIn
  Required <- MCRequired
  VersionOf <- MCVersionOf
  Candidates = {x1, x2}
  PolicyOf <- MCPolicyOf
  Keys = {k1}
  Calls = {s1, s2}
PROPERTIES
  CallsEnd
