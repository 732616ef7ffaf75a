SPECIFICATION ReleaseSpec
CONSTANTS
  k1 = k1
  k2 = k2
  a = a
  b = b
  ga = ga
  gn = gn
  gr = gr
  s1 = s1
  s2 = s2
  NoArtifact = NoArtifact
  NoGrant = NoGrant
  Keys = {k1}
  Artifacts = {a, b}
  Grants = {ga, gn, gr}
  GrantAction <- MCGrantAction
  GrantFor <- MCGrantFor
  Attested <- MCReusedKey
  Slots = {s1, s2}
INVARIANT PromotedWasApproved
