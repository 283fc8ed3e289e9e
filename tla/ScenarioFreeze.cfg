SPECIFICATION MCSpec
CONSTANTS
  a1 = a1
  a2 = a2
  c1 = c1
  c2 = c2
  ca = ca
  leaf = leaf
  spent = spent
  alice = alice
  carol = carol
  Anchors = {a1, a2}
  Chains = {c1, c2}
  Certs = {ca, leaf, spent}
  WindowOf <- WindowsGiven
  Bundles <- BundlesGiven
  Actors = {alice, carol}
  RoleOf <- RolesGiven
  Requests = {r1, r2}
  Soon = 1
  Horizon = 3
  NoCert = NoCert
  NoBundle = NoBundle
  Never = Never
  Services = {v1}
  Freezers = {f1}
  PageSize = 1
  NoChain = NoChain
SYMMETRY Interchangeable
INVARIANTS
  FTypeOK
  RevokedFiltered
  ValidatedInWindow
  MissingChainsExplained
  RevocationsFrozen
PROPERTIES
  RevocationFinal
  ChainMovesAudited
  RefusedBeyondPageOnly
