SPECIFICATION Spec
CONSTANTS
  admin = admin
  owner = owner
  reviewer = reviewer
  Scenarios = {s1, s2}
  Actors = {admin}
  RoleOf <- RestrictedRoles
  Keys = {k1, k2}
  Inputs = {i1, i2}
  Requests = {r1, r2}
  NoKey = NoKey
  NoActor = NoActor
  NoInput = NoInput
  NoScenario = NoScenario
SYMMETRY Interchangeable
INVARIANTS
  NoSharedIdentity
  AnswersAreOwnResults
