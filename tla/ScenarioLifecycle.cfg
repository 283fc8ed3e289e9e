SPECIFICATION Spec
CONSTANTS
  admin = admin
  owner = owner
  reviewer = reviewer
  Scenarios = {s1}
  Actors = {admin, owner, reviewer}
  RoleOf <- RestrictedRoles
  Keys = {k1}
  Inputs = {i1}
  Requests = {r1, r2}
  NoKey = NoKey
  NoActor = NoActor
  NoInput = NoInput
  NoScenario = NoScenario
INVARIANTS
  TypeOK
  EvidenceBacked
  ReviewerSeparation
  ReplayFlagBacked
  ReplayConfirms
PROPERTIES
  StateChangesAudited
  PromiseKept
  SuccessIsOwnChange
