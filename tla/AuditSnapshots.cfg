SPECIFICATION Spec
CONSTANTS
  admin = admin
  owner = owner
  reviewer = reviewer
  Scenarios = {s1}
  Actors = {admin}
  RoleOf <- RestrictedRoles
  Keys = {k1}
  Inputs = {i1}
  Requests = {r1, r2}
  NoKey = NoKey
  NoActor = NoActor
  NoInput = NoInput
  NoScenario = NoScenario
PROPERTIES
  AuditSnapshotsTrue
