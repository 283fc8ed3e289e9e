SPECIFICATION HistorySpec
CONSTANTS
  admin = admin
  owner = owner
  reviewer = reviewer
  Scenarios = {s1}
  Actors = {admin}
  RoleOf <- RestrictedRoles
  Keys = {k1, k2}
  Inputs = {i1}
  Requests = {r1}
  NoKey = NoKey
  NoActor = NoActor
  NoInput = NoInput
  NoScenario = NoScenario
PROPERTIES
  RepeatedKeyReturnsStored
