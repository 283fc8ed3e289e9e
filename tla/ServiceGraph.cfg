SPECIFICATION Spec
CONSTANTS
  alice = alice
  bob = bob
  red = red
  blue = blue
  Services = {a, b, c}
  Teams = {red, blue}
  Actors = {alice, bob}
  RoleOf <- RolesGiven
  TeamOf <- TeamsGiven
  Requests = {r1}
  GraphReadMayFail = FALSE
  NoService = NoService
  NoActor = NoActor
  NoTeam = NoTeam
SYMMETRY Interchangeable
INVARIANTS
  Acyclic
PROPERTIES
  OwnTeamOnly
  RegistryKept
