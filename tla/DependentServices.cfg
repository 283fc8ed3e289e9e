SPECIFICATION Spec
CONSTANTS
  alice = alice
  bob = bob
  red = red
  blue = blue
  Services = {a, b}
  Teams = {red}
  Actors = {alice, bob}
  RoleOf <- RolesGiven
  TeamOf <- TeamsGiven
  Requests = {r1, r2}
  GraphReadMayFail = TRUE
  NoService = NoService
  NoActor = NoActor
  NoTeam = NoTeam
SYMMETRY Interchangeable
INVARIANTS
  TypeOK
  EdgesResolve
PROPERTIES
  DeactivationFinal
  DeactivatedOnce
  RegistryKept
