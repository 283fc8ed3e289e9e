SPECIFICATION UpdatesSpec
CONSTANTS
  alice = alice
  bob = bob
  red = red
  blue = blue
  Services = {a, b}
  Teams = {red, blue}
  Actors = {alice, bob}
  RoleOf <- RolesGiven
  TeamOf <- TeamsGiven
  Requests = {r1, r2}
  GraphReadMayFail = FALSE
  NoService = NoService
  NoActor = NoActor
  NoTeam = NoTeam
SYMMETRY Interchangeable
PROPERTIES
  OwnTeamOnly
