SPECIFICATION FairMCSpec
CONSTANTS
  olga = olga
  rita = rita
  here = here
  Users = {olga, rita}
  RoleOf <- RolesGiven
  Addresses = {here}
  Browser = here
  Requests = {q1, q2}
  Routes = {"login", "simulate", "create_scenario", "transition", "audit"}
  LimitOf <- LimitsGiven
  Minute = 2
  MaxStall = 1
  Expiry = 1
  Horizon = 4
  NoUser = NoUser
  NoToken = NoToken
  Never = Never
  Tabs = {t1, t2}
  t1 = t1
  t2 = t2
  NoTab = NoTab
INVARIANTS
  TypeOK
  ServesSeeded
  BurstBound
  OfferedIsPermitted
PROPERTIES
  SignInEnds
