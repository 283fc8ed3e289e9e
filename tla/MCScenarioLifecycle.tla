------------------------ MODULE MCScenarioLifecycle ------------------------
(* Instances of ScenarioLifecycle for TLC: an administrator, who holds every *)
(* permission and may create scenarios, a service owner, who may create and  *)
(* run but not verify, and a security reviewer, who may only verify.         *)
EXTENDS ScenarioLifecycle, TLC

CONSTANTS admin, owner, reviewer

RolesOfActors == (admin :> "admin") @@ (owner :> "service_owner")
                   @@ (reviewer :> "security_reviewer")

RestrictedRoles == [a \in Actors |-> RolesOfActors[a]]

Interchangeable == Permutations(Requests) \cup Permutations(Keys) \cup Permutations(Inputs)
=============================================================================
