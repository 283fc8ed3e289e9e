------------------------ MODULE MCDependentServices ------------------------
(* The roles and teams the runs give to the model values of Actors: alice is *)
(* an administrator, bob a service owner of the team red.                    *)
EXTENDS DependentServices, TLC

CONSTANTS alice, bob, red, blue

RolesGiven == [a \in Actors |-> IF a = alice THEN "admin" ELSE "service_owner"]
TeamsGiven == [a \in Actors |-> red]

(* Creations and updates only: what ownership_race is about.                 *)
UpdatesSpec == Init /\ [][Next /\ \A r \in Requests : requests'[r].op # "deactivate"]_vars

Interchangeable == Permutations(Services) \cup Permutations(Requests)
============================================================================
