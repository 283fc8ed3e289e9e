-------------------------- MODULE ServiceRegistry --------------------------
(* What the registry of dependent services promises, without requests, stale *)
(* reads or failures: who may change which service, that dependencies name   *)
(* other services that exist, that a deactivated service stays deactivated.  *)
(* Two clauses, ownership and acyclicity, are promised at the moment of the  *)
(* change only if requests are isolated from each other.  Every change is    *)
(* signed by the user who made it, so that the promise is about that user.   *)
EXTENDS AccessControl, DependencyGraph

CONSTANTS Teams, Actors, RoleOf, TeamOf, NoTeam,
          Isolated   \* one request at a time, all of whose reads succeed

VARIABLES table,   \* the registered services
          log      \* what the last step signed in the audit log: none or one

Unregistered == [state |-> "absent", team |-> NoTeam, edges |-> {}]

Registered == {s \in Services : table[s].state # "absent"}

Dependencies == [s \in Registered |-> table[s].edges]

Init == table = [s \in Services |-> Unregistered] /\ log = {}

Signed(action, a, s) == {[action |-> action, actor |-> a, service |-> s]}

(* Administrators speak for every team, a service owner for their own.       *)
SpeaksFor(a, team) ==
  RoleOf[a] \in PkiAdministrators \/ (RoleOf[a] = "service_owner" /\ TeamOf[a] = team)

MayWrite(a) == HasPermission(RoleOf[a], "dependency.write")

Register(s, a, team, edges) ==
  /\ log' = Signed("create", a, s)
  /\ table[s].state = "absent"
  /\ SpeaksFor(a, team)
  /\ edges \subseteq Registered \ {s}
  /\ table' = [table EXCEPT ![s] = [state |-> "active", team |-> team, edges |-> edges]]

(* Only an administrator hands a service to another team.                    *)
Change(s, a, team, edges) ==
  /\ log' = Signed("update", a, s)
  /\ s \in Registered
  /\ MayWrite(a) /\ (RoleOf[a] = "service_owner" => team = TeamOf[a])
  /\ edges \subseteq Registered \ {s}
  /\ table' = [table EXCEPT ![s] = [@ EXCEPT !.team = team, !.edges = edges]]
  /\ Isolated => SpeaksFor(a, table[s].team) /\ ~HasLoop(Dependencies')

Deactivate(s, a) ==
  /\ log' = Signed("deactivate", a, s)
  /\ table[s].state = "active"
  /\ MayWrite(a)
  /\ table' = [table EXCEPT ![s] = [@ EXCEPT !.state = "inactive"]]
  /\ Isolated => SpeaksFor(a, table[s].team)

(* Requests are read, refused or fail: nothing is changed, nothing signed.   *)
Rest == log' = {} /\ UNCHANGED table

Next == \/ Rest
        \/ \E s \in Services, a \in Actors :
             \/ \E team \in Teams, edges \in SUBSET Services :
                  Register(s, a, team, edges) \/ Change(s, a, team, edges)
             \/ Deactivate(s, a)

Spec == Init /\ [][Next]_<<table, log>>
=============================================================================
