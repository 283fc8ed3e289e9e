-------------------------- MODULE DependencyGraph --------------------------
(* A dependency graph gives for each service of a table the services it      *)
(* depends on, which may be outside the table.                               *)
CONSTANT Services   \* ids of services

(* Some service depends on one that is not in the table.                     *)
Dangling(graph) == \E s \in DOMAIN graph : ~(graph[s] \subseteq DOMAIN graph)

(* There is a cycle: some services each of which depends on one of them.     *)
HasLoop(graph) ==
  \E loop \in SUBSET DOMAIN graph : loop # {} /\ \A s \in loop : graph[s] \cap loop # {}
============================================================================
