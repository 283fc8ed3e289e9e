------------------------- MODULE DependentServices -------------------------
(* The dependent service registry (service/dependent_service_service.go with *)
(* its routes and repository): the services that present a certificate       *)
(* chain, the team that owns each, and the dependency graph between them.    *)
(* An update reads the row, then the catalogue, then the whole graph, and    *)
(* only then opens the transaction that writes; each access is a step.       *)
(*                                                                           *)
(* Service ids and service codes are one name: a row is created once per     *)
(* code and never removed.  The chain and the client trust anchors a service *)
(* refers to belong to other tables; a request either names existing ones or *)
(* it does not.                                                              *)
EXTENDS AccessControl, DependencyGraph

CONSTANTS Teams, Actors,
          RoleOf, TeamOf,   \* the role and team in each user's token
          Requests,    \* request goroutines that may run at once
          GraphReadMayFail, \* whether the second read of the graph can fail alone
          NoService, NoActor, NoTeam

ASSUME RoleAssumption == RoleOf \in [Actors -> Roles]
ASSUME TeamAssumption == TeamOf \in [Actors -> Teams]
ASSUME GraphReadAssumption == GraphReadMayFail \in BOOLEAN
ASSUME SentinelAssumption ==
  NoService \notin Services /\ NoActor \notin Actors /\ NoTeam \notin Teams

VARIABLES
  rows,         \* the dependent_services table
  requests,     \* what each goroutine holds between two database accesses
  audit,        \* the entry the last step appended to the audit log: none or one
  reply         \* the HTTP answer the last step sent: none or one

vars == <<rows, requests, audit, reply>>

Row == [state : {"absent", "active", "inactive"},
        team  : Teams \cup {NoTeam},
        edges : SUBSET Services]

AbsentRow == [state |-> "absent", team |-> NoTeam, edges |-> {}]

Operations == {"create", "update", "deactivate"}

(* "references": before the catalogue is read; "graph": before the graph is  *)
(* read; "commit": before the transaction; "answer": before the final Get.   *)
Request == [pc      : {"idle", "references", "graph", "commit", "answer"},
            op      : Operations \cup {"none"},
            actor   : Actors \cup {NoActor},
            service : Services \cup {NoService},
            team    : Teams \cup {NoTeam},
            edges   : SUBSET Services,
            row     : Row]

Idle == [pc |-> "idle", op |-> "none", actor |-> NoActor, service |-> NoService,
         team |-> NoTeam, edges |-> {}, row |-> AbsentRow]

Statuses == {"success", "forbidden", "not found", "invalid reference",
             "self dependency", "cyclic", "code exists", "already inactive",
             "changed concurrently", "internal error"}

Reply == [op : Operations, service : Services, status : Statuses]

Entry == [action : Operations, actor : Actors, service : Services,
          before : Row, after : Row]

-----------------------------------------------------------------------------
(* Decisions.                                                                *)

Existing == {s \in Services : rows[s].state # "absent"}

(* requireServiceOwnership                                                   *)
Owns(actor, team) ==
  \/ RoleOf[actor] \in PkiAdministrators
  \/ RoleOf[actor] = "service_owner" /\ TeamOf[actor] = team

(* Only an administrator hands a service to another team.  Mutant: anybody.  *)
AnyTransfer(actor, team) == TRUE

KeepsTeam(actor, team) == RoleOf[actor] = "service_owner" => team = TeamOf[actor]

(* validateReferences, after chain and anchors: every edge names a row that  *)
(* exists and is not the service itself; the first bad one, by id, decides    *)
(* the answer.  Mutant: whatever is named is taken.                          *)
AnyReference(self, edges) == {}

ReferenceRefusals(self, edges) ==
  {refusal \in {"self dependency", "invalid reference"} :
     IF refusal = "self dependency" THEN self \in edges ELSE ~(edges \subseteq Existing)}

(* The graph All() returns: every row, inactive services included.           *)
Graph == [s \in Existing |-> rows[s].edges]

(* servicesContainCycle refuses a graph with a dangling edge or a cycle; that *)
(* its search comes to this is what CycleSearch shows.                       *)
ContainsCycle(graph) == Dangling(graph) \/ HasLoop(graph)

(* What the check looks at.  A new service joins under the provisional id    *)
(* ^uint(0), here NoService; an updated one has its edges replaced if it is  *)
(* among the rows read.  An error of the read is dropped and leaves no rows. *)
Extended(read, edges) ==
  [s \in DOMAIN read \cup {NoService} |-> IF s = NoService THEN edges ELSE read[s]]

(* Mutant: the graph is checked with the edges it had before.                *)
OldEdgesKept(read, self, edges) == read

Replaced(read, self, edges) == [s \in DOMAIN read |-> IF s = self THEN edges ELSE read[s]]

NoRows == [s \in {} |-> {}]

Readings == IF GraphReadMayFail THEN {Graph, NoRows} ELSE {Graph}

-----------------------------------------------------------------------------
Answer(r, status) ==
  /\ reply' = {[op |-> requests[r].op,
                service |-> requests[r].service, status |-> status]}
  /\ requests' = [requests EXCEPT ![r] = Idle]
  /\ audit' = {}
  /\ UNCHANGED rows

(* Refused by the first checks: answered in the step that received it.       *)
RefuseAtOnce(op, s, status) ==
  /\ reply' = {[op |-> op, service |-> s, status |-> status]}
  /\ audit' = {}
  /\ UNCHANGED <<rows, requests>>

Proceed(r, request) ==
  /\ requests' = [requests EXCEPT ![r] = request]
  /\ reply' = {}
  /\ audit' = {}
  /\ UNCHANGED rows

(* Write the row and append the audit entry in one transaction.              *)
Commit(r, row, before, after) ==
  /\ rows' = [rows EXCEPT ![requests[r].service] = row]
  /\ audit' = {[action |-> requests[r].op, actor |-> requests[r].actor,
                service |-> requests[r].service, before |-> before, after |-> after]}
  /\ requests' = [requests EXCEPT ![r].pc = "answer"]
  /\ reply' = {}

-----------------------------------------------------------------------------
Init ==
  /\ rows = [s \in Services |-> AbsentRow]
  /\ requests = [r \in Requests |-> Idle]
  /\ audit = {}
  /\ reply = {}

(* Create has no row to read: ownership is the team the request names.       *)
CreateReceive(r, a, s, team, edges) ==
  /\ requests[r].pc = "idle"
  /\ IF HasPermission(RoleOf[a], "dependency.write") /\ Owns(a, team)
     THEN Proceed(r, [Idle EXCEPT !.pc = "references", !.op = "create", !.actor = a,
                                  !.service = s, !.team = team, !.edges = edges])
     ELSE RefuseAtOnce("create", s, "forbidden")

(* Mutant: ownership is asked of the team the request names, not of the row. *)
RequestedTeamOwned(a, s, team) ==
  IF ~HasPermission(RoleOf[a], "dependency.write") THEN "forbidden"
  ELSE IF rows[s].state = "absent" THEN "not found"
  ELSE IF ~Owns(a, team) THEN "forbidden"
  ELSE "none"

(* The route's permission, the row, ownership, the transfer rule.            *)
UpdateRefusal(a, s, team) ==
  IF ~HasPermission(RoleOf[a], "dependency.write") THEN "forbidden"
  ELSE IF rows[s].state = "absent" THEN "not found"
  ELSE IF ~Owns(a, rows[s].team) \/ ~KeepsTeam(a, team) THEN "forbidden"
  ELSE "none"

UpdateLoad(r, a, s, team, edges) ==
  LET refusal == UpdateRefusal(a, s, team) IN
  /\ requests[r].pc = "idle"
  /\ \/ refusal # "none" /\ RefuseAtOnce("update", s, refusal)
     \/ refusal = "none" /\ Proceed(r, [pc |-> "references", op |-> "update", actor |-> a,
                                        service |-> s, team |-> team, edges |-> edges,
                                        row |-> rows[s]])

(* validateReferences: the chain, the anchors, then the edges.  A service    *)
(* that is being created has no id yet, so none of its edges is itself.      *)
CheckReferences(r) ==
  LET self == IF requests[r].op = "create" THEN NoService ELSE requests[r].service
      refusals == ReferenceRefusals(self, requests[r].edges) IN
  /\ requests[r].pc = "references"
  /\ \/ Answer(r, "not found")           \* no such chain
     \/ Answer(r, "invalid reference")   \* no such client trust anchor
     \/ \E refusal \in refusals : Answer(r, refusal)
     \/ refusals = {} /\ Proceed(r, [requests[r] EXCEPT !.pc = "graph"])

(* The graph is read a second time, and the error of this read is ignored.   *)
CheckGraph(r) ==
  /\ requests[r].pc = "graph"
  /\ \E read \in Readings :
       LET candidate == IF requests[r].op = "create"
                        THEN Extended(read, requests[r].edges)
                        ELSE Replaced(read, requests[r].service, requests[r].edges) IN
       \/ ContainsCycle(candidate) /\ Answer(r, "cyclic")
       \/ ~ContainsCycle(candidate) /\ Proceed(r, [requests[r] EXCEPT !.pc = "commit"])

CreateCommit(r) ==
  LET new == [state |-> "active", team |-> requests[r].team, edges |-> requests[r].edges] IN
  /\ requests[r].pc = "commit" /\ requests[r].op = "create"
  /\ requests[r].service \notin Existing
  /\ Commit(r, new, AbsentRow, new)

CreateDuplicate(r) ==
  /\ requests[r].pc = "commit" /\ requests[r].op = "create"
  /\ requests[r].service \in Existing
  /\ Answer(r, "code exists")

(* The columns an update writes; service_state is not one of them.  Mutant:  *)
(* the whole copy read earlier is saved.                                     *)
WholeCopySaved(r, row) == [requests[r].row EXCEPT !.team = requests[r].team,
                                                  !.edges = requests[r].edges]

Updated(r, row) == [row EXCEPT !.team = requests[r].team, !.edges = requests[r].edges]

(* WHERE id only: whatever the row has become since it was read.             *)
UpdateCommit(r) ==
  /\ requests[r].pc = "commit" /\ requests[r].op = "update"
  /\ Commit(r, Updated(r, rows[requests[r].service]),
            requests[r].row, Updated(r, requests[r].row))

-----------------------------------------------------------------------------
DeactivateRefusal(a, s) ==
  IF ~HasPermission(RoleOf[a], "dependency.write") THEN "forbidden"
  ELSE IF rows[s].state = "absent" THEN "not found"
  ELSE IF ~Owns(a, rows[s].team) THEN "forbidden"
  ELSE IF rows[s].state # "active" THEN "already inactive"
  ELSE "none"

DeactivateLoad(r, a, s) ==
  LET refusal == DeactivateRefusal(a, s) IN
  /\ requests[r].pc = "idle"
  /\ \/ refusal # "none" /\ RefuseAtOnce("deactivate", s, refusal)
     \/ /\ HasPermission(RoleOf[a], "dependency.write")   \* any error of the read
        /\ RefuseAtOnce("deactivate", s, "not found")
     \/ refusal = "none" /\ Proceed(r, [Idle EXCEPT !.pc = "commit", !.op = "deactivate",
                                                    !.actor = a, !.service = s,
                                                    !.row = rows[s]])

(* Mutant: the UPDATE names the row by its id only.                          *)
AnyState(r) == TRUE

(* WHERE service_state = 'active'.                                           *)
StillActive(r) == rows[requests[r].service].state = "active"

Misspelt(row) == [row EXCEPT !.state = "disabled"]   \* mutant: no such state

Deactivated(row) == [row EXCEPT !.state = "inactive"]

DeactivateCommit(r) ==
  /\ requests[r].pc = "commit" /\ requests[r].op = "deactivate"
  /\ StillActive(r)
  /\ Commit(r, Deactivated(rows[requests[r].service]),
            requests[r].row, Deactivated(requests[r].row))

DeactivateLost(r) ==
  /\ requests[r].pc = "commit" /\ requests[r].op = "deactivate"
  /\ ~StillActive(r)
  /\ Answer(r, "changed concurrently")

-----------------------------------------------------------------------------
AnswerCommitted(r) == requests[r].pc = "answer" /\ Answer(r, "success")

(* A database error or a failed audit append rolls the transaction back;     *)
(* after the commit only the answer is lost.                                 *)
StoreFails(r) == requests[r].pc # "idle" /\ Answer(r, "internal error")

(* The process dies: goroutines vanish, open transactions roll back.         *)
Crash ==
  /\ \E r \in Requests : requests[r].pc # "idle"
  /\ requests' = [r \in Requests |-> Idle]
  /\ reply' = {}
  /\ audit' = {}
  /\ UNCHANGED rows

Receive(r) ==
  \E a \in Actors, s \in Services :
    \/ \E team \in Teams, edges \in SUBSET Services :
         CreateReceive(r, a, s, team, edges) \/ UpdateLoad(r, a, s, team, edges)
    \/ DeactivateLoad(r, a, s)

Handle(r) ==
  \/ CheckReferences(r) \/ CheckGraph(r)
  \/ CreateCommit(r) \/ CreateDuplicate(r) \/ UpdateCommit(r)
  \/ DeactivateCommit(r) \/ DeactivateLost(r)
  \/ AnswerCommitted(r)

Next == \/ \E r \in Requests : Receive(r) \/ Handle(r) \/ StoreFails(r)
        \/ Crash

Spec == Init /\ [][Next]_vars

-----------------------------------------------------------------------------
(* Type invariant.                                                           *)
TypeOK ==
  /\ rows \in [Services -> Row]
  /\ requests \in [Requests -> Request]
  /\ audit \subseteq Entry
  /\ reply \subseteq Reply

(* Every dependency names another service that exists, although references   *)
(* are validated two reads before the commit and the graph check may have    *)
(* looked at no graph at all: the simulator resolves edges without a check   *)
(* of its own (evaluateDirect, resolveService).                              *)
EdgesResolve ==
  \A s \in Services : rows[s].edges \subseteq Existing \ {s}

(* A deactivation is final: an update that read the row while it was active  *)
(* and commits later changes its columns but does not bring it back.         *)
DeactivationFinal ==
  [][\A s \in Services : rows[s].state = "inactive" => rows'[s].state = "inactive"]_vars

(* A service is deactivated, and the deactivation audited, once, however     *)
(* many requests found it active.                                            *)
DeactivatedOnce ==
  [][\A e \in audit' : e.action = "deactivate" =>
       rows[e.service].state = "active" /\ rows'[e.service].state = "inactive"]_vars

(* The dependency graph has no cycle ("Maintain dependency edges and find    *)
(* cycles", README.md:50; "dependency graph would be cyclic", :156): one     *)
(* request at a time keeps it so, two at once do not.                        *)
Acyclic == ~ContainsCycle(Graph)

(* Every change is made by an administrator or by a member of the team that  *)
(* owns the service when the change commits ("service owner may only modify  *)
(* services owned by their team", dependent_service_service.go:36).          *)
OwnTeamOnly ==
  [][\A e \in audit' : e.action # "create" => Owns(e.actor, rows[e.service].team)]_vars

(* The registry keeps its promise (ServiceRegistry), for any number of       *)
(* overlapping requests: owners do not give services away, edges name other  *)
(* services that exist, nothing comes back from a deactivation, and the      *)
(* audit entry names who did it; and, one request at a time, each change is  *)
(* made for the owning team and leaves no cycle                              *)
(* (dependent_service_service.go:29-37, 52-69, 139-141, 155).                *)
OneAtATime == (\A q, r \in Requests : q = r) /\ GraphReadMayFail = FALSE

Signatures == {[action |-> e.action, actor |-> e.actor, service |-> e.service] : e \in audit}

Registry == INSTANCE ServiceRegistry WITH table <- rows, log <- Signatures, Isolated <- OneAtATime

RegistryKept == Registry!Spec
=============================================================================
