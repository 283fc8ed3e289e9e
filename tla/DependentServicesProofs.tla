----------------------- MODULE DependentServicesProofs -----------------------
(* Proofs about DependentServices for every set of services, teams, users    *)
(* and concurrent requests.  Edges stay resolvable because rows are never    *)
(* removed: what a request has validated remains true until it commits.  The *)
(* graph and the ownership have no such luck; they are safe when one request *)
(* runs at a time, and the second half proves just that.                     *)
EXTENDS DependentServices, TLAPS

(* What a request knows once its references are validated.                   *)
EdgesValidated(q, known) ==
  q.pc \in {"graph", "commit"} =>
    q.edges \subseteq (IF q.op = "update" THEN known \ {q.service} ELSE known)

RequestSound(q, known) ==
  /\ q.actor \in Actors /\ q.service \in Services
  /\ q.op \in Operations
  /\ q.op \in {"update", "deactivate"} => q.service \in known
  /\ q.op \in {"create", "update"} => EdgesValidated(q, known)

RequestsSound ==
  \A r \in Requests : requests[r] = Idle \/ RequestSound(requests[r], Existing)

IInv == TypeOK /\ EdgesResolve /\ RequestsSound
-----------------------------------------------------------------------------
(* The empty values are well typed.                                          *)
LEMMA EmptyValuesTyped == AbsentRow \in Row /\ Idle \in Request
  BY DEF AbsentRow, Row, Idle, Request, Operations

(* A busy request is sound.                                                  *)
LEMMA RequestFacts ==
  ASSUME IInv, NEW r \in Requests, requests[r].pc # "idle"
  PROVE  requests[r] \in Request /\ RequestSound(requests[r], Existing)
<1>1. requests[r] # Idle
  BY DEF Idle
<1> QED BY <1>1 DEF IInv, TypeOK, RequestsSound

(* A request stays sound while the table only grows.                         *)
LEMMA RequestSurvives ==
  ASSUME NEW q, NEW known, NEW more, RequestSound(q, known), known \subseteq more
  PROVE  RequestSound(q, more)
BY DEF RequestSound, EdgesValidated

(* A step that leaves the table alone and puts one request into a sound      *)
(* position.                                                                 *)
LEMMA RequestMoves ==
  ASSUME IInv, NEW r \in Requests, NEW x \in Request,
         rows' = rows, requests' = [requests EXCEPT ![r] = x],
         x = Idle \/ RequestSound(x, Existing),
         audit' = {}, reply' \subseteq Reply
  PROVE  IInv'
<1>1. requests' \in [Requests -> Request] /\ requests'[r] = x
      /\ \A q \in Requests \ {r} : requests'[q] = requests[q]
  BY DEF IInv, TypeOK
<1>2. Existing' = Existing
  BY DEF Existing
<1>4. TypeOK'
  BY <1>1 DEF IInv, TypeOK
<1>5. EdgesResolve'
  BY <1>2 DEF IInv, EdgesResolve
<1>6. RequestsSound'
  BY <1>1, <1>2 DEF IInv, RequestsSound
<1> QED BY <1>4, <1>5, <1>6 DEF IInv

LEMMA RefusedAtOnce ==
  ASSUME IInv, NEW op \in Operations, NEW s \in Services, NEW status \in Statuses,
         RefuseAtOnce(op, s, status)
  PROVE  IInv'
<1>1. reply' \subseteq Reply
  BY DEF RefuseAtOnce, Reply
<1>2. Existing' = Existing
  BY DEF RefuseAtOnce, Existing
<1> QED
  BY <1>1, <1>2
  DEF IInv, TypeOK, RefuseAtOnce, EdgesResolve, RequestsSound, RequestSound, EdgesValidated

LEMMA Answered ==
  ASSUME IInv, NEW r \in Requests, requests[r].pc # "idle",
         NEW status \in Statuses, Answer(r, status)
  PROVE  IInv'
<1>1. reply' \subseteq Reply
  BY RequestFacts DEF Answer, Reply, RequestSound
<1> QED BY <1>1, EmptyValuesTyped, RequestMoves DEF Answer

LEMMA Proceeded ==
  ASSUME IInv, NEW r \in Requests, NEW x \in Request, RequestSound(x, Existing), Proceed(r, x)
  PROVE  IInv'
<1>1. {} \subseteq Reply
  OBVIOUS
<1> QED BY <1>1, RequestMoves DEF Proceed

(* A commit that writes an existing row with resolvable edges.               *)
LEMMA Committed ==
  ASSUME IInv, NEW r \in Requests, requests[r].pc = "commit",
         NEW row \in Row, NEW before \in Row, NEW after \in Row,
         Commit(r, row, before, after),
         row.state # "absent",
         row.edges \subseteq Existing \ {requests[r].service}
  PROVE  IInv'
<1> DEFINE s == requests[r].service
           q == [requests[r] EXCEPT !.pc = "answer"]
<1>1. requests[r] \in Request /\ RequestSound(requests[r], Existing) /\ s \in Services
  BY RequestFacts DEF RequestSound
<1>2. rows' = [rows EXCEPT ![s] = row] /\ rows' \in [Services -> Row] /\ rows'[s] = row
      /\ \A t \in Services \ {s} : rows'[t] = rows[t]
  BY <1>1 DEF Commit, IInv, TypeOK
<1>3. Existing \subseteq Existing'
  BY <1>2 DEF Existing
<1>4. q \in Request /\ q.pc = "answer" /\ q.op = requests[r].op /\ q.actor = requests[r].actor
      /\ q.service = requests[r].service /\ q.team = requests[r].team
  BY <1>1 DEF Request
<1>5. /\ requests' = [requests EXCEPT ![r] = q]
      /\ requests' \in [Requests -> Request] /\ requests'[r] = q
      /\ \A p \in Requests \ {r} : requests'[p] = requests[p]
  BY <1>4 DEF Commit, IInv, TypeOK
<1>6. TypeOK'
  <2>1. audit' \subseteq Entry
    BY <1>1 DEF Commit, Entry, RequestSound
  <2>2. reply' \subseteq Reply
    BY DEF Commit
  <2> QED BY <2>1, <2>2, <1>2, <1>5 DEF TypeOK
<1>7. EdgesResolve'
  BY <1>2, <1>3 DEF IInv, EdgesResolve
<1>8. RequestSound(q, Existing')
  BY <1>1, <1>3, <1>4 DEF RequestSound, EdgesValidated
<1>9. RequestsSound'
  <2> SUFFICES ASSUME NEW p \in Requests
               PROVE  requests'[p] = Idle \/ RequestSound(requests'[p], Existing')
    BY DEF RequestsSound
  <2>1. CASE p = r
    BY <2>1, <1>5, <1>8
  <2>2. CASE p # r
    <3>1. requests'[p] = requests[p] /\ (requests[p] = Idle \/ RequestSound(requests[p], Existing))
      BY <2>2, <1>5 DEF IInv, RequestsSound
    <3> QED BY <3>1, <1>3, RequestSurvives
  <2> QED BY <2>1, <2>2
<1> QED BY <1>6, <1>7, <1>9 DEF IInv
-----------------------------------------------------------------------------
(* One lemma per action that does more than answer.                          *)
LEMMA CreateReceiveSound ==
  ASSUME IInv, NEW r \in Requests, NEW a \in Actors, NEW s \in Services,
         NEW team \in Teams, NEW edges \in SUBSET Services,
         CreateReceive(r, a, s, team, edges)
  PROVE  IInv'
<1> DEFINE x == [Idle EXCEPT !.pc = "references", !.op = "create", !.actor = a,
                             !.service = s, !.team = team, !.edges = edges]
<1>1. x \in Request
  BY EmptyValuesTyped DEF Request, Operations
<1>2. RequestSound(x, Existing)
  BY DEF RequestSound, EdgesValidated, Idle, Operations
<1>3. CASE Proceed(r, x)
  BY <1>1, <1>2, <1>3, Proceeded
<1>4. CASE RefuseAtOnce("create", s, "forbidden")
  BY <1>4, RefusedAtOnce DEF Operations, Statuses
<1> QED BY <1>3, <1>4 DEF CreateReceive

LEMMA UpdateLoadSound ==
  ASSUME IInv, NEW r \in Requests, NEW a \in Actors, NEW s \in Services,
         NEW team \in Teams, NEW edges \in SUBSET Services,
         UpdateLoad(r, a, s, team, edges)
  PROVE  IInv'
<1> DEFINE refusal == UpdateRefusal(a, s, team)
           x == [pc |-> "references", op |-> "update", actor |-> a,
                 service |-> s, team |-> team, edges |-> edges, row |-> rows[s]]
<1>1. CASE refusal # "none" /\ RefuseAtOnce("update", s, refusal)
  <2>1. refusal \in Statuses
    BY <1>1 DEF UpdateRefusal, Statuses
  <2> QED BY <1>1, <2>1, RefusedAtOnce DEF Operations
<1>2. CASE refusal = "none" /\ Proceed(r, x)
  <2>1. s \in Existing
    BY <1>2 DEF UpdateRefusal, Existing
  <2>2. x \in Request
    BY DEF Request, Operations, IInv, TypeOK
  <2>3. RequestSound(x, Existing)
    BY <2>1 DEF RequestSound, EdgesValidated, Operations
  <2> QED BY <1>2, <2>2, <2>3, Proceeded
<1> QED BY <1>1, <1>2 DEF UpdateLoad

LEMMA DeactivateLoadSound ==
  ASSUME IInv, NEW r \in Requests, NEW a \in Actors, NEW s \in Services,
         DeactivateLoad(r, a, s)
  PROVE  IInv'
<1> DEFINE refusal == DeactivateRefusal(a, s)
           x == [Idle EXCEPT !.pc = "commit", !.op = "deactivate", !.actor = a,
                             !.service = s, !.row = rows[s]]
<1>1. CASE refusal # "none" /\ RefuseAtOnce("deactivate", s, refusal)
  <2>1. refusal \in Statuses
    BY <1>1 DEF DeactivateRefusal, Statuses
  <2> QED BY <1>1, <2>1, RefusedAtOnce DEF Operations
<1>2. CASE refusal = "none" /\ Proceed(r, x)
  <2>1. s \in Existing
    BY <1>2 DEF DeactivateRefusal, Existing
  <2>2. x \in Request
    BY EmptyValuesTyped DEF Request, Operations, IInv, TypeOK
  <2>3. RequestSound(x, Existing)
    BY <2>1 DEF RequestSound, EdgesValidated, Operations, Idle
  <2> QED BY <1>2, <2>2, <2>3, Proceeded
<1>3. CASE RefuseAtOnce("deactivate", s, "not found")
  BY <1>3, RefusedAtOnce DEF Operations, Statuses
<1> QED BY <1>1, <1>2, <1>3 DEF DeactivateLoad

LEMMA CheckReferencesSound ==
  ASSUME IInv, NEW r \in Requests, CheckReferences(r)
  PROVE  IInv'
<1> DEFINE self == IF requests[r].op = "create" THEN NoService ELSE requests[r].service
           refusals == ReferenceRefusals(self, requests[r].edges)
           x == [requests[r] EXCEPT !.pc = "graph"]
<1>1. requests[r].pc = "references" /\ requests[r] \in Request
      /\ RequestSound(requests[r], Existing)
  BY RequestFacts DEF CheckReferences
<1>2. refusals \subseteq Statuses /\ "not found" \in Statuses /\ "invalid reference" \in Statuses
  BY DEF ReferenceRefusals, Statuses
<1>3. CASE \E status \in Statuses : Answer(r, status)
  BY <1>1, <1>3, Answered
<1>4. CASE refusals = {} /\ Proceed(r, x)
  <2>1. self \notin requests[r].edges /\ requests[r].edges \subseteq Existing
    <3>1. /\ self \in requests[r].edges <=> "self dependency" \in refusals
          /\ ~(requests[r].edges \subseteq Existing) <=> "invalid reference" \in refusals
      BY DEF ReferenceRefusals
    <3> HIDE DEF refusals, self
    <3> QED BY <1>4, <3>1
  <2>2. /\ x \in Request /\ x.op = requests[r].op /\ x.actor = requests[r].actor
        /\ x.service = requests[r].service /\ x.edges = requests[r].edges
    BY <1>1 DEF Request
  <2>3. RequestSound(x, Existing)
    BY <1>1, <2>1, <2>2 DEF RequestSound, EdgesValidated
  <2> QED BY <1>4, <2>2, <2>3, Proceeded
<1> QED BY <1>2, <1>3, <1>4 DEF CheckReferences

LEMMA CheckGraphSound ==
  ASSUME IInv, NEW r \in Requests, CheckGraph(r)
  PROVE  IInv'
<1> DEFINE x == [requests[r] EXCEPT !.pc = "commit"]
<1>1. requests[r].pc = "graph" /\ requests[r] \in Request
      /\ RequestSound(requests[r], Existing)
  BY RequestFacts DEF CheckGraph
<1>2. CASE Answer(r, "cyclic")
  BY <1>1, <1>2, Answered DEF Statuses
<1>3. CASE Proceed(r, x)
  <2>1. /\ x \in Request /\ x.op = requests[r].op /\ x.actor = requests[r].actor
        /\ x.service = requests[r].service /\ x.edges = requests[r].edges
    BY <1>1 DEF Request
  <2>2. RequestSound(x, Existing)
    BY <1>1, <2>1 DEF RequestSound, EdgesValidated
  <2> QED BY <1>3, <2>1, <2>2, Proceeded
<1> QED BY <1>2, <1>3 DEF CheckGraph

LEMMA CreateCommitSound ==
  ASSUME IInv, NEW r \in Requests, CreateCommit(r)
  PROVE  IInv'
<1> DEFINE new == [state |-> "active", team |-> requests[r].team, edges |-> requests[r].edges]
<1>1. requests[r].pc = "commit" /\ requests[r].op = "create"
      /\ requests[r] \in Request /\ RequestSound(requests[r], Existing)
  BY RequestFacts DEF CreateCommit
<1>2. new \in Row
  BY <1>1 DEF Request, Row
<1>3. new.edges \subseteq Existing \ {requests[r].service}
  BY <1>1 DEF CreateCommit, RequestSound, EdgesValidated
<1>4. Commit(r, new, AbsentRow, new)
  BY DEF CreateCommit
<1> QED BY <1>1, <1>2, <1>3, <1>4, EmptyValuesTyped, Committed

LEMMA UpdateCommitSound ==
  ASSUME IInv, NEW r \in Requests, UpdateCommit(r)
  PROVE  IInv'
<1> DEFINE s == requests[r].service
           new == Updated(r, rows[s])
<1>1. requests[r].pc = "commit" /\ requests[r].op = "update" /\ s \in Services
      /\ requests[r] \in Request /\ RequestSound(requests[r], Existing)
  BY RequestFacts DEF UpdateCommit, RequestSound
<1>2. rows[s] \in Row /\ rows[s].state # "absent"
  BY <1>1 DEF IInv, TypeOK, RequestSound, Existing
<1>3. \A row \in Row : /\ Updated(r, row) \in Row /\ Updated(r, row).state = row.state
                       /\ Updated(r, row).edges = requests[r].edges
  BY <1>1 DEF Updated, Request, Row
<1>4. new.edges \subseteq Existing \ {s}
  BY <1>1, <1>2, <1>3 DEF RequestSound, EdgesValidated
<1>5. requests[r].row \in Row
  BY <1>1 DEF Request
<1>6. Commit(r, new, requests[r].row, Updated(r, requests[r].row))
  BY DEF UpdateCommit
<1>7. new \in Row /\ new.state # "absent" /\ Updated(r, requests[r].row) \in Row
  BY <1>2, <1>3, <1>5
<1> HIDE DEF new
<1> QED BY <1>1, <1>4, <1>5, <1>6, <1>7, Committed

LEMMA DeactivateCommitSound ==
  ASSUME IInv, NEW r \in Requests, DeactivateCommit(r)
  PROVE  IInv'
<1> DEFINE s == requests[r].service
           new == Deactivated(rows[s])
<1>1. requests[r].pc = "commit" /\ s \in Services
      /\ requests[r] \in Request /\ RequestSound(requests[r], Existing)
  BY RequestFacts DEF DeactivateCommit, RequestSound
<1>2. rows[s] \in Row /\ rows[s].edges \subseteq Existing \ {s}
  BY <1>1 DEF IInv, TypeOK, EdgesResolve
<1>3. \A row \in Row : /\ Deactivated(row) \in Row /\ Deactivated(row).state = "inactive"
                       /\ Deactivated(row).edges = row.edges
  BY DEF Deactivated, Row
<1>4. requests[r].row \in Row
  BY <1>1 DEF Request
<1>5. Commit(r, new, requests[r].row, Deactivated(requests[r].row))
  BY DEF DeactivateCommit
<1>6. new \in Row /\ new.state # "absent" /\ Deactivated(requests[r].row) \in Row
      /\ new.edges \subseteq Existing \ {s}
  BY <1>2, <1>3, <1>4
<1> HIDE DEF new
<1> QED BY <1>1, <1>4, <1>5, <1>6, Committed

LEMMA CrashSound == IInv /\ Crash => IInv'
<1> SUFFICES ASSUME IInv, Crash PROVE IInv'
  OBVIOUS
<1>1. Existing' = Existing
  BY DEF Crash, Existing
<1>2. requests' \in [Requests -> Request] /\ \A r \in Requests : requests'[r] = Idle
  BY EmptyValuesTyped DEF Crash
<1> QED BY <1>1, <1>2 DEF IInv, TypeOK, Crash, EdgesResolve, RequestsSound

LEMMA InitSound == Init => IInv
<1> SUFFICES ASSUME Init PROVE IInv
  OBVIOUS
<1> QED
  BY EmptyValuesTyped DEF Init, IInv, TypeOK, EdgesResolve, RequestsSound, AbsentRow

LEMMA StepSound == IInv /\ [Next]_vars => IInv'
<1> SUFFICES ASSUME IInv, [Next]_vars PROVE IInv'
  OBVIOUS
<1>1. ASSUME NEW r \in Requests, Receive(r) PROVE IInv'
  BY <1>1, CreateReceiveSound, UpdateLoadSound, DeactivateLoadSound DEF Receive
<1>2. ASSUME NEW r \in Requests, NEW status \in Statuses,
             requests[r].pc # "idle", Answer(r, status)
      PROVE  IInv'
  BY <1>2, Answered
<1>3. ASSUME NEW r \in Requests, Handle(r) PROVE IInv'
  <2>1. CASE CreateDuplicate(r)
    BY <2>1, <1>2 DEF CreateDuplicate, Statuses
  <2>2. CASE DeactivateLost(r)
    BY <2>2, <1>2 DEF DeactivateLost, Statuses
  <2>3. CASE AnswerCommitted(r)
    BY <2>3, <1>2 DEF AnswerCommitted, Statuses
  <2> QED
    BY <1>3, <2>1, <2>2, <2>3, CheckReferencesSound, CheckGraphSound, CreateCommitSound,
       UpdateCommitSound, DeactivateCommitSound
    DEF Handle
<1>4. ASSUME NEW r \in Requests, StoreFails(r) PROVE IInv'
  BY <1>4, <1>2 DEF StoreFails, Statuses
<1>5. CASE Crash
  BY <1>5, CrashSound
<1>6. CASE UNCHANGED vars
  <2>1. Existing' = Existing
    BY <1>6 DEF vars, Existing
  <2> QED BY <1>6, <2>1 DEF vars, IInv, TypeOK, EdgesResolve, RequestsSound
<1> QED BY <1>1, <1>3, <1>4, <1>5, <1>6 DEF Next

(* The inductive invariant.                                                  *)
THEOREM Invariant == Spec => []IInv
BY InitSound, StepSound, PTL DEF Spec

(* Every reachable state is well typed.                                      *)
THEOREM TypeCorrect == Spec => []TypeOK
<1>1. IInv => TypeOK
  BY DEF IInv
<1> QED BY <1>1, Invariant, PTL

(* Every dependency names another existing service, for any number of        *)
(* concurrent requests and with graph reads that fail unnoticed.             *)
THEOREM EdgesAlways == Spec => []EdgesResolve
<1>1. IInv => EdgesResolve
  BY DEF IInv
<1> QED BY <1>1, Invariant, PTL
-----------------------------------------------------------------------------
(* What the three commits do to the table and to the audit log; every other  *)
(* step leaves the table alone and appends nothing.                          *)
Commits(r) == CreateCommit(r) \/ UpdateCommit(r) \/ DeactivateCommit(r)

LEMMA OnlyCommitsWrite ==
  ASSUME [Next]_vars, ~\E r \in Requests : Commits(r)
  PROVE  rows' = rows /\ (audit' = {} \/ UNCHANGED vars)
<1>1. ASSUME NEW r \in Requests, NEW status, Answer(r, status)
      PROVE  rows' = rows /\ audit' = {}
  BY <1>1 DEF Answer
<1>2. ASSUME NEW r \in Requests, NEW x, Proceed(r, x) PROVE rows' = rows /\ audit' = {}
  BY <1>2 DEF Proceed
<1>3. ASSUME NEW op, NEW s, NEW status, RefuseAtOnce(op, s, status)
      PROVE  rows' = rows /\ audit' = {}
  BY <1>3 DEF RefuseAtOnce
<1>4. ASSUME NEW r \in Requests, Receive(r) PROVE rows' = rows /\ audit' = {}
  <2>1. ASSUME NEW a, NEW s, NEW team, NEW edges, CreateReceive(r, a, s, team, edges)
        PROVE  rows' = rows /\ audit' = {}
    BY <2>1, <1>2, <1>3 DEF CreateReceive
  <2>2. ASSUME NEW a, NEW s, NEW team, NEW edges, UpdateLoad(r, a, s, team, edges)
        PROVE  rows' = rows /\ audit' = {}
    BY <2>2, <1>2, <1>3 DEF UpdateLoad
  <2>3. ASSUME NEW a, NEW s, DeactivateLoad(r, a, s) PROVE rows' = rows /\ audit' = {}
    BY <2>3, <1>2, <1>3 DEF DeactivateLoad
  <2> QED BY <1>4, <2>1, <2>2, <2>3 DEF Receive
<1>5. ASSUME NEW r \in Requests, Handle(r) PROVE rows' = rows /\ audit' = {}
  <2>1. CASE CheckReferences(r)
    BY <2>1, <1>1, <1>2 DEF CheckReferences
  <2>2. CASE CheckGraph(r)
    BY <2>2, <1>1, <1>2 DEF CheckGraph
  <2>3. CASE CreateDuplicate(r) \/ DeactivateLost(r) \/ AnswerCommitted(r)
    BY <2>3, <1>1 DEF CreateDuplicate, DeactivateLost, AnswerCommitted
  <2> QED BY <1>5, <2>1, <2>2, <2>3 DEF Handle, Commits
<1>6. ASSUME NEW r \in Requests, StoreFails(r) PROVE rows' = rows /\ audit' = {}
  BY <1>6, <1>1 DEF StoreFails
<1>7. CASE Crash
  BY <1>7 DEF Crash
<1>8. CASE UNCHANGED vars
  BY <1>8 DEF vars
<1> QED BY <1>4, <1>5, <1>6, <1>7, <1>8 DEF Next

LEMMA CommitEffect ==
  ASSUME IInv, NEW r \in Requests, Commits(r)
  PROVE  LET s == requests[r].service IN
         /\ s \in Services
         /\ \A t \in Services \ {s} : rows'[t] = rows[t]
         /\ \/ /\ CreateCommit(r) /\ rows[s].state = "absent"
               /\ \A e \in audit' : e.action = "create"
            \/ /\ UpdateCommit(r) /\ rows'[s].state = rows[s].state
               /\ \A e \in audit' : e.action = "update"
            \/ /\ DeactivateCommit(r)
               /\ rows[s].state = "active" /\ rows'[s].state = "inactive"
               /\ \A e \in audit' : e.action = "deactivate" /\ e.service = s
<1> DEFINE s == requests[r].service
<1>1. requests[r].pc = "commit"
  BY DEF Commits, CreateCommit, UpdateCommit, DeactivateCommit
<1>2. s \in Services /\ rows \in [Services -> Row]
  BY <1>1, RequestFacts DEF RequestSound, IInv, TypeOK
<1>3. CASE CreateCommit(r)
  BY <1>2, <1>3 DEF CreateCommit, Commit, Existing
<1>4. CASE UpdateCommit(r)
  <2>1. \A row \in Row : Updated(r, row).state = row.state
    BY DEF Updated, Row
  <2>2. rows' = [rows EXCEPT ![s] = Updated(r, rows[s])]
    BY <1>4 DEF UpdateCommit, Commit
  <2>3. \A e \in audit' : e.action = "update"
    BY <1>4 DEF UpdateCommit, Commit
  <2> QED BY <1>2, <1>4, <2>1, <2>2, <2>3
<1>5. CASE DeactivateCommit(r)
  <2>1. \A row \in Row : Deactivated(row).state = "inactive"
    BY DEF Deactivated, Row
  <2>2. rows' = [rows EXCEPT ![s] = Deactivated(rows[s])] /\ rows[s].state = "active"
    BY <1>5 DEF DeactivateCommit, Commit, StillActive
  <2>3. \A e \in audit' : e.action = "deactivate" /\ e.service = s
    BY <1>5 DEF DeactivateCommit, Commit
  <2> QED BY <1>2, <1>5, <2>1, <2>2, <2>3
<1> QED BY <1>3, <1>4, <1>5 DEF Commits

(* No interleaving of updates and deactivations brings a service back.       *)
THEOREM DeactivationAlwaysFinal == Spec => DeactivationFinal
<1>1. IInv /\ [Next]_vars =>
        \A s \in Services : rows[s].state = "inactive" => rows'[s].state = "inactive"
  <2> SUFFICES ASSUME IInv, [Next]_vars, NEW s \in Services, rows[s].state = "inactive"
               PROVE  rows'[s].state = "inactive"
    OBVIOUS
  <2>1. CASE \E r \in Requests : Commits(r)
    BY <2>1, CommitEffect
  <2>2. CASE ~\E r \in Requests : Commits(r)
    BY <2>2, OnlyCommitsWrite
  <2> QED BY <2>1, <2>2
<1> QED BY <1>1, Invariant, PTL DEF Spec, DeactivationFinal

(* However many requests found a service active, one of them deactivates it, *)
(* and only that one is audited.                                             *)
THEOREM DeactivatedOnceAlways == Spec => DeactivatedOnce
<1>1. IInv /\ [Next]_vars =>
        [\A e \in audit' : e.action = "deactivate" =>
           rows[e.service].state = "active" /\ rows'[e.service].state = "inactive"]_vars
  <2> SUFFICES ASSUME IInv, [Next]_vars, vars' # vars,
                      NEW e \in audit', e.action = "deactivate"
               PROVE  rows[e.service].state = "active" /\ rows'[e.service].state = "inactive"
    OBVIOUS
  <2>1. CASE \E r \in Requests : Commits(r)
    BY <2>1, CommitEffect
  <2>2. CASE ~\E r \in Requests : Commits(r)
    BY <2>2, OnlyCommitsWrite
  <2> QED BY <2>1, <2>2
<1> QED BY <1>1, Invariant, PTL DEF Spec, DeactivatedOnce
-----------------------------------------------------------------------------
(* What the registry keeps when its requests run one at a time and every     *)
(* read succeeds: the dependency graph stays free of cycles and nobody       *)
(* changes another team's service.  The strengthening is what the code       *)
(* relies on: what a request checked is still so when it commits.            *)
(*                                                                           *)
(* What a request has checked about the table as it is now.                  *)
GraphChecked(q, graph) ==
  q.pc = "commit" =>
    /\ q.op = "create" => ~ContainsCycle(Extended(graph, q.edges))
    /\ q.op = "update" => ~ContainsCycle(Replaced(graph, q.service, q.edges))

OwnershipChecked(q, table) ==
  q.pc \in {"references", "graph", "commit"} /\ q.op \in {"update", "deactivate"} =>
    Owns(q.actor, table[q.service].team)

ChecksHold ==
  \A r \in Requests : GraphChecked(requests[r], Graph) /\ OwnershipChecked(requests[r], rows)

SerialInv == OneAtATime /\ IInv /\ Acyclic /\ ChecksHold
-----------------------------------------------------------------------------
(* The graph once a new service has joined it under its own id.              *)
Joined(graph, s, edges) ==
  [n \in DOMAIN graph \cup {s} |-> IF n = s THEN edges ELSE graph[n]]

(* A new service closes no cycle: nobody depends on it yet.                  *)
LEMMA ExtensionAcyclic ==
  ASSUME NEW graph, NEW s \in Services, NEW edges \in SUBSET DOMAIN graph,
         s \notin DOMAIN graph, NoService \notin DOMAIN graph,
         \A n \in DOMAIN graph : graph[n] \subseteq DOMAIN graph,
         ~ContainsCycle(Extended(graph, edges))
  PROVE  ~ContainsCycle(Joined(graph, s, edges))
<1> DEFINE h == Joined(graph, s, edges)
           x == Extended(graph, edges)
<1>1. DOMAIN x = DOMAIN graph \cup {NoService}
      /\ \A n \in DOMAIN graph : x[n] = graph[n]
  BY DEF Extended
<1>2. ASSUME NEW loop \in SUBSET DOMAIN h, loop # {}, \A n \in loop : h[n] \cap loop # {}
      PROVE  FALSE
  <2> DEFINE rest == loop \ {s}
  <2>0. /\ \A n \in DOMAIN graph : h[n] = graph[n] /\ s \notin h[n]
        /\ h[s] = edges /\ s \notin edges
        /\ DOMAIN h = DOMAIN graph \cup {s}
    BY DEF Joined
  <2> HIDE DEF h, x
  <2>1. rest # {}
    <3>1. s \in loop => h[s] \cap loop # {}
      BY <1>2
    <3>2. PICK n \in loop : TRUE
      BY <1>2
    <3> QED BY <2>0, <3>1, <3>2
  <2>2. \A n \in rest : x[n] \cap rest # {}
    <3> SUFFICES ASSUME NEW n \in rest PROVE x[n] \cap rest # {}
      OBVIOUS
    <3>1. n \in DOMAIN graph
      BY <2>0
    <3>2. h[n] \cap loop # {}
      BY <1>2
    <3> QED BY <1>1, <2>0, <3>1, <3>2
  <2>3. rest \in SUBSET DOMAIN x
    BY <1>1, <2>0
  <2> QED BY <2>1, <2>2, <2>3 DEF ContainsCycle, HasLoop, x
<1>3. \A n \in DOMAIN h : h[n] \subseteq DOMAIN h
  BY DEF Joined
<1> QED BY <1>2, <1>3 DEF ContainsCycle, Dangling, HasLoop

(* A step that leaves the table alone and puts the request into a position   *)
(* whose checks hold.                                                        *)
LEMMA SerialMoves ==
  ASSUME SerialInv, IInv', NEW r \in Requests, NEW x \in Request,
         rows' = rows, requests' = [requests EXCEPT ![r] = x],
         GraphChecked(x, Graph), OwnershipChecked(x, rows)
  PROVE  SerialInv'
<1>1. Existing' = Existing
  BY DEF Existing
<1>2. Graph' = Graph
  BY <1>1 DEF Graph
<1>3. \A q \in Requests : requests'[q] = x
  BY DEF SerialInv, OneAtATime, IInv, TypeOK
<1>4. ChecksHold'
  BY <1>2, <1>3 DEF ChecksHold
<1> QED BY <1>2, <1>4 DEF SerialInv, OneAtATime, Acyclic

LEMMA SerialAnswered ==
  ASSUME SerialInv, IInv', NEW r \in Requests, NEW status, Answer(r, status)
  PROVE  SerialInv'
<1>1. GraphChecked(Idle, Graph) /\ OwnershipChecked(Idle, rows)
  BY DEF Idle, GraphChecked, OwnershipChecked
<1> QED BY <1>1, SerialMoves, EmptyValuesTyped DEF Answer

LEMMA SerialUntouched ==
  ASSUME SerialInv, IInv', rows' = rows, requests' = requests
  PROVE  SerialInv'
<1>1. Existing' = Existing
  BY DEF Existing
<1>2. Graph' = Graph
  BY <1>1 DEF Graph
<1> QED BY <1>2 DEF SerialInv, OneAtATime, Acyclic, ChecksHold

LEMMA SerialReceive ==
  ASSUME SerialInv, IInv', NEW r \in Requests, Receive(r)
  PROVE  SerialInv'
<1> USE SerialUntouched DEF RefuseAtOnce, Proceed
<1>1. ASSUME NEW a \in Actors, NEW s \in Services, NEW team \in Teams,
             NEW edges \in SUBSET Services, CreateReceive(r, a, s, team, edges)
      PROVE  SerialInv'
  <2> DEFINE x == [Idle EXCEPT !.pc = "references", !.op = "create", !.actor = a,
                               !.service = s, !.team = team, !.edges = edges]
  <2>1. x \in Request
    BY EmptyValuesTyped DEF Request, Operations
  <2>2. GraphChecked(x, Graph) /\ OwnershipChecked(x, rows)
    BY DEF Idle, GraphChecked, OwnershipChecked
  <2>3. CASE Proceed(r, x)
    BY <2>1, <2>2, <2>3, SerialMoves
  <2>4. CASE RefuseAtOnce("create", s, "forbidden")
    BY <2>4
  <2> QED BY <1>1, <2>3, <2>4 DEF CreateReceive
<1>2. ASSUME NEW a \in Actors, NEW s \in Services, NEW team \in Teams,
             NEW edges \in SUBSET Services, UpdateLoad(r, a, s, team, edges)
      PROVE  SerialInv'
  <2> DEFINE x == [pc |-> "references", op |-> "update", actor |-> a,
                   service |-> s, team |-> team, edges |-> edges, row |-> rows[s]]
  <2>1. CASE UpdateRefusal(a, s, team) = "none" /\ Proceed(r, x)
    <3>1. x \in Request
      BY DEF Request, Operations, SerialInv, IInv, TypeOK
    <3>2. Owns(a, rows[s].team)
      BY <2>1 DEF UpdateRefusal
    <3>3. GraphChecked(x, Graph) /\ OwnershipChecked(x, rows)
      BY <3>2 DEF GraphChecked, OwnershipChecked
    <3> QED BY <2>1, <3>1, <3>3, SerialMoves
  <2>2. CASE RefuseAtOnce("update", s, UpdateRefusal(a, s, team))
    BY <2>2
  <2> QED BY <1>2, <2>1, <2>2 DEF UpdateLoad
<1>3. ASSUME NEW a \in Actors, NEW s \in Services, DeactivateLoad(r, a, s)
      PROVE  SerialInv'
  <2> DEFINE x == [Idle EXCEPT !.pc = "commit", !.op = "deactivate", !.actor = a,
                               !.service = s, !.row = rows[s]]
  <2>1. CASE DeactivateRefusal(a, s) = "none" /\ Proceed(r, x)
    <3>1. x \in Request
      BY EmptyValuesTyped DEF Request, Operations, SerialInv, IInv, TypeOK
    <3>2. Owns(a, rows[s].team)
      BY <2>1 DEF DeactivateRefusal
    <3>3. GraphChecked(x, Graph) /\ OwnershipChecked(x, rows)
      BY <3>2 DEF GraphChecked, OwnershipChecked, Idle
    <3> QED BY <2>1, <3>1, <3>3, SerialMoves
  <2>2. CASE \E status : RefuseAtOnce("deactivate", s, status)
    BY <2>2
  <2> QED BY <1>3, <2>1, <2>2 DEF DeactivateLoad
<1> QED BY <1>1, <1>2, <1>3 DEF Receive

LEMMA SerialChecks ==
  ASSUME SerialInv, IInv', NEW r \in Requests, CheckReferences(r) \/ CheckGraph(r)
  PROVE  SerialInv'
<1>0. requests[r] \in Request /\ OwnershipChecked(requests[r], rows)
  BY DEF SerialInv, IInv, TypeOK, ChecksHold
<1>1. CASE CheckReferences(r)
  <2> DEFINE x == [requests[r] EXCEPT !.pc = "graph"]
  <2>1. CASE Proceed(r, x)
    <3>1. x \in Request /\ GraphChecked(x, Graph)
      BY <1>0 DEF Request, GraphChecked
    <3>2. OwnershipChecked(x, rows)
      BY <1>0, <1>1 DEF CheckReferences, Request, OwnershipChecked
    <3> QED BY <2>1, <3>1, <3>2, SerialMoves DEF Proceed
  <2> QED BY <1>1, <2>1, SerialAnswered DEF CheckReferences
<1>2. CASE CheckGraph(r)
  <2> DEFINE x == [requests[r] EXCEPT !.pc = "commit"]
             q == requests[r]
             candidate == IF q.op = "create" THEN Extended(Graph, q.edges)
                          ELSE Replaced(Graph, q.service, q.edges)
  <2>1. Readings = {Graph}
    BY DEF Readings, SerialInv, OneAtATime
  <2>2. Answer(r, "cyclic") \/ (~ContainsCycle(candidate) /\ Proceed(r, x))
    BY <1>2, <2>1 DEF CheckGraph
  <2>3. CASE ~ContainsCycle(candidate) /\ Proceed(r, x)
    <3>1. x \in Request /\ x.op = q.op /\ x.edges = q.edges /\ x.service = q.service
          /\ x.actor = q.actor
      BY <1>0 DEF Request
    <3>2. GraphChecked(x, Graph)
      BY <2>3, <3>1 DEF GraphChecked
    <3>3. OwnershipChecked(x, rows)
      BY <1>0, <1>2, <3>1 DEF CheckGraph, OwnershipChecked
    <3> QED BY <2>3, <3>1, <3>2, <3>3, SerialMoves DEF Proceed
  <2> QED BY <2>2, <2>3, SerialAnswered
<1> QED BY <1>1, <1>2

(* A commit whose new graph is free of cycles.                               *)
LEMMA SerialCommitted ==
  ASSUME SerialInv, IInv', NEW r \in Requests,
         requests' = [requests EXCEPT ![r].pc = "answer"],
         ~ContainsCycle(Graph')
  PROVE  SerialInv'
<1>1. \A q \in Requests : requests'[q].pc = "answer"
  BY DEF SerialInv, OneAtATime, IInv, TypeOK, Request
<1> QED BY <1>1 DEF SerialInv, OneAtATime, Acyclic, ChecksHold, GraphChecked, OwnershipChecked

LEMMA SerialCommit ==
  ASSUME SerialInv, IInv', NEW r \in Requests, Commits(r)
  PROVE  SerialInv'
<1> DEFINE s == requests[r].service
           q == requests[r]
<1>1. q.pc = "commit" /\ requests' = [requests EXCEPT ![r].pc = "answer"]
  BY DEF Commits, CreateCommit, UpdateCommit, DeactivateCommit, Commit
<1>2. /\ IInv /\ q \in Request /\ RequestSound(q, Existing) /\ s \in Services
      /\ GraphChecked(q, Graph) /\ rows \in [Services -> Row]
  BY <1>1, RequestFacts DEF SerialInv, ChecksHold, RequestSound, IInv, TypeOK
<1>3. DOMAIN Graph = Existing /\ \A n \in Existing : Graph[n] = rows[n].edges
  BY DEF Graph
<1>4. CASE CreateCommit(r)
  <2> DEFINE new == [state |-> "active", team |-> q.team, edges |-> q.edges]
             h == Joined(Graph, s, q.edges)
  <2>1. s \notin Existing /\ rows' = [rows EXCEPT ![s] = new] /\ q.op = "create"
    BY <1>4 DEF CreateCommit, Commit
  <2>2. q.edges \subseteq Existing /\ ~ContainsCycle(Extended(Graph, q.edges))
    BY <1>1, <1>2, <2>1 DEF RequestSound, EdgesValidated, GraphChecked
  <2>3. Existing' = Existing \cup {s}
    BY <1>2, <2>1 DEF Existing
  <2>4. Graph' = h
    BY <1>2, <1>3, <2>1, <2>3 DEF Graph, Existing, Joined
  <2>5. \A n \in DOMAIN Graph : Graph[n] \subseteq DOMAIN Graph
    BY <1>2, <1>3 DEF IInv, EdgesResolve, Existing
  <2>6. NoService \notin DOMAIN Graph
    BY <1>3, SentinelAssumption DEF Existing
  <2>7. ~ContainsCycle(h)
    <3>1. q.edges \in SUBSET DOMAIN Graph /\ s \notin DOMAIN Graph
      BY <1>3, <2>1, <2>2
    <3> QED BY <1>2, <2>2, <2>5, <2>6, <3>1, ExtensionAcyclic
  <2> HIDE DEF h
  <2> QED BY <1>1, <2>4, <2>7, SerialCommitted
<1>5. CASE UpdateCommit(r)
  <2>1. rows' = [rows EXCEPT ![s] = Updated(r, rows[s])] /\ q.op = "update"
    BY <1>5 DEF UpdateCommit, Commit
  <2>2. rows[s] \in Row
    BY <1>2
  <2>3. Updated(r, rows[s]).state = rows[s].state /\ Updated(r, rows[s]).edges = q.edges
    BY <2>2 DEF Updated, Row
  <2>4. Existing' = Existing
    BY <1>2, <2>1, <2>3 DEF Existing
  <2>5. \A n \in Existing : rows'[n].edges = IF n = s THEN q.edges ELSE Graph[n]
    BY <1>2, <1>3, <2>1, <2>3 DEF Existing
  <2>6. Graph' = Replaced(Graph, s, q.edges)
    BY <1>3, <2>4, <2>5 DEF Graph, Replaced
  <2>7. ~ContainsCycle(Replaced(Graph, s, q.edges))
    BY <1>1, <1>2, <2>1 DEF GraphChecked
  <2> QED BY <1>1, <2>6, <2>7, SerialCommitted
<1>6. CASE DeactivateCommit(r)
  <2>1. rows' = [rows EXCEPT ![s] = Deactivated(rows[s])] /\ rows[s].state = "active"
    BY <1>6 DEF DeactivateCommit, Commit, StillActive
  <2>2. rows[s] \in Row
    BY <1>2
  <2>3. Deactivated(rows[s]).state = "inactive" /\ Deactivated(rows[s]).edges = rows[s].edges
    BY <2>2 DEF Deactivated, Row
  <2>4. Existing' = Existing /\ \A n \in Existing : rows'[n].edges = rows[n].edges
    BY <1>2, <2>1, <2>3 DEF Existing
  <2>5. Graph' = Graph
    BY <2>4 DEF Graph
  <2> QED BY <1>1, <2>5, SerialCommitted DEF SerialInv, Acyclic
<1> QED BY <1>4, <1>5, <1>6 DEF Commits

LEMMA SerialInit == OneAtATime /\ Init => SerialInv
<1> SUFFICES ASSUME OneAtATime, Init PROVE SerialInv
  OBVIOUS
<1>1. Existing = {}
  BY DEF Init, Existing, AbsentRow
<1>2. Acyclic
  BY <1>1 DEF Acyclic, ContainsCycle, Dangling, HasLoop, Graph
<1>3. ChecksHold
  BY DEF Init, ChecksHold, GraphChecked, OwnershipChecked, Idle
<1> QED BY <1>2, <1>3, InitSound DEF SerialInv

LEMMA SerialStep == SerialInv /\ [Next]_vars => SerialInv'
<1> SUFFICES ASSUME SerialInv, [Next]_vars PROVE SerialInv'
  OBVIOUS
<1>0. IInv'
  BY StepSound DEF SerialInv
<1>1. ASSUME NEW r \in Requests, Handle(r) PROVE SerialInv'
  <2>1. CASE CreateDuplicate(r) \/ DeactivateLost(r) \/ AnswerCommitted(r)
    BY <2>1, <1>0, SerialAnswered DEF CreateDuplicate, DeactivateLost, AnswerCommitted
  <2> QED BY <1>0, <1>1, <2>1, SerialChecks, SerialCommit DEF Handle, Commits
<1>2. ASSUME NEW r \in Requests, StoreFails(r) PROVE SerialInv'
  BY <1>0, <1>2, SerialAnswered DEF StoreFails
<1>3. CASE Crash
  <2>1. PICK r \in Requests : requests[r].pc # "idle"
    BY <1>3 DEF Crash
  <2>2. requests' = [requests EXCEPT ![r] = Idle]
    BY <1>3 DEF Crash, SerialInv, OneAtATime, IInv, TypeOK
  <2>3. GraphChecked(Idle, Graph) /\ OwnershipChecked(Idle, rows)
    BY DEF Idle, GraphChecked, OwnershipChecked
  <2> QED BY <1>0, <1>3, <2>2, <2>3, SerialMoves, EmptyValuesTyped DEF Crash
<1>4. CASE UNCHANGED vars
  BY <1>0, <1>4, SerialUntouched DEF vars
<1> QED BY <1>0, <1>1, <1>2, <1>3, <1>4, SerialReceive DEF Next

(* With one request at a time and no failing read, no sequence of creates,   *)
(* updates and deactivations ever closes a cycle.                            *)
THEOREM SerialAcyclic == OneAtATime /\ Spec => []Acyclic
<1>1. SerialInv => Acyclic
  BY DEF SerialInv
<1> QED BY <1>1, SerialInit, SerialStep, PTL DEF Spec

(* With one request at a time, every change is made by the team that owns    *)
(* the service or by an administrator.                                       *)
THEOREM SerialOwnTeam == OneAtATime /\ Spec => OwnTeamOnly
<1>1. SerialInv /\ [Next]_vars =>
        [\A e \in audit' : e.action # "create" => Owns(e.actor, rows[e.service].team)]_vars
  <2> SUFFICES ASSUME SerialInv, [Next]_vars, vars' # vars,
                      NEW e \in audit', e.action # "create"
               PROVE  Owns(e.actor, rows[e.service].team)
    OBVIOUS
  <2>1. PICK r \in Requests : Commits(r)
    BY OnlyCommitsWrite DEF SerialInv
  <2>2. requests[r].pc = "commit" /\ e.action = requests[r].op
        /\ e.actor = requests[r].actor /\ e.service = requests[r].service
    BY <2>1 DEF Commits, CreateCommit, UpdateCommit, DeactivateCommit, Commit
  <2>3. requests[r].op \in {"update", "deactivate"}
    BY <2>1, <2>2 DEF Commits, CreateCommit, UpdateCommit, DeactivateCommit
  <2> QED BY <2>2, <2>3 DEF SerialInv, ChecksHold, OwnershipChecked
<1> QED BY <1>1, SerialInit, SerialStep, PTL DEF Spec, OwnTeamOnly
-----------------------------------------------------------------------------
(* The registry implements its promise.  Two more facts are needed of a      *)
(* request in flight: its user may write, and does not give a service away.  *)
RequestEntitled(q) ==
  q.pc # "idle" =>
    /\ HasPermission(RoleOf[q.actor], "dependency.write")
    /\ q.op \in {"create", "update"} => q.team \in Teams
    /\ q.op = "create" => Owns(q.actor, q.team)
    /\ q.op = "update" => KeepsTeam(q.actor, q.team)

RequestsEntitled == \A r \in Requests : RequestEntitled(requests[r])

(* One request takes an entitled position, the others stay.                  *)
LEMMA EntitledMoves ==
  ASSUME TypeOK, RequestsEntitled, NEW r \in Requests, NEW x,
         requests' = [requests EXCEPT ![r] = x], RequestEntitled(x)
  PROVE  RequestsEntitled'
BY DEF TypeOK, RequestsEntitled

(* A request that only goes on keeps what was known of it.                   *)
LEMMA EntitledProceeds ==
  ASSUME TypeOK, RequestsEntitled, NEW r \in Requests, requests[r].pc # "idle",
         NEW pc, requests' = [requests EXCEPT ![r].pc = pc]
  PROVE  RequestsEntitled'
<1> DEFINE q == requests[r]
           x == [q EXCEPT !.pc = pc]
<1>1. q \in Request /\ RequestEntitled(q) BY DEF TypeOK, RequestsEntitled
<1>2. x.actor = q.actor /\ x.op = q.op /\ x.team = q.team BY <1>1 DEF Request
<1>3. RequestEntitled(x) BY <1>1, <1>2 DEF RequestEntitled
<1>4. requests' = [requests EXCEPT ![r] = x] OBVIOUS
<1> HIDE DEF x
<1> QED BY <1>3, <1>4, EntitledMoves

LEMMA EntitledAnswered ==
  ASSUME TypeOK, RequestsEntitled, NEW r \in Requests, NEW status, Answer(r, status)
  PROVE  RequestsEntitled'
<1>1. RequestEntitled(Idle) BY DEF RequestEntitled, Idle
<1> QED BY <1>1, EntitledMoves DEF Answer

LEMMA EntitledReceive ==
  ASSUME TypeOK, RequestsEntitled, NEW r \in Requests, Receive(r)
  PROVE  RequestsEntitled'
<1>0. ASSUME NEW op, NEW s, NEW status, RefuseAtOnce(op, s, status) PROVE RequestsEntitled'
  BY <1>0 DEF RefuseAtOnce, RequestsEntitled
<1>1. ASSUME NEW a \in Actors, NEW s \in Services, NEW team \in Teams,
             NEW edges \in SUBSET Services, CreateReceive(r, a, s, team, edges)
      PROVE  RequestsEntitled'
  <2> DEFINE x == [Idle EXCEPT !.pc = "references", !.op = "create", !.actor = a,
                               !.service = s, !.team = team, !.edges = edges]
  <2>1. CASE HasPermission(RoleOf[a], "dependency.write") /\ Owns(a, team) /\ Proceed(r, x)
    <3>1. x.actor = a /\ x.op = "create" /\ x.team = team BY DEF Idle
    <3>2. RequestEntitled(x) BY <2>1, <3>1 DEF RequestEntitled
    <3> HIDE DEF x
    <3> QED BY <2>1, <3>2, EntitledMoves DEF Proceed
  <2> QED BY <1>0, <1>1, <2>1 DEF CreateReceive
<1>2. ASSUME NEW a \in Actors, NEW s \in Services, NEW team \in Teams,
             NEW edges \in SUBSET Services, UpdateLoad(r, a, s, team, edges)
      PROVE  RequestsEntitled'
  <2> DEFINE x == [pc |-> "references", op |-> "update", actor |-> a,
                   service |-> s, team |-> team, edges |-> edges, row |-> rows[s]]
  <2>1. CASE UpdateRefusal(a, s, team) = "none" /\ Proceed(r, x)
    <3>1. HasPermission(RoleOf[a], "dependency.write") /\ KeepsTeam(a, team)
      BY <2>1 DEF UpdateRefusal
    <3>2. RequestEntitled(x) BY <3>1 DEF RequestEntitled
    <3> HIDE DEF x
    <3> QED BY <2>1, <3>2, EntitledMoves DEF Proceed
  <2> QED BY <1>0, <1>2, <2>1 DEF UpdateLoad
<1>3. ASSUME NEW a \in Actors, NEW s \in Services, DeactivateLoad(r, a, s)
      PROVE  RequestsEntitled'
  <2> DEFINE x == [Idle EXCEPT !.pc = "commit", !.op = "deactivate", !.actor = a,
                               !.service = s, !.row = rows[s]]
  <2>1. CASE DeactivateRefusal(a, s) = "none" /\ Proceed(r, x)
    <3>1. HasPermission(RoleOf[a], "dependency.write") BY <2>1 DEF DeactivateRefusal
    <3>2. x.actor = a /\ x.op = "deactivate" BY DEF Idle
    <3>3. RequestEntitled(x) BY <3>1, <3>2 DEF RequestEntitled
    <3> HIDE DEF x
    <3> QED BY <2>1, <3>3, EntitledMoves DEF Proceed
  <2> QED BY <1>0, <1>3, <2>1 DEF DeactivateLoad
<1> QED BY <1>1, <1>2, <1>3 DEF Receive

LEMMA EntitledStep ==
  ASSUME TypeOK, RequestsEntitled, [Next]_vars
  PROVE  RequestsEntitled'
<1>1. ASSUME NEW r \in Requests, Handle(r) PROVE RequestsEntitled'
  <2>1. CASE CheckReferences(r)
    <3>1. CASE Proceed(r, [requests[r] EXCEPT !.pc = "graph"])
      BY <2>1, <3>1, EntitledProceeds DEF CheckReferences, Proceed
    <3> QED BY <2>1, <3>1, EntitledAnswered DEF CheckReferences
  <2>2. CASE CheckGraph(r)
    <3>1. CASE Proceed(r, [requests[r] EXCEPT !.pc = "commit"])
      BY <2>2, <3>1, EntitledProceeds DEF CheckGraph, Proceed
    <3> QED BY <2>2, <3>1, EntitledAnswered DEF CheckGraph
  <2>3. CASE Commits(r)
    <3>1. requests[r].pc # "idle" /\ requests' = [requests EXCEPT ![r].pc = "answer"]
      BY <2>3 DEF Commits, CreateCommit, UpdateCommit, DeactivateCommit, Commit
    <3> QED BY <3>1, EntitledProceeds
  <2>4. CASE CreateDuplicate(r) \/ DeactivateLost(r) \/ AnswerCommitted(r)
    BY <2>4, EntitledAnswered DEF CreateDuplicate, DeactivateLost, AnswerCommitted
  <2> QED BY <1>1, <2>1, <2>2, <2>3, <2>4 DEF Handle, Commits
<1>2. ASSUME NEW r \in Requests, StoreFails(r) PROVE RequestsEntitled'
  BY <1>2, EntitledAnswered DEF StoreFails
<1>3. CASE Crash
  BY <1>3 DEF Crash, RequestsEntitled, RequestEntitled, Idle
<1>4. CASE UNCHANGED vars
  BY <1>4 DEF vars, RequestsEntitled
<1> QED BY <1>1, <1>2, <1>3, <1>4, EntitledReceive DEF Next

(* Everything the refinement rests on.                                       *)
RefinementInv == IInv /\ RequestsEntitled /\ (OneAtATime => SerialInv)

LEMMA RefinementInit == Init => RefinementInv
<1>1. Init => RequestsEntitled
  BY DEF Init, RequestsEntitled, RequestEntitled, Idle
<1> QED BY <1>1, InitSound, SerialInit DEF RefinementInv

LEMMA RefinementStep == RefinementInv /\ [Next]_vars => RefinementInv'
<1> SUFFICES ASSUME RefinementInv, [Next]_vars PROVE RefinementInv'
  OBVIOUS
<1>1. IInv' /\ RequestsEntitled'
  BY StepSound, EntitledStep DEF RefinementInv, IInv
<1>2. OneAtATime' => SerialInv'
  BY SerialStep DEF RefinementInv, OneAtATime
<1> QED BY <1>1, <1>2 DEF RefinementInv

(* The sets and the ownership of the promise are those of the code.          *)
LEMMA SameNotions ==
  /\ Registry!Registered = Existing
  /\ Registry!Dependencies' = Graph'
  /\ \A graph : Registry!HasLoop(graph) <=> HasLoop(graph)
  /\ \A a, team : Registry!SpeaksFor(a, team) <=> Owns(a, team)
  /\ \A a : Registry!MayWrite(a) <=> HasPermission(RoleOf[a], "dependency.write")
<1>1. Registry!Registered = Existing /\ Registry!Dependencies' = Graph'
  BY DEF Registry!Registered, Registry!Dependencies, Existing, Graph
<1>2. \A graph : Registry!HasLoop(graph) <=> HasLoop(graph)
  BY DEF Registry!HasLoop, HasLoop
<1>3. \A a, team : Registry!SpeaksFor(a, team) <=> Owns(a, team)
  BY DEF Registry!SpeaksFor, Owns, Registry!PkiAdministrators, PkiAdministrators
<1>4. Registry!PermissionsOf = PermissionsOf
  BY DEF Registry!PermissionsOf, Registry!Permissions, PermissionsOf, Permissions
<1>5. \A a : Registry!MayWrite(a) <=> HasPermission(RoleOf[a], "dependency.write")
  BY <1>4 DEF Registry!MayWrite, Registry!HasPermission, HasPermission
<1> QED BY <1>1, <1>2, <1>3, <1>5

(* The audit entry of a commit is what the promise calls signed.             *)
LEMMA CommitSigned ==
  ASSUME NEW r \in Requests, Commits(r)
  PROVE  Signatures' = Registry!Signed(requests[r].op, requests[r].actor, requests[r].service)
<1>1. \E before, after :
        audit' = {[action |-> requests[r].op, actor |-> requests[r].actor,
                   service |-> requests[r].service, before |-> before, after |-> after]}
  BY DEF Commits, CreateCommit, UpdateCommit, DeactivateCommit, Commit
<1> QED BY <1>1 DEF Signatures, Registry!Signed

LEMMA CreateRefines ==
  ASSUME RefinementInv, NEW r \in Requests, CreateCommit(r)
  PROVE  Registry!Next
<1> DEFINE q == requests[r]
<1>1. q.pc = "commit" /\ q.op = "create" /\ q.service \notin Existing BY DEF CreateCommit
<1>2. /\ RequestSound(q, Existing) /\ RequestEntitled(q) /\ q \in Request
  BY <1>1, RequestFacts DEF RefinementInv, RequestsEntitled
<1>3. /\ q.service \in Services /\ q.actor \in Actors /\ q.team \in Teams
      /\ q.edges \in SUBSET Services /\ q.edges \subseteq Existing \ {q.service}
      /\ Owns(q.actor, q.team)
  BY <1>1, <1>2 DEF RequestSound, RequestEntitled, EdgesValidated, Request
<1>4. rows' = [rows EXCEPT ![q.service] =
                 [state |-> "active", team |-> q.team, edges |-> q.edges]]
  BY DEF CreateCommit, Commit
<1>5. rows[q.service].state = "absent" BY <1>1, <1>3 DEF Existing
<1>6. Registry!Register(q.service, q.actor, q.team, q.edges)
  BY <1>1, <1>3, <1>4, <1>5, SameNotions, CommitSigned DEF Registry!Register, Commits
<1> QED BY <1>3, <1>6 DEF Registry!Next

LEMMA UpdateRefines ==
  ASSUME RefinementInv, [Next]_vars, NEW r \in Requests, UpdateCommit(r)
  PROVE  Registry!Next
<1> DEFINE q == requests[r]
           s == q.service
<1>1. q.pc = "commit" /\ q.op = "update" BY DEF UpdateCommit
<1>2. /\ RequestSound(q, Existing) /\ RequestEntitled(q) /\ q \in Request
      /\ rows \in [Services -> Row]
  BY <1>1, RequestFacts DEF RefinementInv, RequestsEntitled, IInv, TypeOK
<1>3. /\ s \in Services /\ s \in Existing /\ q.actor \in Actors /\ q.team \in Teams
      /\ q.edges \in SUBSET Services /\ q.edges \subseteq Existing \ {s}
      /\ HasPermission(RoleOf[q.actor], "dependency.write") /\ KeepsTeam(q.actor, q.team)
  BY <1>1, <1>2 DEF RequestSound, RequestEntitled, EdgesValidated, Request
<1>4. rows' = [rows EXCEPT ![s] = [@ EXCEPT !.team = q.team, !.edges = q.edges]]
  BY DEF UpdateCommit, Commit, Updated
<1>5. OneAtATime => Owns(q.actor, rows[s].team)
  BY <1>1 DEF RefinementInv, SerialInv, ChecksHold, OwnershipChecked
<1>6. OneAtATime => ~HasLoop(Graph')
  <2>1. OneAtATime => Acyclic' BY RefinementStep DEF RefinementInv, SerialInv, OneAtATime
  <2> QED BY <2>1 DEF Acyclic, ContainsCycle
<1>7. Registry!Change(s, q.actor, q.team, q.edges)
  BY <1>1, <1>3, <1>4, <1>5, <1>6, SameNotions, CommitSigned
  DEF Registry!Change, KeepsTeam, Commits
<1> QED BY <1>3, <1>7 DEF Registry!Next

LEMMA DeactivateRefines ==
  ASSUME RefinementInv, NEW r \in Requests, DeactivateCommit(r)
  PROVE  Registry!Next
<1> DEFINE q == requests[r]
           s == q.service
<1>1. q.pc = "commit" /\ q.op = "deactivate" /\ rows[s].state = "active"
  BY DEF DeactivateCommit, StillActive
<1>2. /\ s \in Services /\ q.actor \in Actors
      /\ HasPermission(RoleOf[q.actor], "dependency.write")
  BY <1>1, RequestFacts DEF RefinementInv, RequestsEntitled, RequestEntitled, RequestSound
<1>3. rows' = [rows EXCEPT ![s] = [@ EXCEPT !.state = "inactive"]]
  BY DEF DeactivateCommit, Commit, Deactivated
<1>4. OneAtATime => Owns(q.actor, rows[s].team)
  BY <1>1 DEF RefinementInv, SerialInv, ChecksHold, OwnershipChecked
<1>5. Registry!Deactivate(s, q.actor)
  BY <1>1, <1>2, <1>3, <1>4, SameNotions, CommitSigned DEF Registry!Deactivate, Commits
<1> QED BY <1>2, <1>5 DEF Registry!Next

(* The registry implements its promise, whatever overlaps: each commit is    *)
(* one of the promised changes and no other step changes anything.  One      *)
(* request at a time, the promise includes ownership and acyclicity.         *)
THEOREM RegistryAlwaysKept == Spec => RegistryKept
<1>1. Init => Registry!Init
  BY DEF Init, Registry!Init, AbsentRow, Registry!Unregistered, Signatures
<1>2. RefinementInv /\ [Next]_vars => [Registry!Next]_<<rows, Signatures>>
  <2> SUFFICES ASSUME RefinementInv, [Next]_vars PROVE [Registry!Next]_<<rows, Signatures>>
    OBVIOUS
  <2>1. CASE \E r \in Requests : Commits(r)
    BY <2>1, CreateRefines, UpdateRefines, DeactivateRefines DEF Commits
  <2>2. CASE ~\E r \in Requests : Commits(r)
    <3>1. rows' = rows /\ (audit' = {} \/ audit' = audit) BY <2>2, OnlyCommitsWrite DEF vars
    <3>2. Signatures' = {} \/ Signatures' = Signatures BY <3>1 DEF Signatures
    <3> QED BY <3>1, <3>2 DEF Registry!Next, Registry!Rest
  <2> QED BY <2>1, <2>2
<1> QED BY <1>1, <1>2, RefinementInit, RefinementStep, PTL DEF Spec, RegistryKept, Registry!Spec
=============================================================================
