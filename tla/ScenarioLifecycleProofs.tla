----------------------- MODULE ScenarioLifecycleProofs -----------------------
(* Proofs about ScenarioLifecycle for every set of scenarios, users, keys,   *)
(* inputs and concurrent requests.  The safety invariants are not inductive: *)
(* a commit acts on a copy of the row that may be old.  What saves them is   *)
(* that the facts a request relies on never change once they hold, and the   *)
(* conditional UPDATE re-checks the one that does, the state.  IInv says so. *)
EXTENDS ScenarioLifecycle, TLAPS

(* What holds of every stored row.                                           *)
RowSound(row) ==
  /\ row.state = "absent" => row = AbsentRow
  /\ row.state # "absent" => row.input \in Inputs /\ row.createdBy \in Actors
  /\ row.state \in States \ {"draft"} => row.key # NoKey
  /\ row.key # NoKey \/ row.replayVerified => row.result = row.input
  /\ IF row.state = "verified"
     THEN /\ row.verifiedBy \in Actors \ {row.createdBy}
          /\ HasPermission(RoleOf[row.verifiedBy], "scenario.verify")
     ELSE row.verifiedBy = NoActor

(* What a request knows about its copy and about the row it will write.      *)
CreateSound(q, row) ==
  IF q.pc = "commit"
  THEN /\ row = AbsentRow
       /\ \E i \in Inputs : q.row = [AbsentRow EXCEPT !.state = "draft", !.input = i,
                                                       !.createdBy = q.actor]
  ELSE q.pc = "answer" /\ Exists(row)

CopySound(q, row) ==
  /\ Exists(row) /\ Exists(q.row)
  /\ q.row.input = row.input /\ q.row.createdBy = row.createdBy
  /\ q.row.key # NoKey => q.row.result = q.row.input

SimulateSound(q, row) ==
  /\ q.key \in Keys
  /\ Manages(q.actor, row)
  /\ q.pc = "commit" => q.row.state = "draft"
  /\ q.pc = "answer" => row.result = row.input

TransitionSound(q, row) ==
  /\ CanTransition(q.row.state, q.to) /\ q.to \in RequestableStates
  /\ IF q.to = "verified"
     THEN row.createdBy # q.actor /\ HasPermission(RoleOf[q.actor], "scenario.verify")
     ELSE Manages(q.actor, row)
  /\ q.pc \in {"commit", "answer"}

ReplaySound(q, row) ==
  /\ q.row.result = q.row.input /\ row.result = row.input
  /\ q.pc \in {"commit", "answer"}

RequestSound(q, row) ==
  /\ q.actor \in Actors /\ q.scenario \in Scenarios
  /\ q.pc \in {"lookup", "commit", "answer"}
  /\ \/ q.op = "create" /\ CreateSound(q, row)
     \/ q.op = "simulate" /\ CopySound(q, row) /\ SimulateSound(q, row)
     \/ q.op = "transition" /\ CopySound(q, row) /\ TransitionSound(q, row)
     \/ q.op = "replay" /\ CopySound(q, row) /\ ReplaySound(q, row)
  /\ q.pc = "lookup" => q.op = "simulate"

RowsSound == \A s \in Scenarios : RowSound(rows[s])

RequestsSound ==
  \A r \in Requests :
    requests[r] = Idle \/ RequestSound(requests[r], rows[requests[r].scenario])

(* The sequence of the primary key never hands out an id twice.              *)
IdsReserved ==
  \A q, r \in Requests :
    q # r /\ requests[q].op = "create" /\ requests[r].op = "create"
      => requests[q].scenario # requests[r].scenario

(* Every answer to a simulate request was true when it was sent.             *)
RepliesSound ==
  /\ AnswersAreOwnResults
  /\ ReplayConfirms

IInv == TypeOK /\ RowsSound /\ RequestsSound /\ IdsReserved /\ RepliesSound
-----------------------------------------------------------------------------
(* What a row may become without hurting a request that holds a copy of it.  *)
Evolves(row, new) ==
  Exists(row) => /\ Exists(new)
                 /\ new.input = row.input
                 /\ new.createdBy = row.createdBy
                 /\ row.result = row.input => new.result = new.input

(* The empty values are well typed.                                          *)
LEMMA EmptyValuesTyped == AbsentRow \in Row /\ Idle \in Request
  BY DEF AbsentRow, Row, Idle, Request, States, Operations, RequestableStates

(* A request stays sound when its row evolves, as long as the row it is      *)
(* about to insert stays absent.                                             *)
LEMMA RequestSurvives ==
  ASSUME NEW q, NEW row, NEW new,
         RequestSound(q, row), Evolves(row, new),
         q.op = "create" /\ q.pc = "commit" => new = row
  PROVE  RequestSound(q, new)
<1>1. CASE q.op = "create"
  BY <1>1 DEF RequestSound, CreateSound, Evolves
<1>2. CASE q.op = "simulate"
  BY <1>2 DEF RequestSound, CopySound, SimulateSound, Evolves, Manages
<1>3. CASE q.op = "transition"
  BY <1>3 DEF RequestSound, CopySound, TransitionSound, Evolves, Manages
<1>4. CASE q.op = "replay"
  BY <1>4 DEF RequestSound, CopySound, ReplaySound, Evolves, Manages
<1> QED BY <1>1, <1>2, <1>3, <1>4 DEF RequestSound

(* A step that leaves the table alone and puts one request into a sound      *)
(* position keeps every row and every request sound.                         *)
LEMMA RequestMoves ==
  ASSUME IInv, NEW r \in Requests, NEW x \in Request,
         rows' = rows, requests' = [requests EXCEPT ![r] = x],
         x = Idle \/ RequestSound(x, rows[x.scenario]),
         x.op = "create" => \A q \in Requests \ {r} :
                              requests[q].op = "create" => requests[q].scenario # x.scenario
  PROVE  RowsSound' /\ RequestsSound' /\ IdsReserved'
<1>1. requests' \in [Requests -> Request] /\ requests'[r] = x
      /\ \A q \in Requests \ {r} : requests'[q] = requests[q]
  BY DEF IInv, TypeOK
<1>2. RowsSound'
  BY DEF IInv, RowsSound
<1>3. RequestsSound'
  BY <1>1 DEF IInv, RequestsSound
<1>4. IdsReserved'
  BY <1>1 DEF IInv, IdsReserved
<1> QED BY <1>2, <1>3, <1>4

(* A commit that writes a sound row, which the old one may become, keeps     *)
(* every row and every request sound.                                        *)
LEMMA CommitsSound ==
  ASSUME IInv, NEW r \in Requests, requests[r].pc = "commit",
         NEW new \in Row, RowSound(new),
         Evolves(rows[requests[r].scenario], new),
         rows' = [rows EXCEPT ![requests[r].scenario] = new],
         GoTo(r, "answer"),
         RequestSound([requests[r] EXCEPT !.pc = "answer"], new)
  PROVE  RowsSound' /\ RequestsSound' /\ IdsReserved'
<1> DEFINE s == requests[r].scenario
<1>1. requests[r] # Idle /\ RequestSound(requests[r], rows[s]) /\ s \in Scenarios
  BY DEF IInv, RequestsSound, RequestSound, Idle
<1>2. /\ requests' = [requests EXCEPT ![r] = [requests[r] EXCEPT !.pc = "answer"]]
      /\ requests'[r] = [requests[r] EXCEPT !.pc = "answer"]
      /\ \A q \in Requests \ {r} : requests'[q] = requests[q]
  BY DEF IInv, TypeOK, GoTo
<1>3. /\ rows'[s] = new
      /\ \A t \in Scenarios \ {s} : rows'[t] = rows[t]
  BY <1>1 DEF IInv, TypeOK
<1>4. RowsSound'
  BY <1>3 DEF IInv, RowsSound
<1>5. ASSUME NEW q \in Requests
      PROVE  requests'[q] = Idle \/ RequestSound(requests'[q], rows'[requests'[q].scenario])
  <2>1. requests[r].scenario = requests'[r].scenario
    BY <1>2 DEF IInv, TypeOK, Request
  <2>2. CASE q = r
    BY <1>2, <1>3, <2>1, <2>2
  <2>3. CASE q # r /\ requests[q] = Idle
    BY <1>2, <2>3
  <2>4. CASE q # r /\ requests[q] # Idle /\ requests[q].scenario # s
    BY <1>2, <1>3, <2>4 DEF IInv, RequestsSound, RequestSound
  <2>5. CASE q # r /\ requests[q] # Idle /\ requests[q].scenario = s
    <3>1. RequestSound(requests[q], rows[s])
      BY <2>5 DEF IInv, RequestsSound
    <3>2. ~(requests[q].op = "create" /\ requests[q].pc = "commit")
      <4> SUFFICES ASSUME requests[q].op = "create", requests[q].pc = "commit"
                   PROVE  FALSE
        OBVIOUS
      <4>1. CreateSound(requests[q], rows[s])
        BY <3>1 DEF RequestSound
      <4>2. rows[s] = AbsentRow
        BY <4>1 DEF CreateSound
      <4>3. rows[s].state = "absent"
        BY <4>2 DEF AbsentRow
      <4>4. requests[r].op # "create"
        BY <2>5 DEF IInv, IdsReserved
      <4> QED BY <1>1, <4>3, <4>4 DEF RequestSound, CopySound, Exists
    <3> QED BY <3>1, <3>2, <1>2, <1>3, <2>5, RequestSurvives
  <2> QED BY <2>2, <2>3, <2>4, <2>5
<1>6. RequestsSound'
  BY <1>5 DEF RequestsSound
<1>7. IdsReserved'
  <2>1. \A q \in Requests : requests'[q].op = requests[q].op
                            /\ requests'[q].scenario = requests[q].scenario
    BY <1>2 DEF IInv, TypeOK, Request
  <2> QED BY <2>1 DEF IInv, IdsReserved
<1> QED BY <1>4, <1>6, <1>7
-----------------------------------------------------------------------------
(* The four ways a step ends, each with what it does to the whole invariant. *)
RefusalStatuses == Statuses \ {"success", "reused", "replay differs"}

LEMMA RequestFacts ==
  ASSUME IInv, NEW r \in Requests, requests[r].pc # "idle"
  PROVE  /\ requests[r] \in Request
         /\ RequestSound(requests[r], rows[requests[r].scenario])
         /\ requests[r].actor \in Actors
         /\ requests[r].scenario \in Scenarios
         /\ requests[r].op \in Operations
         /\ rows[requests[r].scenario] \in Row
         /\ RowSound(rows[requests[r].scenario])
<1>1. requests[r] \in Request /\ requests[r] # Idle
  BY DEF IInv, TypeOK, Idle
<1>2. RequestSound(requests[r], rows[requests[r].scenario])
  BY <1>1 DEF IInv, RequestsSound
<1>3. requests[r].actor \in Actors /\ requests[r].scenario \in Scenarios
      /\ requests[r].op \in Operations
  BY <1>2 DEF RequestSound, Operations
<1> QED BY <1>1, <1>2, <1>3 DEF IInv, TypeOK, RowsSound

LEMMA RefusedAtOnce ==
  ASSUME IInv, NEW op \in Operations, NEW a \in Actors, NEW s \in Scenarios,
         NEW k \in Keys \cup {NoKey}, NEW status \in RefusalStatuses,
         RefuseAtOnce(op, a, s, k, status)
  PROVE  IInv'
<1>1. TypeOK'
  <2>1. reply' \subseteq Reply
    <3>1. status \in Statuses /\ AbsentRow \in Row
      BY EmptyValuesTyped DEF RefusalStatuses
    <3> QED BY <3>1 DEF RefuseAtOnce, Reply
  <2> QED BY <2>1 DEF IInv, TypeOK, RefuseAtOnce
<1>2. RepliesSound'
  <2>1. \A m \in reply' : m.status = status
    BY DEF RefuseAtOnce
  <2> QED BY <2>1 DEF RepliesSound, AnswersAreOwnResults, ReplayConfirms, RefusalStatuses
<1> QED
  BY <1>1, <1>2
  DEF IInv, RefuseAtOnce, RowsSound, RequestsSound, IdsReserved

LEMMA Refused ==
  ASSUME IInv, NEW r \in Requests, requests[r].pc # "idle",
         NEW status \in RefusalStatuses, Refuse(r, status)
  PROVE  IInv'
<1>1. TypeOK'
  <2>1. requests' \in [Requests -> Request]
    BY EmptyValuesTyped DEF IInv, TypeOK, Refuse, Answer
  <2>2. reply' \subseteq Reply
    <3>1. status \in Statuses /\ AbsentRow \in Row
      BY EmptyValuesTyped DEF RefusalStatuses
    <3>2. requests[r].key \in Keys \cup {NoKey}
      BY RequestFacts DEF Request
    <3> QED BY <3>1, <3>2, RequestFacts DEF Refuse, Answer, Reply
  <2> QED BY <2>1, <2>2 DEF IInv, TypeOK, Refuse
<1>2. RepliesSound'
  <2>1. \A m \in reply' : m.status = status
    BY DEF Refuse, Answer
  <2> QED BY <2>1 DEF RepliesSound, AnswersAreOwnResults, ReplayConfirms, RefusalStatuses
<1>3. RowsSound' /\ RequestsSound' /\ IdsReserved'
  <2>1. Idle \in Request /\ Idle.op # "create"
    BY EmptyValuesTyped DEF Idle
  <2> QED BY <2>1, RequestMoves DEF Refuse, Answer
<1> QED BY <1>1, <1>2, <1>3 DEF IInv

LEMMA Proceeded ==
  ASSUME IInv, NEW r \in Requests, NEW x \in Request,
         RequestSound(x, rows[x.scenario]), Proceed(r, x),
         x.op = "create" => \A q \in Requests \ {r} :
                              requests[q].op = "create" => requests[q].scenario # x.scenario
  PROVE  IInv'
<1>1. TypeOK'
  BY DEF IInv, TypeOK, Proceed
<1>2. RepliesSound'
  BY DEF Proceed, RepliesSound, AnswersAreOwnResults, ReplayConfirms
<1>3. RowsSound' /\ RequestsSound' /\ IdsReserved'
  BY RequestMoves DEF Proceed
<1> QED BY <1>1, <1>2, <1>3 DEF IInv

LEMMA Committed ==
  ASSUME IInv, NEW r \in Requests, requests[r].pc = "commit",
         NEW new \in Row, RowSound(new),
         Evolves(rows[requests[r].scenario], new),
         rows' = [rows EXCEPT ![requests[r].scenario] = new],
         GoTo(r, "answer"),
         RequestSound([requests[r] EXCEPT !.pc = "answer"], new),
         NEW e \in Entry, audit' = {e}, reply' = {}
  PROVE  IInv'
<1>1. TypeOK'
  <2>1. rows' \in [Scenarios -> Row]
    BY RequestFacts DEF IInv, TypeOK
  <2>2. [requests[r] EXCEPT !.pc = "answer"] \in Request
    BY RequestFacts DEF Request
  <2>3. requests' \in [Requests -> Request]
    BY <2>2 DEF IInv, TypeOK, GoTo
  <2> QED BY <2>1, <2>3 DEF TypeOK
<1>2. RepliesSound'
  BY DEF RepliesSound, AnswersAreOwnResults, ReplayConfirms
<1>3. RowsSound' /\ RequestsSound' /\ IdsReserved'
  BY CommitsSound
<1> QED BY <1>1, <1>2, <1>3 DEF IInv
-----------------------------------------------------------------------------
(* Creating a scenario.                                                      *)
LEMMA CreateFreezeSound ==
  ASSUME IInv, NEW r \in Requests, NEW a \in Actors, NEW s \in Scenarios, NEW i \in Inputs,
         CreateFreeze(r, a, s, i)
  PROVE  IInv'
<1> DEFINE draft == [AbsentRow EXCEPT !.state = "draft", !.input = i, !.createdBy = a]
           x == [Idle EXCEPT !.pc = "commit", !.op = "create", !.actor = a,
                             !.scenario = s, !.row = draft]
<1>1. draft \in Row
  BY DEF Row, AbsentRow, States
<1>2. x \in Request /\ x.op = "create" /\ x.pc = "commit" /\ x.actor = a
      /\ x.scenario = s /\ x.row = draft
  BY <1>1 DEF Request, Idle, Operations, RequestableStates
<1>3. rows[s] = AbsentRow
  BY DEF CreateFreeze, IInv, RowsSound, RowSound
<1>4. RequestSound(x, rows[x.scenario])
  BY <1>2, <1>3 DEF RequestSound, CreateSound
<1>5. \A q \in Requests \ {r} : requests[q].op = "create" => requests[q].scenario # x.scenario
  BY <1>2 DEF CreateFreeze
<1>6. Proceed(r, x)
  BY DEF CreateFreeze
<1> HIDE DEF x
<1> QED BY <1>2, <1>4, <1>5, <1>6, Proceeded

LEMMA CreateCommitSound ==
  ASSUME IInv, NEW r \in Requests, CreateCommit(r)
  PROVE  IInv'
<1> DEFINE q == requests[r]
           new == q.row
           e == [action |-> "create", actor |-> q.actor, scenario |-> q.scenario,
                 before |-> AbsentRow, after |-> new]
<1>1. q.pc = "commit" /\ q.op = "create" /\ q.pc # "idle"
  BY DEF CreateCommit
<1>2. CreateSound(q, rows[q.scenario]) /\ q \in Request /\ q.actor \in Actors /\ q.scenario \in Scenarios
  BY <1>1, RequestFacts DEF RequestSound
<1>3. PICK i \in Inputs : new = [AbsentRow EXCEPT !.state = "draft", !.input = i,
                                                  !.createdBy = q.actor]
  BY <1>1, <1>2 DEF CreateSound
<1>4. /\ new.state = "draft" /\ new.input = i /\ new.createdBy = q.actor /\ new.key = NoKey
      /\ new.replayVerified = FALSE /\ new.verifiedBy = NoActor
  BY <1>3 DEF AbsentRow
<1>5. new \in Row /\ RowSound(new)
  BY <1>2, <1>4 DEF Request, RowSound
<1>6. rows[q.scenario].state = "absent"
  <2>1. rows[q.scenario] = AbsentRow
    BY <1>1, <1>2 DEF CreateSound
  <2> QED BY <2>1 DEF AbsentRow
<1>7. Evolves(rows[q.scenario], new)
  BY <1>6 DEF Evolves, Exists
<1>8. RequestSound([q EXCEPT !.pc = "answer"], new)
  <2>1. [q EXCEPT !.pc = "answer"].pc = "answer" /\ [q EXCEPT !.pc = "answer"].op = "create"
        /\ [q EXCEPT !.pc = "answer"].actor = q.actor
        /\ [q EXCEPT !.pc = "answer"].scenario = q.scenario
    BY <1>1, <1>2 DEF Request
  <2> QED BY <1>2, <1>4, <2>1 DEF RequestSound, CreateSound, Exists
<1>9. e \in Entry
  BY <1>2, <1>5, EmptyValuesTyped DEF Entry, Operations
<1>10. rows' = [rows EXCEPT ![q.scenario] = new] /\ GoTo(r, "answer") /\ audit' = {e} /\ reply' = {}
  BY DEF CreateCommit
<1> HIDE DEF e, new
<1> QED BY <1>1, <1>5, <1>7, <1>8, <1>9, <1>10, Committed

LEMMA CreateDuplicateSound ==
  ASSUME IInv, NEW r \in Requests, CreateDuplicate(r)
  PROVE  IInv'
BY Refused DEF CreateDuplicate, RefusalStatuses, Statuses
-----------------------------------------------------------------------------
(* Simulating.                                                               *)
LEMMA SimulateLoadSound ==
  ASSUME IInv, NEW r \in Requests, NEW a \in Actors, NEW s \in Scenarios, NEW k \in Keys,
         SimulateLoad(r, a, s, k)
  PROVE  IInv'
<1> DEFINE refusal == SimulateRefusal(a, rows[s])
<1>1. CASE refusal # "none" /\ RefuseAtOnce("simulate", a, s, k, refusal)
  <2>1. refusal \in RefusalStatuses
    BY <1>1 DEF SimulateRefusal, RefusalStatuses, Statuses
  <2> QED BY <1>1, <2>1, RefusedAtOnce DEF Operations
<1>2. CASE /\ refusal = "none"
           /\ Proceed(r, [Idle EXCEPT !.pc = "lookup", !.op = "simulate", !.actor = a,
                                      !.scenario = s, !.key = k, !.row = rows[s]])
  <2> DEFINE x == [Idle EXCEPT !.pc = "lookup", !.op = "simulate", !.actor = a,
                               !.scenario = s, !.key = k, !.row = rows[s]]
  <2>1. rows[s] \in Row /\ RowSound(rows[s])
    BY DEF IInv, TypeOK, RowsSound
  <2>2. x \in Request /\ x.op = "simulate" /\ x.pc = "lookup" /\ x.actor = a
        /\ x.scenario = s /\ x.key = k /\ x.row = rows[s]
    BY <2>1 DEF Request, Idle, Operations, RequestableStates
  <2>3. Exists(rows[s]) /\ Manages(a, rows[s])
    BY <1>2 DEF SimulateRefusal
  <2>4. RequestSound(x, rows[x.scenario])
    BY <2>1, <2>2, <2>3 DEF RequestSound, CopySound, SimulateSound, RowSound
  <2>5. Proceed(r, x)
    BY <1>2
  <2> HIDE DEF x
  <2> QED BY <2>2, <2>4, <2>5, Proceeded
<1>3. CASE RefuseAtOnce("simulate", a, s, k, "not found")
  BY <1>3, RefusedAtOnce DEF RefusalStatuses, Statuses, Operations
<1> QED BY <1>1, <1>2, <1>3 DEF SimulateLoad

LEMMA SimulateReuseSound ==
  ASSUME IInv, NEW r \in Requests, SimulateReuse(r)
  PROVE  IInv'
<1> DEFINE q == requests[r]
           s == q.scenario
           m == [op |-> q.op, status |-> "reused", actor |-> q.actor, scenario |-> s,
                 key |-> q.key, row |-> rows[s]]
<1>1. /\ q \in Request /\ q.actor \in Actors /\ s \in Scenarios /\ q.op \in Operations
      /\ rows[s] \in Row /\ RowSound(rows[s]) /\ RequestSound(q, rows[s])
      /\ q.pc = "lookup" /\ rows[s].key = q.key
  BY RequestFacts DEF SimulateReuse
<1>2. q.key \in Keys
  BY <1>1 DEF RequestSound, SimulateSound
<1>3. rows[s].result = rows[s].input
  BY <1>1, <1>2, SentinelAssumption DEF RowSound
<1>4. rows' = rows /\ requests' = [requests EXCEPT ![r] = Idle] /\ audit' = {} /\ reply' = {m}
  BY DEF SimulateReuse, Answer
<1>5. m \in Reply
  BY <1>1 DEF Reply, Request, Statuses
<1>6. TypeOK'
  BY <1>4, <1>5, EmptyValuesTyped DEF IInv, TypeOK
<1>7. m.status = "reused" /\ m.row = rows[s] /\ m.scenario = s
  OBVIOUS
<1> HIDE DEF m
<1>8. RepliesSound'
  BY <1>3, <1>4, <1>7 DEF RepliesSound, AnswersAreOwnResults, ReplayConfirms
<1>9. RowsSound' /\ RequestsSound' /\ IdsReserved'
  <2>1. Idle \in Request /\ Idle.op # "create"
    BY EmptyValuesTyped DEF Idle
  <2> QED BY <1>4, <2>1, RequestMoves
<1> QED BY <1>6, <1>8, <1>9 DEF IInv

LEMMA SimulateCheckDraftSound ==
  ASSUME IInv, NEW r \in Requests, SimulateCheckDraft(r)
  PROVE  IInv'
<1>1. CASE requests[r].row.state # "draft" /\ Refuse(r, "state conflict")
  BY <1>1, Refused DEF SimulateCheckDraft, RefusalStatuses, Statuses
<1>2. CASE /\ requests[r].row.state = "draft"
           /\ Proceed(r, [requests[r] EXCEPT !.pc = "commit"])
  <2> DEFINE q == requests[r]
             x == [q EXCEPT !.pc = "commit"]
  <2>1. q \in Request /\ RequestSound(q, rows[q.scenario]) /\ q.pc = "lookup"
    BY RequestFacts DEF SimulateCheckDraft
  <2>2. /\ x \in Request /\ x.pc = "commit" /\ x.op = q.op /\ x.actor = q.actor
        /\ x.scenario = q.scenario /\ x.key = q.key /\ x.row = q.row
    BY <2>1 DEF Request
  <2>3. q.op = "simulate" /\ CopySound(q, rows[q.scenario]) /\ SimulateSound(q, rows[q.scenario])
        /\ q.actor \in Actors /\ q.scenario \in Scenarios
    BY <2>1 DEF RequestSound
  <2>4. RequestSound(x, rows[x.scenario])
    BY <1>2, <2>2, <2>3 DEF RequestSound, CopySound, SimulateSound
  <2>5. Proceed(r, x)
    BY <1>2
  <2> HIDE DEF x
  <2> QED BY <2>2, <2>3, <2>4, <2>5, Proceeded
<1> QED BY <1>1, <1>2 DEF SimulateCheckDraft

LEMMA SimulateCommitSound ==
  ASSUME IInv, NEW r \in Requests, SimulateCommit(r)
  PROVE  IInv'
<1> DEFINE q == requests[r]
           s == q.scenario
           new == Simulated(rows[s], q.key)
           after == Simulated(q.row, q.key)
           e == [action |-> q.op, actor |-> q.actor, scenario |-> s,
                 before |-> q.row, after |-> after]
           x == [q EXCEPT !.pc = "answer"]
<1>1. /\ q \in Request /\ q.actor \in Actors /\ s \in Scenarios
      /\ rows[s] \in Row /\ RowSound(rows[s]) /\ RequestSound(q, rows[s])
      /\ q.pc = "commit" /\ q.op = "simulate" /\ rows[s].state = "draft"
  BY RequestFacts DEF SimulateCommit
<1>2. CopySound(q, rows[s]) /\ SimulateSound(q, rows[s])
  BY <1>1 DEF RequestSound
<1>3. /\ new.state = "simulated" /\ new.key = q.key /\ new.result = rows[s].input
      /\ new.input = rows[s].input /\ new.createdBy = rows[s].createdBy
      /\ new.verifiedBy = rows[s].verifiedBy
  BY <1>1 DEF Simulated, Row
<1>4. new \in Row /\ after \in Row
  <2>1. q.row \in Row /\ q.key \in Keys \cup {NoKey}
    BY <1>1 DEF Request
  <2>2. ASSUME NEW row \in Row PROVE Simulated(row, q.key) \in Row
    BY <2>1, <2>2 DEF Simulated, Row, States
  <2> QED BY <1>1, <2>1, <2>2
<1>5. q.key # NoKey
  BY <1>2, SentinelAssumption DEF SimulateSound
<1>6. RowSound(new)
  BY <1>1, <1>3, <1>5 DEF RowSound
<1>7. Evolves(rows[s], new)
  BY <1>3 DEF Evolves, Exists
<1>8. /\ x.pc = "answer" /\ x.op = "simulate" /\ x.actor = q.actor
      /\ x.scenario = s /\ x.key = q.key /\ x.row = q.row
  BY <1>1 DEF Request
<1>9. RequestSound(x, new)
  BY <1>1, <1>2, <1>3, <1>8 DEF RequestSound, CopySound, SimulateSound, Exists, Manages
<1>10. e \in Entry
  BY <1>1, <1>4 DEF Entry, Operations, Request
<1>11. rows' = [rows EXCEPT ![s] = new] /\ GoTo(r, "answer") /\ audit' = {e} /\ reply' = {}
  BY DEF SimulateCommit, Record
<1> HIDE DEF e, new, after
<1> QED BY <1>1, <1>4, <1>6, <1>7, <1>9, <1>10, <1>11, Committed
-----------------------------------------------------------------------------
(* Transitions.                                                              *)
LEMMA TransitionLoadSound ==
  ASSUME IInv, NEW r \in Requests, NEW a \in Actors, NEW s \in Scenarios,
         NEW to \in RequestableStates, TransitionLoad(r, a, s, to)
  PROVE  IInv'
<1> DEFINE refusal == TransitionRefusal(a, rows[s], to)
<1>1. CASE refusal # "none" /\ RefuseAtOnce("transition", a, s, NoKey, refusal)
  <2>1. refusal \in RefusalStatuses
    BY <1>1 DEF TransitionRefusal, ServiceRefusal, HandlerRefusal, RefusalStatuses, Statuses
  <2> QED BY <1>1, <2>1, RefusedAtOnce DEF Operations
<1>2. CASE /\ refusal = "none"
           /\ Proceed(r, [Idle EXCEPT !.pc = "commit", !.op = "transition", !.actor = a,
                                      !.scenario = s, !.to = to, !.row = rows[s]])
  <2> DEFINE x == [Idle EXCEPT !.pc = "commit", !.op = "transition", !.actor = a,
                               !.scenario = s, !.to = to, !.row = rows[s]]
  <2>1. rows[s] \in Row /\ RowSound(rows[s])
    BY DEF IInv, TypeOK, RowsSound
  <2>2. x \in Request /\ x.op = "transition" /\ x.pc = "commit" /\ x.actor = a
        /\ x.scenario = s /\ x.to = to /\ x.row = rows[s]
    BY <2>1 DEF Request, Idle, Operations, RequestableStates
  <2>3. HasPermission(RoleOf[a], TransitionPermission(to)) /\ ServiceRefusal(a, rows[s], to) = "none"
    BY <1>2 DEF TransitionRefusal, HandlerRefusal
  <2>4. /\ Exists(rows[s]) /\ CanTransition(rows[s].state, to)
        /\ to # "verified" => Manages(a, rows[s])
        /\ to = "verified" => ReviewerSeparated(a, rows[s])
    BY <2>3 DEF ServiceRefusal
  <2>5. CopySound(x, rows[s])
    BY <2>1, <2>2, <2>4 DEF CopySound, RowSound
  <2>6. TransitionSound(x, rows[s])
    BY <2>2, <2>3, <2>4 DEF TransitionSound, TransitionPermission, ReviewerSeparated
  <2>7. RequestSound(x, rows[x.scenario])
    BY <2>2, <2>5, <2>6 DEF RequestSound
  <2>8. Proceed(r, x)
    BY <1>2
  <2> HIDE DEF x
  <2> QED BY <2>2, <2>7, <2>8, Proceeded
<1>3. CASE RefuseAtOnce("transition", a, s, NoKey, TransitionReadError(a, to))
  <2>1. TransitionReadError(a, to) \in RefusalStatuses
    BY DEF TransitionReadError, RefusalStatuses, Statuses
  <2> QED BY <1>3, <2>1, RefusedAtOnce DEF Operations
<1> QED BY <1>1, <1>2, <1>3 DEF TransitionLoad

LEMMA TransitionCommitSound ==
  ASSUME IInv, NEW r \in Requests, TransitionCommit(r)
  PROVE  IInv'
<1> DEFINE q == requests[r]
           s == q.scenario
           new == Transitioned(rows[s], q.actor, q.to)
           after == Transitioned(q.row, q.actor, q.to)
           e == [action |-> q.op, actor |-> q.actor, scenario |-> s,
                 before |-> q.row, after |-> after]
           x == [q EXCEPT !.pc = "answer"]
<1>1. /\ q \in Request /\ q.actor \in Actors /\ s \in Scenarios
      /\ rows[s] \in Row /\ RowSound(rows[s]) /\ RequestSound(q, rows[s])
      /\ q.pc = "commit" /\ q.op = "transition" /\ rows[s].state = q.row.state
  BY RequestFacts DEF TransitionCommit, StateUnchanged
<1>2. CopySound(q, rows[s]) /\ TransitionSound(q, rows[s])
  BY <1>1 DEF RequestSound
<1>3. /\ new.state = q.to /\ new.key = rows[s].key /\ new.result = rows[s].result
      /\ new.input = rows[s].input /\ new.createdBy = rows[s].createdBy
      /\ new.replayVerified = rows[s].replayVerified
      /\ new.verifiedBy = IF q.to = "verified" THEN q.actor ELSE rows[s].verifiedBy
  BY <1>1 DEF Transitioned, Row
<1>4. new \in Row /\ after \in Row
  <2>1. q.row \in Row /\ q.to \in States
    BY <1>1, <1>2 DEF Request, TransitionSound, RequestableStates, States
  <2>2. ASSUME NEW row \in Row PROVE Transitioned(row, q.actor, q.to) \in Row
    <3>1. [row EXCEPT !.state = q.to] \in Row
      BY <2>1 DEF Row
    <3>2. ASSUME NEW other \in Row PROVE [other EXCEPT !.verifiedBy = q.actor] \in Row
      BY <1>1 DEF Row
    <3>3. Transitioned(row, q.actor, q.to) =
            IF q.to = "verified" THEN [[row EXCEPT !.state = q.to] EXCEPT !.verifiedBy = q.actor]
                                 ELSE [row EXCEPT !.state = q.to]
      BY DEF Transitioned, Row
    <3> QED BY <3>1, <3>2, <3>3
  <2> QED BY <1>1, <2>1, <2>2
<1>5. rows[s].state \in States \ {"draft", "verified"} /\ q.to \in States
  BY <1>1, <1>2 DEF TransitionSound, CanTransition, RequestableStates, States
<1>6. RowSound(new)
  <2>1. /\ rows[s].key # NoKey
        /\ rows[s].input \in Inputs /\ rows[s].createdBy \in Actors
        /\ rows[s].result = rows[s].input
        /\ rows[s].verifiedBy = NoActor
    BY <1>1, <1>5 DEF RowSound, States
  <2>2. q.to = "verified" => q.actor # rows[s].createdBy
                             /\ HasPermission(RoleOf[q.actor], "scenario.verify")
    BY <1>2 DEF TransitionSound
  <2> QED BY <1>1, <1>3, <1>5, <2>1, <2>2 DEF RowSound, States
<1>7. Evolves(rows[s], new)
  BY <1>3, <1>5 DEF Evolves, Exists, States
<1>8. /\ x.pc = "answer" /\ x.op = "transition" /\ x.actor = q.actor
      /\ x.scenario = s /\ x.to = q.to /\ x.row = q.row
  BY <1>1 DEF Request
<1>9. RequestSound(x, new)
  <2>1. CopySound(x, new)
    BY <1>2, <1>3, <1>5, <1>8 DEF CopySound, Exists, States
  <2>2. TransitionSound(x, new)
    BY <1>2, <1>3, <1>8 DEF TransitionSound, Manages
  <2> QED BY <1>1, <1>8, <2>1, <2>2 DEF RequestSound
<1>10. e \in Entry
  BY <1>1, <1>4 DEF Entry, Operations, Request
<1>11. rows' = [rows EXCEPT ![s] = new] /\ GoTo(r, "answer") /\ audit' = {e} /\ reply' = {}
  BY DEF TransitionCommit, Record
<1> HIDE DEF e, new, after
<1> QED BY <1>1, <1>4, <1>6, <1>7, <1>9, <1>10, <1>11, Committed

-----------------------------------------------------------------------------
(* Replays.                                                                  *)
LEMMA ReplayLoadSound ==
  ASSUME IInv, NEW r \in Requests, NEW a \in Actors, NEW s \in Scenarios, ReplayLoad(r, a, s)
  PROVE  IInv'
<1> DEFINE refusal == ReplayRefusal(a, rows[s])
<1>1. CASE refusal # "none" /\ RefuseAtOnce("replay", a, s, NoKey, refusal)
  <2>1. refusal \in RefusalStatuses
    BY <1>1 DEF ReplayRefusal, SimulateRefusal, RefusalStatuses, Statuses
  <2> QED BY <1>1, <2>1, RefusedAtOnce DEF Operations
<1>2. CASE /\ refusal = "none"
           /\ Proceed(r, [Idle EXCEPT !.pc = "commit", !.op = "replay", !.actor = a,
                                      !.scenario = s, !.row = rows[s]])
  <2> DEFINE x == [Idle EXCEPT !.pc = "commit", !.op = "replay", !.actor = a,
                               !.scenario = s, !.row = rows[s]]
  <2>1. rows[s] \in Row /\ RowSound(rows[s])
    BY DEF IInv, TypeOK, RowsSound
  <2>2. x \in Request /\ x.op = "replay" /\ x.pc = "commit" /\ x.actor = a
        /\ x.scenario = s /\ x.row = rows[s]
    BY <2>1 DEF Request, Idle, Operations, RequestableStates
  <2>3. Exists(rows[s]) /\ rows[s].state # "draft"
    BY <1>2 DEF ReplayRefusal, SimulateRefusal
  <2>4. rows[s].result = rows[s].input
    BY <2>1, <2>3 DEF RowSound, Row, Exists, States
  <2>5. RequestSound(x, rows[x.scenario])
    BY <2>2, <2>3, <2>4 DEF RequestSound, CopySound, ReplaySound
  <2>6. Proceed(r, x)
    BY <1>2
  <2> HIDE DEF x
  <2> QED BY <2>2, <2>5, <2>6, Proceeded
<1>3. CASE RefuseAtOnce("replay", a, s, NoKey, "not found")
  BY <1>3, RefusedAtOnce DEF RefusalStatuses, Statuses, Operations
<1> QED BY <1>1, <1>2, <1>3 DEF ReplayLoad

LEMMA ReplayCommitSound ==
  ASSUME IInv, NEW r \in Requests, ReplayCommit(r)
  PROVE  IInv'
<1> DEFINE q == requests[r]
           s == q.scenario
           new == Replayed(rows[s], TRUE)
           after == Replayed(q.row, TRUE)
           e == [action |-> q.op, actor |-> q.actor, scenario |-> s,
                 before |-> q.row, after |-> after]
           x == [q EXCEPT !.pc = "answer"]
<1>1. /\ q \in Request /\ q.actor \in Actors /\ s \in Scenarios
      /\ rows[s] \in Row /\ RowSound(rows[s]) /\ RequestSound(q, rows[s])
      /\ q.pc = "commit" /\ q.op = "replay"
  BY RequestFacts DEF ReplayCommit
<1>2. CopySound(q, rows[s]) /\ ReplaySound(q, rows[s])
  BY <1>1 DEF RequestSound
<1>3. /\ new.state = rows[s].state /\ new.key = rows[s].key /\ new.result = rows[s].result
      /\ new.input = rows[s].input /\ new.createdBy = rows[s].createdBy
      /\ new.verifiedBy = rows[s].verifiedBy
  BY <1>1 DEF Replayed, Row
<1>4. new \in Row /\ after \in Row
  <2>1. q.row \in Row
    BY <1>1 DEF Request
  <2>2. ASSUME NEW row \in Row PROVE Replayed(row, TRUE) \in Row
    BY DEF Replayed, Row
  <2> QED BY <1>1, <2>1, <2>2
<1>5. RowSound(new)
  <2>1. rows[s].state # "absent" /\ rows[s].result = rows[s].input
    BY <1>2 DEF CopySound, ReplaySound, Exists
  <2> QED BY <1>1, <1>3, <2>1 DEF RowSound
<1>6. Evolves(rows[s], new)
  BY <1>3 DEF Evolves, Exists
<1>7. /\ x.pc = "answer" /\ x.op = "replay" /\ x.actor = q.actor
      /\ x.scenario = s /\ x.row = q.row
  BY <1>1 DEF Request
<1>8. RequestSound(x, new)
  BY <1>1, <1>2, <1>3, <1>7 DEF RequestSound, CopySound, ReplaySound, Exists
<1>9. e \in Entry
  BY <1>1, <1>4 DEF Entry, Operations, Request
<1>10. Passes(q.row) = TRUE
  BY <1>2 DEF ReplaySound, Passes
<1>11. rows' = [rows EXCEPT ![s] = new] /\ GoTo(r, "answer") /\ audit' = {e} /\ reply' = {}
  BY <1>10 DEF ReplayCommit, Record
<1> HIDE DEF e, new, after
<1> QED BY <1>1, <1>4, <1>5, <1>6, <1>8, <1>9, <1>11, Committed
-----------------------------------------------------------------------------
(* The final answer, and the failures.                                       *)
LEMMA AnswerCommittedSound ==
  ASSUME IInv, NEW r \in Requests, AnswerCommitted(r)
  PROVE  IInv'
<1> DEFINE q == requests[r]
           s == q.scenario
           m == [op |-> q.op, status |-> "success", actor |-> q.actor, scenario |-> s,
                 key |-> q.key, row |-> rows[s]]
<1>1. /\ q \in Request /\ q.actor \in Actors /\ s \in Scenarios /\ q.op \in Operations
      /\ rows[s] \in Row /\ RequestSound(q, rows[s]) /\ q.pc = "answer"
  BY RequestFacts DEF AnswerCommitted
<1>2. q.op = "simulate" => rows[s].result = rows[s].input
  BY <1>1 DEF RequestSound, SimulateSound
<1>3. rows' = rows /\ requests' = [requests EXCEPT ![r] = Idle] /\ audit' = {} /\ reply' = {m}
  BY DEF AnswerCommitted, Answer
<1>4. m \in Reply
  BY <1>1 DEF Reply, Request, Statuses
<1>5. TypeOK'
  BY <1>3, <1>4, EmptyValuesTyped DEF IInv, TypeOK
<1>6. m.op = q.op /\ m.status = "success" /\ m.row = rows[s] /\ m.scenario = s
  OBVIOUS
<1> HIDE DEF m
<1>7. RepliesSound'
  BY <1>2, <1>3, <1>6 DEF RepliesSound, AnswersAreOwnResults, ReplayConfirms
<1>8. RowsSound' /\ RequestsSound' /\ IdsReserved'
  <2>1. Idle \in Request /\ Idle.op # "create"
    BY EmptyValuesTyped DEF Idle
  <2> QED BY <1>3, <2>1, RequestMoves
<1> QED BY <1>5, <1>7, <1>8 DEF IInv

LEMMA CrashSound ==
  ASSUME IInv, Crash
  PROVE  IInv'
<1>1. TypeOK'
  BY EmptyValuesTyped DEF IInv, TypeOK, Crash
<1>2. RepliesSound'
  BY DEF Crash, RepliesSound, AnswersAreOwnResults, ReplayConfirms
<1>3. RowsSound'
  BY DEF IInv, RowsSound, Crash
<1>4. \A r \in Requests : requests'[r] = Idle
  BY DEF Crash
<1>5. RequestsSound' /\ IdsReserved'
  BY <1>4 DEF RequestsSound, IdsReserved, Idle
<1> QED BY <1>1, <1>2, <1>3, <1>5 DEF IInv

-----------------------------------------------------------------------------
(* The invariant holds at first and every step keeps it.                     *)
LEMMA InitSound == Init => IInv
<1> SUFFICES ASSUME Init PROVE IInv
  OBVIOUS
<1>1. TypeOK
  BY EmptyValuesTyped DEF Init, TypeOK
<1>2. RowSound(AbsentRow)
  BY SentinelAssumption DEF RowSound, AbsentRow, States
<1>3. RowsSound /\ RequestsSound
  BY <1>2 DEF Init, RowsSound, RequestsSound
<1>4. IdsReserved
  BY DEF Init, IdsReserved, Idle
<1>5. RepliesSound
  BY DEF Init, RepliesSound, AnswersAreOwnResults, ReplayConfirms
<1> QED BY <1>1, <1>3, <1>4, <1>5 DEF IInv

LEMMA ReceiveSound ==
  ASSUME IInv, NEW r \in Requests, Receive(r)
  PROVE  IInv'
BY CreateFreezeSound, SimulateLoadSound, TransitionLoadSound, ReplayLoadSound DEF Receive

LEMMA HandleSound ==
  ASSUME IInv, NEW r \in Requests, Handle(r)
  PROVE  IInv'
<1>1. CASE SimulateKeyElsewhere(r)
  BY <1>1, Refused DEF SimulateKeyElsewhere, RefusalStatuses, Statuses
<1>2. CASE SimulateLost(r)
  BY <1>2, Refused DEF SimulateLost, RefusalStatuses, Statuses
<1>3. CASE SimulateKeyRace(r)
  BY <1>3, Refused DEF SimulateKeyRace, RefusalStatuses, Statuses
<1>4. CASE TransitionLost(r)
  BY <1>4, Refused DEF TransitionLost, RefusalStatuses, Statuses
<1> QED
  BY <1>1, <1>2, <1>3, <1>4, CreateCommitSound, CreateDuplicateSound, SimulateReuseSound,
     SimulateCheckDraftSound, SimulateCommitSound, TransitionCommitSound,
     ReplayCommitSound, AnswerCommittedSound
  DEF Handle

LEMMA StepSound == IInv /\ [Next]_vars => IInv'
<1> SUFFICES ASSUME IInv, [Next]_vars PROVE IInv'
  OBVIOUS
<1>1. ASSUME NEW r \in Requests, Receive(r) PROVE IInv'
  BY <1>1, ReceiveSound
<1>2. ASSUME NEW r \in Requests, Handle(r) PROVE IInv'
  BY <1>2, HandleSound
<1>3. ASSUME NEW r \in Requests, StoreFails(r) PROVE IInv'
  BY <1>3, Refused DEF StoreFails, RefusalStatuses, Statuses
<1>4. CASE Crash
  BY <1>4, CrashSound
<1>5. CASE UNCHANGED vars
  BY <1>5 DEF vars, IInv, TypeOK, RowsSound, RequestsSound, IdsReserved, RepliesSound,
              AnswersAreOwnResults, ReplayConfirms
<1> QED BY <1>1, <1>2, <1>3, <1>4, <1>5 DEF Next

(* The inductive invariant.                                                  *)
THEOREM Invariant == Spec => []IInv
BY InitSound, StepSound, PTL DEF Spec

(* Every reachable state is well typed.                                      *)
THEOREM TypeCorrect == Spec => []TypeOK
<1>1. IInv => TypeOK
  BY DEF IInv
<1> QED BY <1>1, Invariant, PTL

(* A scenario that has left draft always carries its own result and a key,   *)
(* under every interleaving of requests, failures and crashes.               *)
THEOREM EvidenceAlways == Spec => []EvidenceBacked
<1>1. IInv => EvidenceBacked
  BY DEF IInv, RowsSound, RowSound, EvidenceBacked
<1> QED BY <1>1, Invariant, PTL

(* No scenario is ever verified by its creator or by somebody without the    *)
(* permission to verify.                                                     *)
THEOREM SeparationAlways == Spec => []ReviewerSeparation
<1>1. IInv => ReviewerSeparation
  BY DEF IInv, RowsSound, RowSound, ReviewerSeparation
<1> QED BY <1>1, Invariant, PTL

(* A replay flag always vouches for a stored result.                         *)
THEOREM ReplayFlagAlways == Spec => []ReplayFlagBacked
<1>1. IInv => ReplayFlagBacked
  BY DEF IInv, RowsSound, RowSound, ReplayFlagBacked
<1> QED BY <1>1, Invariant, PTL

(* No replay ever contradicts the stored result.                             *)
THEOREM ReplayAlwaysConfirms == Spec => []ReplayConfirms
<1>1. IInv => ReplayConfirms
  BY DEF IInv, RepliesSound
<1> QED BY <1>1, Invariant, PTL

(* Every successful answer to a simulate request shows the result of the     *)
(* scenario it named.                                                        *)
THEOREM AnswersAlways == Spec => []AnswersAreOwnResults
<1>1. IInv => AnswersAreOwnResults
  BY DEF IInv, RepliesSound
<1> QED BY <1>1, Invariant, PTL
-----------------------------------------------------------------------------
(* Steps that leave the table alone: all but the four commits.               *)
LEMMA OnlyCommitsWrite ==
  ASSUME IInv, [Next]_vars,
         ~\E r \in Requests : \/ CreateCommit(r) \/ SimulateCommit(r)
                              \/ TransitionCommit(r) \/ ReplayCommit(r)
  PROVE  rows' = rows
<1>1. ASSUME NEW r \in Requests, Receive(r) PROVE rows' = rows
  <2>1. ASSUME NEW a, NEW s, NEW i, CreateFreeze(r, a, s, i) PROVE rows' = rows
    BY <2>1 DEF CreateFreeze, Proceed, RefuseAtOnce
  <2>2. ASSUME NEW a, NEW s, NEW k, SimulateLoad(r, a, s, k) PROVE rows' = rows
    BY <2>2 DEF SimulateLoad, Proceed, RefuseAtOnce
  <2>3. ASSUME NEW a, NEW s, NEW to, TransitionLoad(r, a, s, to) PROVE rows' = rows
    BY <2>3 DEF TransitionLoad, Proceed, RefuseAtOnce
  <2>4. ASSUME NEW a, NEW s, ReplayLoad(r, a, s) PROVE rows' = rows
    BY <2>4 DEF ReplayLoad, Proceed, RefuseAtOnce
  <2> QED BY <1>1, <2>1, <2>2, <2>3, <2>4 DEF Receive
<1>2. ASSUME NEW r \in Requests, Handle(r) PROVE rows' = rows
  BY <1>2 DEF Handle, CreateDuplicate, SimulateKeyElsewhere, SimulateReuse, SimulateCheckDraft,
              SimulateLost, SimulateKeyRace, TransitionLost, AnswerCommitted, Refuse, Proceed
<1>3. ASSUME NEW r \in Requests, StoreFails(r) PROVE rows' = rows
  BY <1>3 DEF StoreFails, Refuse
<1>4. CASE Crash
  BY <1>4 DEF Crash
<1>5. CASE UNCHANGED vars
  BY <1>5 DEF vars
<1> QED BY <1>1, <1>2, <1>3, <1>4, <1>5 DEF Next

(* What each commit does to its row, in terms of the row it finds.           *)
LEMMA CreateEffect ==
  ASSUME IInv, NEW r \in Requests, CreateCommit(r)
  PROVE  LET s == requests[r].scenario
             a == requests[r].actor
             new == requests[r].row IN
         /\ s \in Scenarios /\ a \in Actors /\ rows[s] = AbsentRow
         /\ rows' = [rows EXCEPT ![s] = new]
         /\ \E i \in Inputs :
              /\ ~InputTaken(i)
              /\ new = [AbsentRow EXCEPT !.state = "draft", !.input = i, !.createdBy = a]
<1>1. requests[r].pc = "commit" /\ requests[r].op = "create" /\ requests[r].pc # "idle"
  BY DEF CreateCommit
<1>2. CreateSound(requests[r], rows[requests[r].scenario])
      /\ requests[r].actor \in Actors /\ requests[r].scenario \in Scenarios
  BY <1>1, RequestFacts DEF RequestSound
<1>3. PICK i \in Inputs :
        requests[r].row = [AbsentRow EXCEPT !.state = "draft", !.input = i,
                                            !.createdBy = requests[r].actor]
  BY <1>1, <1>2 DEF CreateSound
<1>4. rows[requests[r].scenario] = AbsentRow
  BY <1>1, <1>2 DEF CreateSound
<1>5. requests[r].row.input = i
  BY <1>3 DEF AbsentRow
<1>6. rows' = [rows EXCEPT ![requests[r].scenario] = requests[r].row]
      /\ ~InputTaken(requests[r].row.input)
  BY DEF CreateCommit
<1> QED BY <1>2, <1>3, <1>4, <1>5, <1>6

LEMMA SimulateEffect ==
  ASSUME IInv, NEW r \in Requests, SimulateCommit(r)
  PROVE  LET s == requests[r].scenario
             a == requests[r].actor IN
         /\ s \in Scenarios /\ a \in Actors /\ rows[s].state = "draft"
         /\ rows' = [rows EXCEPT ![s] = Simulated(rows[s], requests[r].key)]
         /\ requests[r].row.state = "draft" /\ Manages(a, rows[s])
BY RequestFacts DEF SimulateCommit, RequestSound, SimulateSound

LEMMA TransitionEffect ==
  ASSUME IInv, NEW r \in Requests, TransitionCommit(r)
  PROVE  LET s == requests[r].scenario
             a == requests[r].actor
             to == requests[r].to IN
         /\ s \in Scenarios /\ a \in Actors /\ to \in RequestableStates
         /\ CanTransition(rows[s].state, to)
         /\ requests[r].row.state = rows[s].state
         /\ rows' = [rows EXCEPT ![s] = Transitioned(rows[s], a, to)]
         /\ IF to = "verified"
            THEN rows[s].createdBy # a /\ HasPermission(RoleOf[a], "scenario.verify")
            ELSE Manages(a, rows[s])
BY RequestFacts DEF TransitionCommit, StateUnchanged, RequestSound, TransitionSound

LEMMA ReplayEffect ==
  ASSUME IInv, NEW r \in Requests, ReplayCommit(r)
  PROVE  /\ requests[r].scenario \in Scenarios
         /\ rows' = [rows EXCEPT ![requests[r].scenario] =
                        Replayed(rows[requests[r].scenario], Passes(requests[r].row))]
BY RequestFacts DEF ReplayCommit

-----------------------------------------------------------------------------
(* Every state change is audited truthfully, by somebody entitled to it.     *)
AuditedChange(s) ==
  rows'[s].state # rows[s].state =>
    \E e \in audit' :
      /\ e.scenario = s
      /\ e.before.state = rows[s].state
      /\ e.after.state = rows'[s].state
      /\ IF rows'[s].state = "verified"
         THEN HasPermission(RoleOf[e.actor], "scenario.verify")
         ELSE Manages(e.actor, rows'[s])

LEMMA ChangesAudited ==
  ASSUME IInv, [Next]_vars, NEW t \in Scenarios
  PROVE  AuditedChange(t)
<1>0. rows \in [Scenarios -> Row] /\ requests \in [Requests -> Request]
  BY DEF IInv, TypeOK
<1>1. ASSUME NEW r \in Requests, CreateCommit(r) PROVE AuditedChange(t)
  <2> DEFINE e == [action |-> "create", actor |-> requests[r].actor,
                   scenario |-> requests[r].scenario, before |-> AbsentRow,
                   after |-> requests[r].row]
  <2>1. audit' = {e}
    BY <1>1 DEF CreateCommit
  <2>2. e.scenario = requests[r].scenario /\ e.before.state = "absent"
        /\ e.after = requests[r].row /\ e.actor = requests[r].actor
    BY DEF AbsentRow
  <2>3. rows[e.scenario].state = "absent"
    <3>1. rows[e.scenario] = AbsentRow
      BY <1>1, <2>2, CreateEffect
    <3> QED BY <3>1 DEF AbsentRow
  <2>4. requests[r].row.state = "draft" /\ requests[r].row.createdBy = requests[r].actor
    <3>1. PICK i \in Inputs :
            requests[r].row = [AbsentRow EXCEPT !.state = "draft", !.input = i,
                                                !.createdBy = requests[r].actor]
      BY <1>1, CreateEffect
    <3> QED BY <3>1 DEF AbsentRow
  <2>5. rows' = [rows EXCEPT ![e.scenario] = requests[r].row] /\ e.scenario \in Scenarios
    BY <1>1, <2>2, CreateEffect
  <2> HIDE DEF e
  <2> QED BY <1>0, <2>1, <2>2, <2>3, <2>4, <2>5 DEF AuditedChange, Manages
<1>2. ASSUME NEW r \in Requests, SimulateCommit(r) PROVE AuditedChange(t)
  <2> DEFINE q == requests[r]
             s == q.scenario
             e == [action |-> q.op, actor |-> q.actor, scenario |-> s, before |-> q.row,
                   after |-> Simulated(q.row, q.key)]
  <2>1. audit' = {e}
    BY <1>2 DEF SimulateCommit, Record
  <2>2. q.row \in Row
    BY <1>0 DEF Request
  <2>3. e.scenario = s /\ e.before = q.row /\ e.after.state = "simulated" /\ e.actor = q.actor
    BY <2>2 DEF Simulated, Row
  <2>4. s \in Scenarios /\ rows[s].state = q.row.state /\ Manages(q.actor, rows[s])
        /\ rows' = [rows EXCEPT ![s] = Simulated(rows[s], q.key)]
    BY <1>2, SimulateEffect
  <2>5. rows'[s].state = "simulated" /\ rows'[s].createdBy = rows[s].createdBy
        /\ (t # s => rows'[t] = rows[t])
    BY <1>0, <2>4 DEF Simulated, Row
  <2> HIDE DEF e
  <2> QED BY <2>1, <2>3, <2>4, <2>5 DEF AuditedChange, Manages
<1>3. ASSUME NEW r \in Requests, TransitionCommit(r) PROVE AuditedChange(t)
  <2> DEFINE q == requests[r]
             s == q.scenario
             e == [action |-> q.op, actor |-> q.actor, scenario |-> s, before |-> q.row,
                   after |-> Transitioned(q.row, q.actor, q.to)]
  <2>1. audit' = {e}
    BY <1>3 DEF TransitionCommit, Record
  <2>2. q.row \in Row
    BY <1>0 DEF Request
  <2>3. e.scenario = s /\ e.before = q.row /\ e.after.state = q.to /\ e.actor = q.actor
    BY <2>2 DEF Transitioned, Row
  <2>4. /\ s \in Scenarios /\ rows[s].state = q.row.state
        /\ rows' = [rows EXCEPT ![s] = Transitioned(rows[s], q.actor, q.to)]
        /\ IF q.to = "verified" THEN HasPermission(RoleOf[q.actor], "scenario.verify")
                                ELSE Manages(q.actor, rows[s])
    BY <1>3, TransitionEffect
  <2>5. rows'[s].state = q.to /\ rows'[s].createdBy = rows[s].createdBy
        /\ (t # s => rows'[t] = rows[t])
    BY <1>0, <2>4 DEF Transitioned, Row
  <2> HIDE DEF e
  <2> QED BY <2>1, <2>3, <2>4, <2>5 DEF AuditedChange, Manages
<1>4. ASSUME NEW r \in Requests, ReplayCommit(r) PROVE AuditedChange(t)
  <2> DEFINE s == requests[r].scenario
  <2>1. s \in Scenarios /\ rows' = [rows EXCEPT ![s] = Replayed(rows[s], Passes(requests[r].row))]
    BY <1>4, ReplayEffect
  <2>2. \A row \in Row : \A passed : Replayed(row, passed).state = row.state
    BY DEF Replayed, Row
  <2>3. rows'[t].state = rows[t].state
    BY <1>0, <2>1, <2>2
  <2> QED BY <2>3 DEF AuditedChange
<1> QED BY <1>1, <1>2, <1>3, <1>4, OnlyCommitsWrite DEF AuditedChange

THEOREM AuditAlways == Spec => StateChangesAudited
<1>1. IInv /\ [Next]_vars =>
        \A s \in Scenarios : rows'[s].state # rows[s].state =>
          \E e \in audit' :
            /\ e.scenario = s
            /\ e.before.state = rows[s].state
            /\ e.after.state = rows'[s].state
            /\ IF rows'[s].state = "verified"
               THEN HasPermission(RoleOf[e.actor], "scenario.verify")
               ELSE Manages(e.actor, rows'[s])
  BY ChangesAudited DEF AuditedChange
<1> QED BY <1>1, Invariant, PTL DEF Spec, StateChangesAudited
-----------------------------------------------------------------------------
(* Successes are the requests' own changes.                                  *)
OwnChanges ==
  /\ \A e \in audit' : e.action # "replay" =>
       /\ e.before.state = rows[e.scenario].state
       /\ e.after.state = rows'[e.scenario].state
       /\ rows'[e.scenario].state # rows[e.scenario].state
  /\ \A r \in Requests : requests'[r].pc = "answer" /\ requests[r].pc # "answer" =>
       \E e \in audit' : e.action = requests[r].op /\ e.actor = requests[r].actor
                         /\ e.scenario = requests[r].scenario
  /\ \A m \in reply' : m.status = "success" =>
       \E r \in Requests : requests[r].pc = "answer" /\ requests'[r].pc = "idle"
                          /\ m.op = requests[r].op /\ m.actor = requests[r].actor
                          /\ m.scenario = requests[r].scenario

(* A step without an audit entry that brings no request to its answer.       *)
Quiet ==
  /\ audit' = {}
  /\ \A r \in Requests : requests'[r].pc = "answer" => requests[r].pc = "answer"
  /\ \A m \in reply' : m.status # "success"

LEMMA AnswerStatus ==
  ASSUME NEW r \in Requests, NEW status, NEW row, Answer(r, status, row)
  PROVE  \A m \in reply' : m.status = status
  BY DEF Answer

LEMMA QuietChangesNothing == Quiet => OwnChanges
  BY DEF Quiet, OwnChanges

LEMMA CommitOwnsChange ==
  ASSUME IInv, NEW r \in Requests, requests[r].pc = "commit", GoTo(r, "answer"), reply' = {},
         NEW e, audit' = {e},
         e.action = requests[r].op, e.actor = requests[r].actor,
         e.scenario = requests[r].scenario,
         e.action # "replay" =>
           /\ e.before.state = rows[e.scenario].state
           /\ e.after.state = rows'[e.scenario].state
           /\ rows'[e.scenario].state # rows[e.scenario].state
  PROVE  OwnChanges
<1>1. \A q \in Requests \ {r} : requests'[q] = requests[q]
  BY DEF GoTo, IInv, TypeOK
<1> QED BY <1>1 DEF OwnChanges

LEMMA RefusalsAreQuiet ==
  ASSUME IInv, NEW r \in Requests,
         \/ \E status \in RefusalStatuses : Refuse(r, status)
         \/ \E op, a, s, k : \E status \in RefusalStatuses : RefuseAtOnce(op, a, s, k, status)
         \/ \E x : x.pc # "answer" /\ Proceed(r, x)
  PROVE  Quiet
<1>0. requests \in [Requests -> Request]
  BY DEF IInv, TypeOK
<1>1. CASE \E status \in RefusalStatuses : Refuse(r, status)
  <2>1. PICK status \in RefusalStatuses : Refuse(r, status)
    BY <1>1
  <2>2. \A m \in reply' : m.status = status
    BY <2>1, AnswerStatus DEF Refuse
  <2>3. audit' = {} /\ requests' = [requests EXCEPT ![r] = Idle] /\ Idle.pc = "idle"
    BY <2>1 DEF Refuse, Answer, Idle
  <2> QED BY <1>0, <2>2, <2>3 DEF Quiet, RefusalStatuses
<1>2. CASE \E op, a, s, k : \E status \in RefusalStatuses : RefuseAtOnce(op, a, s, k, status)
  <2>1. PICK op, a, s, k : \E status \in RefusalStatuses : RefuseAtOnce(op, a, s, k, status)
    BY <1>2
  <2>2. PICK status \in RefusalStatuses : RefuseAtOnce(op, a, s, k, status)
    BY <2>1
  <2>3. \A m \in reply' : m.status = status
    BY <2>2 DEF RefuseAtOnce
  <2> QED BY <2>2, <2>3 DEF RefuseAtOnce, Quiet, RefusalStatuses
<1>3. CASE \E x : x.pc # "answer" /\ Proceed(r, x)
  <2>1. PICK x : x.pc # "answer" /\ Proceed(r, x)
    BY <1>3
  <2> QED BY <1>0, <2>1 DEF Proceed, Quiet
<1> QED BY <1>1, <1>2, <1>3

LEMMA ReceivingIsQuiet ==
  ASSUME IInv, NEW r \in Requests, Receive(r)
  PROVE  Quiet
<1>1. ASSUME NEW a \in Actors, NEW s \in Scenarios, NEW i \in Inputs, CreateFreeze(r, a, s, i)
      PROVE  Quiet
  <2> DEFINE x == [Idle EXCEPT !.pc = "commit", !.op = "create", !.actor = a, !.scenario = s,
                               !.row = [AbsentRow EXCEPT !.state = "draft", !.input = i,
                                                         !.createdBy = a]]
  <2>1. x.pc # "answer" BY DEF Idle
  <2>2. Proceed(r, x) BY <1>1 DEF CreateFreeze
  <2> HIDE DEF x
  <2> QED BY <2>1, <2>2, RefusalsAreQuiet
<1>2. ASSUME NEW a \in Actors, NEW s \in Scenarios, NEW k \in Keys, SimulateLoad(r, a, s, k)
      PROVE  Quiet
  <2> DEFINE x == [Idle EXCEPT !.pc = "lookup", !.op = "simulate", !.actor = a, !.scenario = s,
                               !.key = k, !.row = rows[s]]
             refusal == SimulateRefusal(a, rows[s])
  <2>1. x.pc # "answer" BY DEF Idle
  <2>2. refusal \in RefusalStatuses \cup {"none"} /\ "not found" \in RefusalStatuses
    BY DEF SimulateRefusal, RefusalStatuses, Statuses
  <2>3. \/ refusal # "none" /\ RefuseAtOnce("simulate", a, s, k, refusal)
        \/ RefuseAtOnce("simulate", a, s, k, "not found")
        \/ Proceed(r, x)
    BY <1>2 DEF SimulateLoad
  <2> HIDE DEF x, refusal
  <2> QED BY <2>1, <2>2, <2>3, RefusalsAreQuiet
<1>3. ASSUME NEW a \in Actors, NEW s \in Scenarios, NEW to \in RequestableStates,
             TransitionLoad(r, a, s, to)
      PROVE  Quiet
  <2> DEFINE x == [Idle EXCEPT !.pc = "commit", !.op = "transition", !.actor = a,
                               !.scenario = s, !.to = to, !.row = rows[s]]
             refusal == TransitionRefusal(a, rows[s], to)
             error == TransitionReadError(a, to)
  <2>1. x.pc # "answer" BY DEF Idle
  <2>2. refusal \in RefusalStatuses \cup {"none"}
    BY DEF TransitionRefusal, ServiceRefusal, HandlerRefusal, RefusalStatuses, Statuses
  <2>3. error \in RefusalStatuses
    BY DEF TransitionReadError, RefusalStatuses, Statuses
  <2>4. \/ refusal # "none" /\ RefuseAtOnce("transition", a, s, NoKey, refusal)
        \/ RefuseAtOnce("transition", a, s, NoKey, error)
        \/ Proceed(r, x)
    BY <1>3 DEF TransitionLoad
  <2> HIDE DEF x, refusal, error
  <2> QED BY <2>1, <2>2, <2>3, <2>4, RefusalsAreQuiet
<1>4. ASSUME NEW a \in Actors, NEW s \in Scenarios, ReplayLoad(r, a, s)
      PROVE  Quiet
  <2> DEFINE x == [Idle EXCEPT !.pc = "commit", !.op = "replay", !.actor = a,
                               !.scenario = s, !.row = rows[s]]
             refusal == ReplayRefusal(a, rows[s])
  <2>1. x.pc # "answer" BY DEF Idle
  <2>2. refusal \in RefusalStatuses \cup {"none"} /\ "not found" \in RefusalStatuses
    BY DEF ReplayRefusal, SimulateRefusal, RefusalStatuses, Statuses
  <2>3. \/ refusal # "none" /\ RefuseAtOnce("replay", a, s, NoKey, refusal)
        \/ RefuseAtOnce("replay", a, s, NoKey, "not found")
        \/ Proceed(r, x)
    BY <1>4 DEF ReplayLoad
  <2> HIDE DEF x, refusal
  <2> QED BY <2>1, <2>2, <2>3, RefusalsAreQuiet
<1> QED BY <1>1, <1>2, <1>3, <1>4 DEF Receive

LEMMA CommitsOwnTheirChanges ==
  ASSUME IInv, NEW r \in Requests,
         CreateCommit(r) \/ SimulateCommit(r) \/ TransitionCommit(r) \/ ReplayCommit(r)
  PROVE  OwnChanges
<1> DEFINE q == requests[r]
           s == q.scenario
<1>0. rows \in [Scenarios -> Row] /\ requests \in [Requests -> Request] /\ q.row \in Row
  BY DEF IInv, TypeOK, Request
<1>1. CASE CreateCommit(r)
  <2> DEFINE e == [action |-> "create", actor |-> q.actor, scenario |-> s,
                   before |-> AbsentRow, after |-> q.row]
  <2>1. q.pc = "commit" /\ GoTo(r, "answer") /\ reply' = {} /\ audit' = {e} /\ q.op = "create"
    BY <1>1 DEF CreateCommit
  <2>2. rows[s] = AbsentRow /\ rows' = [rows EXCEPT ![s] = q.row] /\ s \in Scenarios
    BY <1>1, CreateEffect
  <2>3. q.row.state = "draft"
    <3>1. PICK i \in Inputs :
            q.row = [AbsentRow EXCEPT !.state = "draft", !.input = i, !.createdBy = q.actor]
      BY <1>1, CreateEffect
    <3> QED BY <3>1 DEF AbsentRow
  <2>4. rows[s].state = "absent" /\ AbsentRow.state = "absent" /\ rows'[s].state = "draft"
    BY <1>0, <2>2, <2>3 DEF AbsentRow
  <2>5. e.action = "create" /\ e.actor = q.actor /\ e.scenario = s
        /\ e.before = AbsentRow /\ e.after = q.row
    OBVIOUS
  <2> HIDE DEF e
  <2> QED BY <2>1, <2>3, <2>4, <2>5, CommitOwnsChange
<1>2. CASE SimulateCommit(r)
  <2> DEFINE e == [action |-> q.op, actor |-> q.actor, scenario |-> s, before |-> q.row,
                   after |-> Simulated(q.row, q.key)]
  <2>1. q.pc = "commit" /\ GoTo(r, "answer") /\ reply' = {} /\ audit' = {e}
    BY <1>2 DEF SimulateCommit, Record
  <2>2. s \in Scenarios /\ rows[s].state = "draft" /\ q.row.state = "draft"
        /\ rows' = [rows EXCEPT ![s] = Simulated(rows[s], q.key)]
    BY <1>2, SimulateEffect
  <2>3. rows'[s].state = "simulated"
    BY <1>0, <2>2 DEF Simulated, Row
  <2>4. e.action = q.op /\ e.actor = q.actor /\ e.scenario = s
        /\ e.before = q.row /\ e.after.state = "simulated"
    BY <1>0 DEF Simulated, Row
  <2> HIDE DEF e
  <2> QED BY <2>1, <2>2, <2>3, <2>4, CommitOwnsChange
<1>3. CASE TransitionCommit(r)
  <2> DEFINE e == [action |-> q.op, actor |-> q.actor, scenario |-> s, before |-> q.row,
                   after |-> Transitioned(q.row, q.actor, q.to)]
  <2>1. q.pc = "commit" /\ GoTo(r, "answer") /\ reply' = {} /\ audit' = {e}
    BY <1>3 DEF TransitionCommit, Record
  <2>2. s \in Scenarios /\ rows[s].state = q.row.state /\ CanTransition(rows[s].state, q.to)
        /\ rows' = [rows EXCEPT ![s] = Transitioned(rows[s], q.actor, q.to)]
    BY <1>3, TransitionEffect
  <2>3. rows'[s].state = q.to
    BY <1>0, <2>2 DEF Transitioned, Row
  <2>4. q.to # rows[s].state
    BY <2>2 DEF CanTransition
  <2>5. e.action = q.op /\ e.actor = q.actor /\ e.scenario = s
        /\ e.before = q.row /\ e.after.state = q.to
    BY <1>0 DEF Transitioned, Row
  <2> HIDE DEF e
  <2> QED BY <2>1, <2>2, <2>3, <2>4, <2>5, CommitOwnsChange
<1>4. CASE ReplayCommit(r)
  <2> DEFINE e == [action |-> q.op, actor |-> q.actor, scenario |-> s, before |-> q.row,
                   after |-> Replayed(q.row, Passes(q.row))]
  <2>1. q.pc = "commit" /\ q.op = "replay" /\ audit' = {e}
    BY <1>4 DEF ReplayCommit, Record
  <2>2. e.action = "replay" /\ e.actor = q.actor /\ e.scenario = s
    BY <2>1
  <2> HIDE DEF e
  <2>3. CASE GoTo(r, "answer") /\ reply' = {}
    BY <2>1, <2>2, <2>3, CommitOwnsChange
  <2>4. CASE Answer(r, "replay differs", AbsentRow)
    <3>1. \A p \in Requests : requests'[p].pc = "answer" => requests[p].pc = "answer"
      BY <1>0, <2>4 DEF Answer, Idle
    <3>2. \A m \in reply' : m.status = "replay differs"
      BY <2>4, AnswerStatus
    <3> QED BY <2>1, <2>2, <3>1, <3>2 DEF OwnChanges
  <2> QED BY <1>4, <2>3, <2>4 DEF ReplayCommit
<1> QED BY <1>1, <1>2, <1>3, <1>4

LEMMA StepsOwnTheirChanges ==
  ASSUME IInv, Next
  PROVE  OwnChanges
<1>0. requests \in [Requests -> Request]
  BY DEF IInv, TypeOK
<1>1. ASSUME NEW r \in Requests, Receive(r) PROVE OwnChanges
  BY <1>1, ReceivingIsQuiet, QuietChangesNothing
<1>2. ASSUME NEW r \in Requests, NEW status \in RefusalStatuses, Refuse(r, status)
      PROVE  OwnChanges
  BY <1>2, RefusalsAreQuiet, QuietChangesNothing
<1>3. ASSUME NEW r \in Requests, Handle(r) PROVE OwnChanges
  <2>1. CASE CreateCommit(r) \/ SimulateCommit(r) \/ TransitionCommit(r) \/ ReplayCommit(r)
    BY <2>1, CommitsOwnTheirChanges
  <2>2. CASE \/ CreateDuplicate(r) \/ SimulateKeyElsewhere(r) \/ SimulateLost(r)
             \/ SimulateKeyRace(r) \/ TransitionLost(r)
    <3>1. \E status \in RefusalStatuses : Refuse(r, status)
      BY <2>2 DEF CreateDuplicate, SimulateKeyElsewhere, SimulateLost, SimulateKeyRace,
                  TransitionLost, RefusalStatuses, Statuses
    <3> QED BY <3>1, <1>2
  <2>3. CASE SimulateReuse(r)
    <3>1. Quiet
      BY <1>0, <2>3 DEF SimulateReuse, Answer, Idle, Quiet
    <3> QED BY <3>1, QuietChangesNothing
  <2>4. CASE SimulateCheckDraft(r)
    <3>1. CASE Refuse(r, "state conflict")
      BY <3>1, <1>2 DEF RefusalStatuses, Statuses
    <3>2. CASE Proceed(r, [requests[r] EXCEPT !.pc = "commit"])
      <4> DEFINE x == [requests[r] EXCEPT !.pc = "commit"]
      <4>1. x.pc # "answer" BY <1>0 DEF Request
      <4>2. Proceed(r, x) BY <3>2
      <4> HIDE DEF x
      <4> QED BY <4>1, <4>2, RefusalsAreQuiet, QuietChangesNothing
    <3> QED BY <2>4, <3>1, <3>2 DEF SimulateCheckDraft
  <2>5. CASE AnswerCommitted(r)
    <3>1. requests[r].pc = "answer" /\ requests' = [requests EXCEPT ![r] = Idle] /\ audit' = {}
          /\ \A m \in reply' : m.op = requests[r].op /\ m.actor = requests[r].actor
                               /\ m.scenario = requests[r].scenario
      BY <2>5 DEF AnswerCommitted, Answer
    <3>2. requests'[r].pc = "idle" /\ \A q \in Requests \ {r} : requests'[q] = requests[q]
      BY <1>0, <3>1 DEF Idle
    <3> QED BY <3>1, <3>2 DEF OwnChanges
  <2> QED BY <1>3, <2>1, <2>2, <2>3, <2>4, <2>5 DEF Handle
<1>4. ASSUME NEW r \in Requests, StoreFails(r) PROVE OwnChanges
  BY <1>4, <1>2 DEF StoreFails, RefusalStatuses, Statuses
<1>5. CASE Crash
  BY <1>5 DEF Crash, Idle, OwnChanges
<1> QED BY <1>1, <1>3, <1>4, <1>5 DEF Next

(* Only the request whose UPDATE moved the row from the state it had read is *)
(* audited, and only an audited request is answered with a success.          *)
THEOREM SuccessAlwaysOwnChange == Spec => SuccessIsOwnChange
<1>1. IInv /\ Next =>
        /\ \A e \in audit' : e.action # "replay" =>
             /\ e.before.state = rows[e.scenario].state
             /\ e.after.state = rows'[e.scenario].state
             /\ rows'[e.scenario].state # rows[e.scenario].state
        /\ \A r \in Requests : requests'[r].pc = "answer" /\ requests[r].pc # "answer" =>
             \E e \in audit' : e.action = requests[r].op /\ e.actor = requests[r].actor
                               /\ e.scenario = requests[r].scenario
        /\ \A m \in reply' : m.status = "success" =>
             \E r \in Requests : requests[r].pc = "answer" /\ requests'[r].pc = "idle"
                                /\ m.op = requests[r].op /\ m.actor = requests[r].actor
                                /\ m.scenario = requests[r].scenario
  BY StepsOwnTheirChanges DEF OwnChanges
<1> QED BY <1>1, Invariant, PTL DEF Spec, SuccessIsOwnChange
-----------------------------------------------------------------------------
(* No stored scenario but s has the input or the key of a row.               *)
Distinct(s, row) ==
  \A t \in Scenarios \ {s} :
    Exists(rows[t]) => row.input # rows[t].input /\ row.key # rows[t].key

(* No two scenarios share an input or a key: the unique indexes are checked  *)
(* in the step that writes, however old the lookup is.                       *)
LEMMA IdentityKept ==
  ASSUME IInv, NoSharedIdentity, NEW s \in Scenarios, NEW new,
         rows' = [rows EXCEPT ![s] = new], Distinct(s, new)
  PROVE  NoSharedIdentity'
<1>1. rows'[s] = new /\ \A t \in Scenarios \ {s} : rows'[t] = rows[t]
  BY DEF IInv, TypeOK
<1> SUFFICES ASSUME NEW t \in Scenarios, NEW u \in Scenarios, t # u,
                    Exists(rows'[t]), Exists(rows'[u])
             PROVE  rows'[t].input # rows'[u].input /\ rows'[t].key # rows'[u].key
  BY DEF NoSharedIdentity, Exists
<1>2. CASE t = s
  BY <1>1, <1>2 DEF Distinct
<1>3. CASE u = s
  BY <1>1, <1>3 DEF Distinct
<1>4. CASE t # s /\ u # s
  BY <1>1, <1>4 DEF NoSharedIdentity
<1> QED BY <1>2, <1>3, <1>4

LEMMA IdentityStep == IInv /\ NoSharedIdentity /\ [Next]_vars => NoSharedIdentity'
<1> SUFFICES ASSUME IInv, NoSharedIdentity, [Next]_vars PROVE NoSharedIdentity'
  OBVIOUS
<1>1. rows \in [Scenarios -> Row] /\ requests \in [Requests -> Request]
  BY DEF IInv, TypeOK
<1>2. ASSUME NEW r \in Requests, CreateCommit(r) PROVE NoSharedIdentity'
  <2> DEFINE s == requests[r].scenario
             new == requests[r].row
  <2>1. s \in Scenarios /\ rows' = [rows EXCEPT ![s] = new]
    BY <1>2, CreateEffect
  <2>2. Distinct(s, new)
    BY <1>2 DEF CreateCommit, InputTaken, KeyTaken, Distinct
  <2> HIDE DEF s, new
  <2> QED BY <2>1, <2>2, IdentityKept
<1>3. ASSUME NEW r \in Requests, SimulateCommit(r) PROVE NoSharedIdentity'
  <2> DEFINE s == requests[r].scenario
             new == Simulated(rows[s], requests[r].key)
  <2>1. s \in Scenarios /\ rows[s].state = "draft" /\ rows' = [rows EXCEPT ![s] = new]
    BY <1>3, SimulateEffect
  <2>2. new.input = rows[s].input /\ new.key = requests[r].key
    BY <1>1, <2>1 DEF Simulated, Row
  <2>3. \A t \in Scenarios \ {s} : Exists(rows[t]) => rows[t].key # requests[r].key
    BY <1>3 DEF SimulateCommit, KeyTaken
  <2>4. \A t \in Scenarios \ {s} : Exists(rows[t]) => rows[s].input # rows[t].input
    BY <2>1 DEF NoSharedIdentity, Exists
  <2> HIDE DEF s, new
  <2>5. Distinct(s, new)
    BY <2>2, <2>3, <2>4 DEF Distinct
  <2> QED BY <2>1, <2>5, IdentityKept
<1>4. ASSUME NEW s \in Scenarios, NEW new, rows' = [rows EXCEPT ![s] = new], Exists(rows[s]),
             new.input = rows[s].input, new.key = rows[s].key
      PROVE  NoSharedIdentity'
  <2>1. Distinct(s, new)
    BY <1>4 DEF NoSharedIdentity, Distinct
  <2> QED BY <1>4, <2>1, IdentityKept
<1>5. ASSUME NEW r \in Requests, TransitionCommit(r) PROVE NoSharedIdentity'
  <2> DEFINE s == requests[r].scenario
             new == Transitioned(rows[s], requests[r].actor, requests[r].to)
  <2>1. s \in Scenarios /\ CanTransition(rows[s].state, requests[r].to)
        /\ rows' = [rows EXCEPT ![s] = new]
    BY <1>5, TransitionEffect
  <2>2. Exists(rows[s])
    BY <2>1 DEF CanTransition, Exists
  <2>3. new.input = rows[s].input /\ new.key = rows[s].key
    BY <1>1, <2>1 DEF Transitioned, Row
  <2> HIDE DEF s, new
  <2> QED BY <1>4, <2>1, <2>2, <2>3
<1>6. ASSUME NEW r \in Requests, ReplayCommit(r) PROVE NoSharedIdentity'
  <2> DEFINE s == requests[r].scenario
             new == Replayed(rows[s], Passes(requests[r].row))
  <2>1. s \in Scenarios /\ rows' = [rows EXCEPT ![s] = new]
    BY <1>6, ReplayEffect
  <2>2. Exists(rows[s])
    BY <1>6, RequestFacts DEF ReplayCommit, RequestSound, CopySound
  <2>3. new.input = rows[s].input /\ new.key = rows[s].key
    BY <1>1, <2>1 DEF Replayed, Row
  <2> HIDE DEF s, new
  <2> QED BY <1>4, <2>1, <2>2, <2>3
<1> QED BY <1>2, <1>3, <1>5, <1>6, OnlyCommitsWrite DEF NoSharedIdentity

(* No two scenarios ever share a frozen input or an idempotency key.         *)
THEOREM IdentityNeverShared == Spec => []NoSharedIdentity
<1>1. Init => NoSharedIdentity
  BY DEF Init, NoSharedIdentity, Exists, AbsentRow
<1> QED BY <1>1, IdentityStep, Invariant, PTL DEF Spec
=============================================================================
