-------------------------- MODULE ScenarioLifecycle --------------------------
(* The rollover scenario service (service/rollover_scenario_service.go with  *)
(* its handler, routes and repository).  Every HTTP request is a goroutine:  *)
(* it reads a row outside any transaction, decides on that copy, and then    *)
(* runs one transaction that writes the row and appends an audit entry.  The *)
(* model keeps each of those database accesses a step of its own, so that    *)
(* the steps of two requests interleave in every order.                      *)
(*                                                                           *)
(* A frozen input is one (hash, algorithm version, simulation time) triple;  *)
(* the result of simulating an input is named by that input, which is what   *)
(* the deterministic simulator makes it (see Simulator).                     *)
EXTENDS AccessControl

CONSTANTS Scenarios,   \* row ids that may be allocated (bounds the table)
          Actors,      \* authenticated users
          RoleOf,      \* the role in each user's token
          Keys,        \* non-empty Idempotency-Key values
          Inputs,      \* frozen inputs
          Requests,    \* request goroutines that may run at once
          NoKey,       \* the empty idempotency key a new row is stored with
          NoActor, NoInput, NoScenario

ASSUME RoleAssumption == RoleOf \in [Actors -> Roles]
ASSUME SentinelAssumption ==
  /\ NoKey \notin Keys
  /\ NoActor \notin Actors
  /\ NoInput \notin Inputs
  /\ NoScenario \notin Scenarios

VARIABLES
  rows,         \* the rollover_scenarios table
  requests,     \* what each goroutine holds between two database accesses
  audit,        \* the entry the last step appended to the audit log: none or one
  reply         \* the HTTP answer the last step sent: none or one

vars == <<rows, requests, audit, reply>>

States == {"draft", "simulated", "ready", "executing", "verified", "rollback"}

(* A row.  "absent" stands for an id that no INSERT has used.                *)
Row == [state          : States \cup {"absent"},
        input          : Inputs \cup {NoInput},
        createdBy      : Actors \cup {NoActor},
        verifiedBy     : Actors \cup {NoActor},
        key            : Keys \cup {NoKey},
        result         : Inputs \cup {NoInput},
        replayVerified : BOOLEAN]

AbsentRow == [state |-> "absent", input |-> NoInput, createdBy |-> NoActor,
              verifiedBy |-> NoActor, key |-> NoKey, result |-> NoInput,
              replayVerified |-> FALSE]

Operations == {"create", "simulate", "transition", "replay"}

(* Mutant: the validator of the transition request forgets to leave out the  *)
(* state that only a simulation may reach.                                   *)
AnyStateRequestable == States

(* The states a client may ask for: the validator leaves "simulated" out.    *)
RequestableStates == {"draft", "ready", "executing", "verified", "rollback"}

(* "lookup": before the query by idempotency key; "commit": before the       *)
(* transaction; "answer": before the final Get of the row.                   *)
Request == [pc       : {"idle", "lookup", "commit", "answer"},
            op       : Operations \cup {"none"},
            actor    : Actors \cup {NoActor},
            scenario : Scenarios \cup {NoScenario},
            key      : Keys \cup {NoKey},
            to       : RequestableStates \cup {"none"},
            row      : Row]

Idle == [pc |-> "idle", op |-> "none", actor |-> NoActor, scenario |-> NoScenario,
         key |-> NoKey, to |-> "none", row |-> AbsentRow]

Statuses == {"success", "reused", "forbidden", "not found", "state conflict",
             "reviewer conflict", "key conflict", "changed concurrently",
             "identical exists", "replay differs", "internal error"}

Reply == [op : Operations, status : Statuses, actor : Actors,
          scenario : Scenarios, key : Keys \cup {NoKey}, row : Row]

Entry == [action : Operations, actor : Actors, scenario : Scenarios,
          before : Row, after : Row]

-----------------------------------------------------------------------------
(* Decisions taken on a copy of the row.                                     *)

Exists(row) == row.state # "absent"

(* requireScenarioOwnership                                                  *)
Manages(actor, row) ==
  \/ RoleOf[actor] \in PkiAdministrators
  \/ row.createdBy = actor

(* Mutant: the separation compares the wrong column.                         *)
SeparatedFromVerifier(actor, row) == row.verifiedBy # actor

(* RolloverScenario.ReviewerSeparated                                        *)
ReviewerSeparated(actor, row) == row.createdBy # actor

(* Mutant: a verified scenario may still be rolled back.                     *)
RollbackAfterVerify(from, to) ==
  <<from, to>> \in {<<"draft", "simulated">>,
                    <<"simulated", "ready">>, <<"simulated", "draft">>,
                    <<"ready", "executing">>, <<"ready", "draft">>,
                    <<"executing", "verified">>, <<"executing", "rollback">>,
                    <<"verified", "rollback">>}

(* CanTransitionScenario                                                     *)
CanTransition(from, to) ==
  <<from, to>> \in {<<"draft", "simulated">>,
                    <<"simulated", "ready">>, <<"simulated", "draft">>,
                    <<"ready", "executing">>, <<"ready", "draft">>,
                    <<"executing", "verified">>, <<"executing", "rollback">>}

(* The unique indexes of the table: idx_scenario_input and the one on        *)
(* idempotency_key, under which "" is a value like any other.                *)
InputTaken(i) == \E s \in Scenarios : Exists(rows[s]) /\ rows[s].input = i
KeyTaken(k, by) == \E s \in Scenarios \ {by} : Exists(rows[s]) /\ rows[s].key = k

-----------------------------------------------------------------------------
(* How a step ends a request, and how it passes on to the next access.       *)

Answer(r, status, row) ==
  /\ reply' = {[op |-> requests[r].op, status |-> status, actor |-> requests[r].actor,
                scenario |-> requests[r].scenario, key |-> requests[r].key, row |-> row]}
  /\ requests' = [requests EXCEPT ![r] = Idle]

Refuse(r, status) ==
  /\ Answer(r, status, AbsentRow)
  /\ UNCHANGED rows
  /\ audit' = {}

(* A request that is refused by its first checks never leaves a trace in     *)
(* the table: it is answered in the step that received it.                   *)
RefuseAtOnce(op, actor, s, k, status) ==
  /\ reply' = {[op |-> op, status |-> status, actor |-> actor, scenario |-> s,
                key |-> k, row |-> AbsentRow]}
  /\ audit' = {}
  /\ UNCHANGED <<rows, requests>>

Proceed(r, request) ==
  /\ requests' = [requests EXCEPT ![r] = request]
  /\ reply' = {}
  /\ audit' = {}
  /\ UNCHANGED rows

(* recordAudit inside the transaction: `before` is the copy the request read *)
(* earlier, `after` that copy with the request's own changes.                *)
Record(r, after) ==
  audit' = {[action |-> requests[r].op, actor |-> requests[r].actor,
             scenario |-> requests[r].scenario, before |-> requests[r].row,
             after |-> after]}

GoTo(r, pc) == requests' = [requests EXCEPT ![r].pc = pc]

-----------------------------------------------------------------------------
Init ==
  /\ rows = [s \in Scenarios |-> AbsentRow]
  /\ requests = [r \in Requests |-> Idle]
  /\ audit = {}
  /\ reply = {}

(* Create: read the catalogue, freeze and hash it.  The input is whatever    *)
(* the other tables made of the request.  `s` is the id the sequence of the  *)
(* primary key hands out, different for every INSERT, failed ones included.  *)
CreateFreeze(r, a, s, i) ==
  /\ requests[r].pc = "idle"
  /\ HasPermission(RoleOf[a], "scenario.write")
  /\ rows[s].state = "absent"
  /\ \A q \in Requests : requests[q].op = "create" => requests[q].scenario # s
  /\ Proceed(r, [Idle EXCEPT !.pc = "commit", !.op = "create", !.actor = a,
                             !.scenario = s,
                             !.row = [AbsentRow EXCEPT !.state = "draft", !.input = i,
                                                       !.createdBy = a]])

CreateCommit(r) ==
  LET new == requests[r].row IN
  /\ requests[r].pc = "commit" /\ requests[r].op = "create"
  /\ ~InputTaken(new.input) /\ ~KeyTaken(new.key, requests[r].scenario)
  /\ rows' = [rows EXCEPT ![requests[r].scenario] = new]
  /\ audit' = {[action |-> "create", actor |-> requests[r].actor,
                scenario |-> requests[r].scenario, before |-> AbsentRow, after |-> new]}
  /\ GoTo(r, "answer")
  /\ reply' = {}

(* Either unique index rejects the INSERT; both are answered alike.          *)
CreateDuplicate(r) ==
  /\ requests[r].pc = "commit" /\ requests[r].op = "create"
  /\ \/ InputTaken(requests[r].row.input)
     \/ KeyTaken(requests[r].row.key, requests[r].scenario)
  /\ Refuse(r, "identical exists")

-----------------------------------------------------------------------------
(* Simulate: the route's permission, the row, ownership.  Here, in Transition*)
(* and in Replay any error of the first read is answered like a missing row. *)
SimulateRefusal(a, row) ==
  IF ~HasPermission(RoleOf[a], "scenario.run") THEN "forbidden"
  ELSE IF ~Exists(row) THEN "not found"
  ELSE IF ~Manages(a, row) THEN "forbidden"
  ELSE "none"

SimulateLoad(r, a, s, k) ==
  LET refusal == SimulateRefusal(a, rows[s]) IN
  /\ requests[r].pc = "idle"
  /\ \/ refusal # "none" /\ RefuseAtOnce("simulate", a, s, k, refusal)
     \/ HasPermission(RoleOf[a], "scenario.run") /\ RefuseAtOnce("simulate", a, s, k, "not found")
     \/ refusal = "none" /\ Proceed(r, [Idle EXCEPT !.pc = "lookup", !.op = "simulate",
                                                    !.actor = a, !.scenario = s,
                                                    !.key = k, !.row = rows[s]])

(* FindByIdempotencyKey: some other row holds the key.                       *)
SimulateKeyElsewhere(r) ==
  /\ requests[r].pc = "lookup"
  /\ KeyTaken(requests[r].key, requests[r].scenario)
  /\ Refuse(r, "key conflict")

(* FindByIdempotencyKey: this row holds the key; its stored row is returned. *)
SimulateReuse(r) ==
  LET s == requests[r].scenario IN
  /\ requests[r].pc = "lookup"
  /\ Exists(rows[s]) /\ rows[s].key = requests[r].key
  /\ Answer(r, "reused", rows[s])
  /\ audit' = {}
  /\ UNCHANGED rows

(* No row holds the key: only a draft, on the copy read earlier, goes on.    *)
SimulateCheckDraft(r) ==
  /\ requests[r].pc = "lookup"
  /\ \A s \in Scenarios : ~(Exists(rows[s]) /\ rows[s].key = requests[r].key)
  /\ \/ requests[r].row.state # "draft" /\ Refuse(r, "state conflict")
     \/ requests[r].row.state = "draft" /\ Proceed(r, [requests[r] EXCEPT !.pc = "commit"])

(* CompleteSimulation writes WHERE scenario_state = 'draft'.                 *)
Simulated(row, k) == [row EXCEPT !.state = "simulated", !.result = row.input, !.key = k]

(* Mutant: nothing but the earlier lookup keeps keys apart.                  *)
CommitOnLookupAlone(r) ==
  LET s == requests[r].scenario
      k == requests[r].key IN
  /\ requests[r].pc = "commit" /\ requests[r].op = "simulate"
  /\ rows[s].state = "draft"
  /\ rows' = [rows EXCEPT ![s] = Simulated(@, k)]
  /\ Record(r, Simulated(requests[r].row, k))
  /\ GoTo(r, "answer")
  /\ reply' = {}

SimulateCommit(r) ==
  LET s == requests[r].scenario
      k == requests[r].key IN
  /\ requests[r].pc = "commit" /\ requests[r].op = "simulate"
  /\ rows[s].state = "draft"
  /\ ~KeyTaken(k, s)
  /\ rows' = [rows EXCEPT ![s] = Simulated(@, k)]
  /\ Record(r, Simulated(requests[r].row, k))
  /\ GoTo(r, "answer")
  /\ reply' = {}

SimulateLost(r) ==
  /\ requests[r].pc = "commit" /\ requests[r].op = "simulate"
  /\ rows[requests[r].scenario].state # "draft"
  /\ Refuse(r, "changed concurrently")

(* The index on the key rejects the UPDATE: the raw error is a 500.          *)
SimulateKeyRace(r) ==
  LET s == requests[r].scenario IN
  /\ requests[r].pc = "commit" /\ requests[r].op = "simulate"
  /\ rows[s].state = "draft"
  /\ KeyTaken(requests[r].key, s)
  /\ Refuse(r, "internal error")

-----------------------------------------------------------------------------
(* Transition: the handler's permission check, then the service's checks.    *)
TransitionPermission(to) == IF to = "verified" THEN "scenario.verify" ELSE "scenario.write"

(* A caller without the permission.  The route already asked for one of the  *)
(* two, and a creator who asks to verify is told about the separation.       *)
HandlerRefusal(a, row, to) ==
  IF to # "verified" \/ ~HasPermission(RoleOf[a], "scenario.write") THEN "forbidden"
  ELSE IF ~Exists(row) THEN "not found"
  ELSE IF row.createdBy = a THEN "reviewer conflict"
  ELSE "forbidden"

ServiceRefusal(a, row, to) ==
  IF ~Exists(row) THEN "not found"
  ELSE IF to # "verified" /\ ~Manages(a, row) THEN "forbidden"
  ELSE IF ~CanTransition(row.state, to) THEN "state conflict"
  ELSE IF to = "verified" /\ ~ReviewerSeparated(a, row) THEN "reviewer conflict"
  ELSE "none"

TransitionRefusal(a, row, to) ==
  IF HasPermission(RoleOf[a], TransitionPermission(to))
  THEN ServiceRefusal(a, row, to)
  ELSE HandlerRefusal(a, row, to)

(* The read that fails is the service's, the handler's, or never made.       *)
TransitionReadError(a, to) ==
  IF HasPermission(RoleOf[a], TransitionPermission(to)) THEN "not found"
  ELSE IF to = "verified" /\ HasPermission(RoleOf[a], "scenario.write") THEN "internal error"
  ELSE "forbidden"

TransitionLoad(r, a, s, to) ==
  LET refusal == TransitionRefusal(a, rows[s], to) IN
  /\ requests[r].pc = "idle"
  /\ \/ refusal # "none" /\ RefuseAtOnce("transition", a, s, NoKey, refusal)
     \/ RefuseAtOnce("transition", a, s, NoKey, TransitionReadError(a, to))
     \/ refusal = "none" /\ Proceed(r, [Idle EXCEPT !.pc = "commit", !.op = "transition",
                                                    !.actor = a, !.scenario = s,
                                                    !.to = to, !.row = rows[s]])

(* Mutants: the reset to draft clears the result; the verifier's role is     *)
(* stored in place of the verifier.                                          *)
ResetClearsResult(row, a, to) ==
  [row EXCEPT !.state = to,
              !.verifiedBy = IF to = "verified" THEN a ELSE @,
              !.result = IF to = "draft" THEN NoInput ELSE @]
VerifierRoleStored(row, a, to) ==
  [row EXCEPT !.state = to,
              !.verifiedBy = IF to = "verified" THEN RoleOf[a] ELSE @]

(* Nothing is cleared on the way back to draft: result, key and replay flag  *)
(* stay in the row.                                                          *)
Transitioned(row, a, to) ==
  [row EXCEPT !.state = to,
              !.verifiedBy = IF to = "verified" THEN a ELSE @]

(* Mutant: the UPDATE names the row by its id only.                          *)
UpdateById(r) == TRUE

(* The UPDATE runs WHERE scenario_state = the state read earlier.            *)
StateUnchanged(r) == rows[requests[r].scenario].state = requests[r].row.state

TransitionCommit(r) ==
  LET a == requests[r].actor
      s == requests[r].scenario
      to == requests[r].to IN
  /\ requests[r].pc = "commit" /\ requests[r].op = "transition"
  /\ StateUnchanged(r)
  /\ rows' = [rows EXCEPT ![s] = Transitioned(@, a, to)]
  /\ Record(r, Transitioned(requests[r].row, a, to))
  /\ GoTo(r, "answer")
  /\ reply' = {}

(* Mutant: nobody looks at how many rows the UPDATE changed.                 *)
LostUnnoticed(r) ==
  /\ requests[r].pc = "commit" /\ requests[r].op = "transition"
  /\ ~StateUnchanged(r)
  /\ Record(r, Transitioned(requests[r].row, requests[r].actor, requests[r].to))
  /\ GoTo(r, "answer")
  /\ reply' = {} /\ UNCHANGED rows

TransitionLost(r) ==
  /\ requests[r].pc = "commit" /\ requests[r].op = "transition"
  /\ ~StateUnchanged(r)
  /\ Refuse(r, "changed concurrently")

-----------------------------------------------------------------------------
(* Replay: simulate the frozen input again and compare with the stored       *)
(* result.  The verdict is written WHERE id, whatever state the row is in by *)
(* then, and a mismatch is answered only after it was stored.                *)
ReplayOfDrafts(a, row) == SimulateRefusal(a, row)   \* mutant: drafts may be replayed

ReplayRefusal(a, row) ==
  IF SimulateRefusal(a, row) # "none" THEN SimulateRefusal(a, row)
  ELSE IF row.state = "draft" THEN "state conflict"
  ELSE "none"

ReplayLoad(r, a, s) ==
  LET refusal == ReplayRefusal(a, rows[s]) IN
  /\ requests[r].pc = "idle"
  /\ \/ refusal # "none" /\ RefuseAtOnce("replay", a, s, NoKey, refusal)
     \/ HasPermission(RoleOf[a], "scenario.run") /\ RefuseAtOnce("replay", a, s, NoKey, "not found")
     \/ refusal = "none" /\ Proceed(r, [Idle EXCEPT !.pc = "commit", !.op = "replay",
                                                    !.actor = a, !.scenario = s,
                                                    !.row = rows[s]])

Replayed(row, passed) == [row EXCEPT !.replayVerified = passed]

Passes(row) == row.result = row.input

ReplayCommit(r) ==
  LET s == requests[r].scenario
      old == requests[r].row IN
  /\ requests[r].pc = "commit" /\ requests[r].op = "replay"
  /\ rows' = [rows EXCEPT ![s] = Replayed(@, Passes(old))]
  /\ Record(r, Replayed(old, Passes(old)))
  /\ \/ Passes(old) /\ GoTo(r, "answer") /\ reply' = {}
     \/ ~Passes(old) /\ Answer(r, "replay differs", AbsentRow)

-----------------------------------------------------------------------------
(* The final Get of a request that committed.                                *)
AnswerCommitted(r) ==
  /\ requests[r].pc = "answer"
  /\ Answer(r, "success", rows[requests[r].scenario])
  /\ audit' = {}
  /\ UNCHANGED rows

(* A database error, a cancelled context or a failed audit append: the       *)
(* transaction in progress rolls back and the client sees a 500.  After the  *)
(* commit only the answer is lost.                                           *)
StoreFails(r) ==
  /\ requests[r].pc # "idle"
  /\ Refuse(r, "internal error")

(* The process dies: goroutines vanish, open transactions roll back.         *)
Crash ==
  /\ \E r \in Requests : requests[r].pc # "idle"
  /\ requests' = [r \in Requests |-> Idle]
  /\ reply' = {}
  /\ audit' = {}
  /\ UNCHANGED rows

(* What a client may send; a retry is one more request with the same key.    *)
Receive(r) ==
  \E a \in Actors, s \in Scenarios :
    \/ \E i \in Inputs : CreateFreeze(r, a, s, i)
    \/ \E k \in Keys : SimulateLoad(r, a, s, k)
    \/ \E to \in RequestableStates : TransitionLoad(r, a, s, to)
    \/ ReplayLoad(r, a, s)

(* What the goroutine does once it holds a request.                          *)
Handle(r) ==
  \/ CreateCommit(r) \/ CreateDuplicate(r)
  \/ SimulateKeyElsewhere(r) \/ SimulateReuse(r) \/ SimulateCheckDraft(r)
  \/ SimulateCommit(r) \/ SimulateLost(r) \/ SimulateKeyRace(r)
  \/ TransitionCommit(r) \/ TransitionLost(r)
  \/ ReplayCommit(r)
  \/ AnswerCommitted(r)

Next == \/ \E r \in Requests : Receive(r) \/ Handle(r) \/ StoreFails(r)
        \/ Crash

Spec == Init /\ [][Next]_vars
-----------------------------------------------------------------------------
(* Type invariant.                                                           *)
TypeOK ==
  /\ rows \in [Scenarios -> Row]
  /\ requests \in [Requests -> Request]
  /\ audit \subseteq Entry
  /\ reply \subseteq Reply

(* A scenario that has left draft carries the result its own frozen input    *)
(* determines and the key of the request that stored it, however resets,     *)
(* repeated simulations and late commits interleave: readiness, execution    *)
(* and verification are never decided without evidence.                      *)
EvidenceBacked ==
  \A s \in Scenarios : rows[s].state \in States \ {"draft"} =>
    rows[s].result = rows[s].input /\ rows[s].key # NoKey

(* A verified scenario names its verifier, who may verify and did not create *)
(* it; a scenario in any other state names none.  The check reads a copy of  *)
(* the row that may be old when the verdict commits.                         *)
ReviewerSeparation ==
  \A s \in Scenarios :
    IF rows[s].state = "verified"
    THEN /\ rows[s].verifiedBy \in Actors \ {rows[s].createdBy}
         /\ HasPermission(RoleOf[rows[s].verifiedBy], "scenario.verify")
    ELSE rows[s].verifiedBy = NoActor

(* A replay flag is never set on a row without the result it vouches for,    *)
(* although SetReplayVerified writes on whatever state the row is in.        *)
ReplayFlagBacked ==
  \A s \in Scenarios : rows[s].replayVerified => rows[s].result = rows[s].input

(* No replay of a scenario ever contradicts its stored result: the copy a    *)
(* replay compares was simulated, and nothing rewrites a result otherwise.   *)
ReplayConfirms == \A m \in reply : m.status # "replay differs"

(* No two scenarios share a frozen input or an idempotency key, although the *)
(* lookup that keeps keys apart runs long before the commit.                 *)
NoSharedIdentity ==
  \A s, t \in Scenarios : s # t /\ Exists(rows[s]) /\ Exists(rows[t]) =>
    rows[s].input # rows[t].input /\ rows[s].key # rows[t].key

(* Every successful answer to a simulate request shows the result of the     *)
(* scenario it named, whether it simulated now or reused what the key        *)
(* stored, and whatever other requests did to the row before the final Get.  *)
AnswersAreOwnResults ==
  \A m \in reply : m.op = "simulate" /\ m.status \in {"success", "reused"} =>
    m.row.input = rows[m.scenario].input /\ m.row.result = m.row.input

(* Every change of a scenario is audited in the step that makes it, under a  *)
(* before-state that is the row's true state at that moment and an           *)
(* after-state that is the row's new one, and was made by somebody entitled  *)
(* to it when it commits, not only when the request read the row.            *)
StateChangesAudited ==
  [][\A s \in Scenarios : rows'[s].state # rows[s].state =>
       \E e \in audit' :
         /\ e.scenario = s
         /\ e.before.state = rows[s].state
         /\ e.after.state = rows'[s].state
         /\ IF rows'[s].state = "verified"
            THEN HasPermission(RoleOf[e.actor], "scenario.verify")
            ELSE Manages(e.actor, rows'[s]) ]_vars

(* The service keeps the promises of ScenarioStateMachine: the documented    *)
(* state order under conditional updates, one freeze per input, results that *)
(* belong to their input, independent verification, final states final.      *)
Promise == INSTANCE ScenarioStateMachine WITH
  ledger <- [s \in Scenarios |->
               [state |-> rows[s].state, input |-> rows[s].input,
                createdBy |-> rows[s].createdBy, verifiedBy |-> rows[s].verifiedBy,
                result |-> rows[s].result]]

PromiseKept == Promise!Spec

(* Only the request whose own UPDATE moved the row, from the state it had    *)
(* read, is audited and goes on to a success.  One that lost a race changed  *)
(* no row and raised no error; RowsAffected alone tells, and the audit entry *)
(* it would write is true of its stale copy                                  *)
(* (rollover_scenario_repository.go:84, 96).                                 *)
SuccessIsOwnChange ==
  [][/\ \A e \in audit' : e.action # "replay" =>
          /\ e.before.state = rows[e.scenario].state
          /\ e.after.state = rows'[e.scenario].state
          /\ rows'[e.scenario].state # rows[e.scenario].state
     /\ \A r \in Requests : requests'[r].pc = "answer" /\ requests[r].pc # "answer" =>
          \E e \in audit' : e.action = requests[r].op /\ e.actor = requests[r].actor
                            /\ e.scenario = requests[r].scenario
     /\ \A m \in reply' : m.status = "success" =>
          \E r \in Requests : requests[r].pc = "answer" /\ requests'[r].pc = "idle"
                             /\ m.op = requests[r].op /\ m.actor = requests[r].actor
                             /\ m.scenario = requests[r].scenario]_vars

-----------------------------------------------------------------------------
(* What the documents say and the code does not do; each is refuted by a run.*)

(* "an identical frozen scenario already exists" is answered only when one   *)
(* does (rollover_scenario_service.go:84).                                   *)
DuplicateAnswerIsTrue ==
  [][\A m \in reply' : m.status = "identical exists" =>
       \E r \in Requests, s \in Scenarios :
         /\ requests[r].op = "create" /\ requests'[r].op = "none"
         /\ Exists(rows[s]) /\ rows[s].input = requests[r].row.input]_vars

(* The before-snapshot of an audit entry is the row the step replaced and    *)
(* the after-snapshot the row it wrote.                                      *)
AuditSnapshotsTrue ==
  [][\A e \in audit' : e.before = rows[e.scenario] /\ e.after = rows'[e.scenario]]_vars
=============================================================================
