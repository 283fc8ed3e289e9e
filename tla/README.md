# CertRollover in TLA+

CertRollover rehearses the replacement of a trust anchor: operators import
public anchors and certificate chains, describe the services that depend on
them, freeze all of that into a *rollover scenario*, simulate it, and walk the
scenario through review and execution.  The back end is Go (Gin, GORM,
PostgreSQL or SQLite), the front end React.  This directory holds TLA+ models
of the back end's stateful services, of its simulator, of the process they run
in with its limiter and its seed, and of the browser's session in front of it,
the TLC runs that check them and proofs checked by TLAPS.

    tlc -workers 2 -config ScenarioLifecycle.cfg MCScenarioLifecycle.tla
    tlapm ScenarioLifecycleProofs.tla

`PROJECT.json` lists components, runs, the mutant that breaks each property,
the source lines of every definition, findings, hazards and theorems.

## The system

| Component | State it keeps | Operations | What makes it correct | Module |
| --- | --- | --- | --- | --- |
| Rollover scenario service | `rollover_scenarios` rows: state, frozen input, result, key, creator, verifier, replay flag | create (freeze), simulate, transition, replay | documented state order, evidence before execution, independent verification, one result per key, true audit | `ScenarioLifecycle` |
| Dependent service registry | `dependent_services` rows: team, edges, active or not | create, update, deactivate | edges resolve, graph acyclic, team ownership, deactivation final | `DependentServices`, `ServiceRegistry`, `CycleSearch` |
| Roles and permissions | constant tables, one in the server and one in the browser | lookup, check in front of each route | the browser offers nothing the server forbids | `AccessControl`, `Gateway`, `Workbench` |
| Audit log | append-only entries | appended in the transaction of each write | one entry per write, true snapshots | inside each service |
| Simulator | none (pure) | validate, simulate, compare | verdicts follow from reachability, broken paths explain them, "all clear" is true between the judged instants | `Simulator` |
| Trust anchors, chains | rows with lifecycle | import, revoke, archive, restore; import, transition | revocation final and known to the list, each chain move audited once | `TrustMaterial` |
| Freeze of a scenario | what four queries returned | read anchors, candidates, a page of chains, services; store | revocations are frozen, whatever is missing has an explanation | `ScenarioFreeze` |
| Process, limiter, login | accounts and demonstration rows; rate buckets in memory; tokens at the clients | come up, seed, serve, die; login, token check, limiter | serves only when seeded, bounded bursts | `Gateway` |
| Browser session | token and user in local storage, a copy in each tab | sign in, sign out, end on 401, reload | tabs offer what the stored session may do, signing in ends | `Workbench` |
| Browser list stores and pages; X.509 parsing, redaction, HTTP envelopes | fetched rows; none | | | not modelled |

How they interact: a route checks the token's role (`middleware/rbac.go`), a
handler calls a service method, the method reads through repositories
*outside* any transaction, decides on the copies it read, and then runs one
transaction with one UPDATE or INSERT and one audit INSERT
(`repository/trust_anchor_repository.go`, `WithinTransaction`).  It finally
reads the row again for the answer.  Services share nothing but the tables;
creating a scenario reads the tables of the three others, and from then on the
scenario only uses its frozen copy.  The browser calls all of them with the token
in local storage; a 401 to any call ends its session.

What is hard: two requests interleave between any two database accesses, and
the writes differ in how they protect themselves (`WHERE state = ...`, a unique
index, or `WHERE id` only); a request may fail or the process may die between
two accesses, or after the commit and before the answer; clients repeat
requests with the same Idempotency-Key.  The hazards are listed with their
lines in `PROJECT.json`.

## How the models correspond to the code

**ScenarioLifecycle** (service/rollover_scenario_service.go, its handler,
routes, repository).  `rows` is the table; `requests[r]` is what goroutine `r`
holds in local variables between two accesses, in particular `row`, the copy it
read; `audit` and `reply` are the audit entry and the HTTP answer the last step
produced, if any, so that properties can speak of them without a growing log.
One step is one database access:

| Code | Actions |
| --- | --- |
| Create: freeze and hash / transaction | `CreateFreeze` / `CreateCommit`, `CreateDuplicate` |
| Simulate: GetByID / FindByIdempotencyKey / transaction | `SimulateLoad` / `SimulateKeyElsewhere`, `SimulateReuse`, `SimulateCheckDraft` / `SimulateCommit`, `SimulateLost`, `SimulateKeyRace` |
| Transition: handler and GetByID / transaction | `TransitionLoad` / `TransitionCommit`, `TransitionLost` |
| Replay: GetByID and simulation / transaction | `ReplayLoad` / `ReplayCommit` |
| the final Get | `AnswerCommitted` |
| a database error or cancelled context anywhere | `StoreFails` |
| the process dies | `Crash` |

A frozen input is a value that stands for (hash, algorithm version, simulation
time); its result is named by the input, because the simulator is a pure
function.  Request bodies are valid: the validator's refusals change nothing.
Any error of the first GetByID is answered 404, as if the row were missing; the
`...Load` actions may always refuse so (`Deactivate` of the registry likewise).
`create` has no reads of its own tables before the commit, so `CreateFreeze`
may come out with any input.

**ScenarioStateMachine** is what the scenario service promises, with no
requests, copies or failures: freeze, simulate, move, verify.  `PromiseKept`
says `ScenarioLifecycle` implements it under a mapping that forgets keys, replay
flags and requests.

**DependentServices** (service/dependent_service_service.go).  The same shape:
`UpdateLoad`, `CheckReferences` (chains, anchors, first `All`), `CheckGraph`
(second `All`, whose error the code drops), `UpdateCommit`.  Ids and service
codes are one name; the provisional id `^uint(0)` of a new service is
`NoService`.  Whether the chain and anchors that a request names exist is a free
choice.  `ContainsCycle` states what the depth-first search decides: a dangling
edge, or a set of services each of which depends on one of the set
(**DependencyGraph**).
`GraphReadMayFail` says whether the second read can fail on its own.

**ServiceRegistry** is what the registry promises, with no requests, copies or
failures: register, change, deactivate, each signed in the audit log by the user
who did it.  Who may do it, that edges name other
registered services, and that only an administrator hands a service over is
promised always; that the change is made for the owning team and leaves no cycle
is promised if requests are `Isolated`, because the code checks both before its
transaction.  `RegistryKept` says `DependentServices` implements it, with
`Isolated` being `OneAtATime`.

**CycleSearch** (`servicesContainCycle` in service/common.go, `detectCycle` in
algorithm/simulator.go) is that search step by step, for both copies: `strict`
is the registry's, which refuses a dangling edge, otherwise it is the
simulator's.  The recursion is `stack`; `VisitRoot` is the outer loop over a Go
map, whose order is random; `Follow` and `Leave` are the loop over the edges and
its end; `Accept` is the last return.  It shows that the declarative
`ContainsCycle` of the two other modules may stand for the code.  In the run,
`MCSimulator` lets a simulation begin when the search of its services is over.

**TrustMaterial** (service/trust_anchor_service.go and
service/certificate_chain_service.go).  The same shape again, with a clock that
ticks by itself up to `Horizon`: an import checks the certificate windows and
builds the row before its transaction, so time and other requests pass in
between.  A certificate is its window; a bundle names the root that signed it
and the certificates its verified path uses or merely carries.  `LifecycleCommit`
writes by id whatever the row has become, `TransitionCommit` only if the state
is the one read.  As in the code, a chain may be imported under a revoked or
archived anchor.

**ScenarioFreeze** (Create in service/rollover_scenario_service.go,
`buildSnapshot`, the chain list) composes with TrustMaterial: it extends it and
reads its tables while its requests go on changing them.  One step is one query:
`FreezeAnchors`, `FindCandidates`, `FreezeChains`, `FreezeServices` (with
`ValidateSnapshot`), `FreezeCommit`; `FreezeFails` and `Die` may come between.
`Present` stands for the creation and update of a service, of which only the
chain it presents matters here.  `FirstPage` is the list's order and limit:
the chains that end first; ties, which the code breaks by id, are broken in any
way.  `known` and `before` are history: what was stored when the page was read,
and what was already revoked when the request came.

**Gateway** (cmd/server/main.go, database/database.go, middleware/auth.go,
middleware/rbac.go, router/, config/config.go) is one process from start-up to
death:

| Code | Actions |
| --- | --- |
| config, connection, migration | `Configure` |
| accounts / count of anchors / tables in one transaction | `SeedAccount` / `CountAnchors` / `SeedTable`, `SeedCommit` |
| RequireAuth and RequirePermission | `Check` |
| limiter: `time.Now()` / locked section | `ReadClock` / `Enter` |
| login, with its answers 401, 400 and 500 / any other handler | `Login` / `Handle` |
| an error while coming up, shutdown, crash | `Stop`, which cuts open requests off |

`RouteTable` is the permission and limiter scope of each route.  Tokens are
(user, end) pairs: signatures are the JWT library's, so a token is authentic if
the server issued it.  `windows` is history, the first and last admission of
each window of each bucket; `MaxStall` is how long a goroutine may be suspended
between reading the clock and the lock.

**Workbench** (frontend/src/stores/auth.ts, api/client.ts, hooks/useAuth.ts,
router/ProtectedRoute.tsx, utils/permissions.ts) composes with Gateway: each of
its requests is one of Gateway's.  `storage` is local storage, `shown[t]` the
store of tab `t`.  A request carries the stored token whatever the tab shows
(`Click`); `TakeAnswer` is the code after `await fetch`, with the 401 event;
`Reload` opens or reloads a tab, whose open requests nobody waits for any more
(`LoseAnswer`).  `aware` is history: the tabs that made or read the last change
of the storage.

**Simulator** (algorithm/simulator.go).  A pure algorithm as a computation:
`Start` (validation and the critical instants), `Judge` once for each instant,
`Explain`.  `Resolve` is `resolveService` as a recursive function of the path
walked so far; `ContainsCycle` is again the declarative form of the search.
Reasons, codes and the evidence lists, which repeat the verdicts, are left out.
Dependencies always resolve inside the frozen input, which is what
`DependentServices!EdgesResolve` says; chains may be missing from it.  The
abstract counterpart is `Working`: the union of all sets of services that have
paths of their own and depend only on each other.

**AccessControl** is the role table of constants/roles.go.
**ScenarioHistory** adds a history of simulations for one property.
`MC*` modules fix roles, teams and symmetry.

The seed rows of `database.go` are states the models of the services reach by
ordinary operations, so their `Init` is the empty tables.

## What the runs check

| Run | Bounds | Properties |
| --- | --- | --- |
| scenario_lifecycle | 1 scenario, 1 key, administrator + owner + reviewer, 2 requests | `TypeOK`; `EvidenceBacked`: past draft there is always the own result and a key; `ReviewerSeparation`; `ReplayFlagBacked` and `ReplayConfirms`: replay writes without a condition yet never vouches for nothing or contradicts a result; `StateChangesAudited`: each state change has its audit entry with the true before- and after-state by somebody still entitled; `PromiseKept`; `SuccessIsOwnChange`: an UPDATE that lost its race is neither audited nor answered as a success |
| scenario_keys | 2 scenarios, 2 keys, 2 inputs, 1 administrator, 2 requests | `NoSharedIdentity`: keys and inputs unique although looked up before the commit; `AnswersAreOwnResults` |
| dependent_services | 2 services, 1 team, administrator + owner, 2 requests, failing graph reads | `TypeOK`, `EdgesResolve`, `DeactivationFinal`, `DeactivatedOnce`, `RegistryKept` |
| service_graph | 3 services, 2 teams, 1 request at a time, no failing reads | `Acyclic`, `OwnTeamOnly`, `RegistryKept` with its clauses for isolated requests |
| simulator | 678,133 states over 2 families of inputs, each searched for cycles first: one service with two chains of every mix of anchor, identity, 12 validity windows and state; three services of four kinds in every wiring; and the search alone, in both copies, on every table of up to three services | `TypeOK`, `VerdictsSound`, `BrokenPathsExplain`, `ClearMeansClear`; of the search `SearchTypeOK`, `VerdictRight`: the declarative verdict, `StackIsPath`, `Descends`: it ends |
| scenario_freeze | 284,788 states over two instances. "tables": 1 anchor, 1 chain, 3 certificates, 2 bundles, 2 requests, clock 0..3, 1 tick for the 90 days. "freeze": 2 anchors, 2 chains, 1 service, pages of one chain, 1 freeze, 1 other request at a time, clock 0..1 | `FTypeOK`; `RevocationFinal`; `RevokedFiltered`: the column the list filters on; `ChainMovesAudited`; `ValidatedInWindow`; `MissingChainsExplained`; `RevocationsFrozen`; `RefusedBeyondPageOnly` |
| workbench | 454,344 states over three instances, 2 requests in flight. "limits": one tab fails to sign in for 5 instants, windows of 2, limit 2. "expiry": one user works on while token and window run out. "session": 2 users, 2 tabs, one instant, the server comes up, dies and comes back | `TypeOK`; `ServesSeeded`; `BurstBound`; `OfferedIsPermitted`; `SignInEnds` |

Why these bounds are enough to be interesting: a lost update, a stale decision
or a race for a key needs two requests and one or two rows; three roles cover
the three ways through the permission checks (all rights, create and run only,
verify only).  With one scenario no key can be taken elsewhere, so keys have a
run of their own with two scenarios.  Cycles of length two need two services,
indirect ones three, and three are enough for
a search that enters a cycle from outside or meets a service twice without one.
The simulator's windows begin and end before, at,
between and after every critical instant, and three services already give
indirect failures, services reached twice and cycles.  Anchors of different codes share only
the unique index on fingerprints, so one anchor is enough for what can go wrong
with its life cycle; its windows let certificates be too early, valid, expiring
and expired within the four instants.
The freeze needs two chains of which one fits on the page for every way in which
a chain can be missing, and one service; there other requests run one at a time
and only between the queries of the freeze, because a query sees nothing of a
request but its commit, and nothing happens once a scenario is stored, because
the properties speak of what was stored.  A burst needs three windows of one
bucket, hence five instants with windows of two; two requests in flight reach the
bucket out of order.  Sessions need two tabs and two users of different rights;
an instant is enough because an unknown token and an expired one are answered
alike.  Nothing else is cut: every operation, failure and crash
is enabled at every point, without a budget, in the runs of single services.
The tables never shrink, so apart from the clocks the state spaces are finite
without further bounds.  Only the run of the simulator and its search may stop
(`CHECK_DEADLOCK FALSE`): computations end.

Five runs expect a violation; each is a disagreement between the code and what
it or its documents say.

| Run | What TLC shows |
| --- | --- |
| second_draft | The empty idempotency key is under the unique index: while one scenario was never simulated, every other create is answered "an identical frozen scenario already exists" |
| repeated_key | simulate K1, reset, simulate K2, repeat K1: 409 in place of the stored result |
| audit_snapshots | A replay that overlaps a transition is audited with snapshots the row did not have |
| graph_race | Two overlapping updates close a cycle |
| ownership_race | With creations and updates alone: the former owner's update, decided before an administrator handed the service to another team, commits after it and gives the service back.  A deactivation can come too late in the same way; the run leaves deactivations out |

`ClearMeansClear` has a precondition worth knowing: `Quiet`, no chain begins or
ends strictly between two of the five instants that the window fixes.  Without
it the sentence "All active service trust paths remain reachable before,
during, and after the proposed overlap window" (simulator.go:295) is not true:
a chain that expires after the middle of the window and is replaced before its
end leaves a gap in which no instant is judged.

All runs but `workbench` need no fairness: they are safety.  Of the five violations, the first two happen with a single request at a
time, the other three need two.

**Fairness.**  `SignInEnds` assumes `WF(Proceed(r))` for each request: a request
in flight goes on, in the server or back to its tab.  The Go scheduler runs every runnable goroutine, each
database call returns, with a result or an error (the pool and the server have
timeouts, main.go:91), and a connection that breaks is noticed by the browser.
Nothing is assumed of users, of clients, of failures, crashes or restarts, nor
of the clock: `SignInEnds` holds although the server may stay down.

## What is proved

For every set of scenarios, services, users, keys, inputs and any number of
concurrent requests, from the named assumptions on constants only (roles and
teams are total functions; the sentinels are not members of the sets; limits,
windows and page sizes are positive, as config.go and the code have them;
a bundle holds finitely many certificates, a frozen input finitely many
services, and services have numbers).

* `ScenarioLifecycleProofs`: type correctness, `EvidenceBacked`,
  `ReviewerSeparation`, `ReplayFlagBacked`, `ReplayConfirms`,
  `AnswersAreOwnResults`, `StateChangesAudited`, `SuccessIsOwnChange`,
  `NoSharedIdentity`.  None of the safety invariants
  is inductive, because a commit acts on a copy that may be old.  The inductive
  invariant `IInv` adds, for each request, what its copy still tells about the
  row (`RequestSound`): input and creator never change, a result once equal to
  the input's stays so, and the one fact that does change, the state, is
  re-checked by the conditional UPDATE.  `Evolves` is the relation between a row
  and its successors that keeps all those facts; every commit satisfies it.
  `NoSharedIdentity` rests on the unique indexes alone, which are checked in the
  step that writes; the lookup plays no part in its proof.  For
  `SuccessIsOwnChange` the steps fall into two kinds: the commits, each of which
  moves the row its request names, and the rest, which audit nothing and bring
  no request to its answer (`Quiet`).
* `ScenarioRefinementProofs`: `Spec => PromiseKept`, step by step: each commit
  is one step of the promise, everything else stutters.
* `DependentServicesProofs`: type correctness, `EdgesResolve`,
  `DeactivationFinal`, `DeactivatedOnce`, whatever overlaps.  Rows are never
  removed, so edges that were validated stay valid until the commit.  If at most
  one request runs and the graph read does not fail (`OneAtATime`), also
  `Acyclic` and `OwnTeamOnly`: the inductive invariant `SerialInv` is that what a
  request checked is still true when it commits, and the one graph fact is that a
  service nobody depends on closes no cycle.  Both halves meet in
  `Spec => RegistryKept`, without a hypothesis: each commit is one step of the
  promise, signed by its user, and nothing else changes or signs anything.  It needs one more invariant, who is
  behind a request that is under way (`RequestEntitled`), because the commit
  itself asks for nothing.  Together with graph_race and ownership_race this says
  exactly what is missing: the checks are right, they are not isolated from the
  writes.
* `CycleSearchProofs`: type correctness, `VerdictRight`, `StackIsPath` and
  `Descends`, for any set of services and any order of the roots.  The inductive
  invariant says what the colours mean: a service is in progress while its call is
  on the stack, and the edges it has left behind lead to finished services or into
  the next call (`Open`); nothing leads out of the finished services and no cycle
  lies among them (`Finished`); what the outer loop took was met (`Met`).  When a
  service finishes, a cycle through it would have to leave it to a finished one
  and could never return.  `Descends` orders the states by the services not met,
  the calls open and the edges left, each step lowering the first that it changes;
  on finitely many services there is no endless descent.
* `TrustMaterialProofs`: type correctness, `RevocationFinal`, `RevokedFiltered`,
  `ChainMovesAudited`, `ValidatedInWindow`.  For anchors the argument is that each life cycle
  operation writes its own columns; for chains, that a row never changes except
  in its state, so that a copy with the right state is the row.  A stored window
  is the latest beginning and the earliest end of finitely many certificates;
  that a finite set of integers has a greatest element (`FiniteMax`) is proved
  from the well-founded order of its subsets.
* `ScenarioFreezeProofs`: type correctness, `MissingChainsExplained`,
  `RevocationsFrozen`, `RefusedBeyondPageOnly`, for any page size and any number
  of freezes at once.  The invariant `FInv` says of every input, frozen or half
  frozen, what its queries returned (`InputSound`).  It stays true because what
  was read never changes back: no row is removed, no revocation is taken back,
  no window is rewritten (`Lasting`).  It rests on the invariant of
  `TrustMaterialProofs`.  A freeze leaves the tables as they are
  (`FreezeOnlyReads`), so that `RevokedFiltered`, `ValidatedInWindow`,
  `RevocationFinal` and `ChainMovesAudited` are proved of the composition too.
* `GatewayProofs`: `ServesSeeded`, `BurstBound`, and of the browser
  `WSpec => Spec` (the application is a client like any other, so that what is
  proved of the server holds behind it: `WorkbenchServesSeeded`,
  `WorkbenchBurstBounded`), type correctness and
  `OfferedIsPermitted`.  For the burst, the invariant
  (`Paced`) ties a bucket's start to its windows: the newest window's last
  admission lies less than a minute and `MaxStall` after that start, and the last
  admission of the window before it less than `MaxStall` after it, because a
  window is left only on a reading a minute after its start.  This gives no
  bound between neighbours, but one between a window and the next but one.
* `SimulatorProofs`: type correctness, `VerdictsSound`, `BrokenPathsExplain`,
  `ClearMeansClear`, for any number of services and chains, any graph and any
  length of the window.  `Resolve` recurses over paths, which need not end by the
  shape of the definition; `SearchEnds` proves that the recursion has a solution
  on every graph, because a path without repetition has at most as many members
  as there are services.  That exactly the services that belong to no working set
  fail uses that the graph has no cycle: a non-empty set of failing services each
  of which fails through another one would be one (`NoLoop`), so blame ends at a
  service without a path of its own.  For the all-clear, every instant is spoken
  for by the judged one before it (`Representative`), because a judgement depends
  on an instant only through the anchors that count and the chains that are valid
  (`SameDirect`); `ClearAlwaysWorks` states it without any search.
  `ResultDetermined`: a result is a function of the frozen input, which is what
  replay relies on and what lets `ScenarioLifecycle` name results by inputs.

Only model-checked: liveness (`SignInEnds`), which the prover does
not reach, and the five violations, which are counterexamples.  That a descent
through finite sets cannot go on for ever, which turns `Descends` into
termination, is induction and stays an argument in words.

## What is not modelled, and why

Reads without effect (get, list, compare), request validation, wording of
errors, formatting, redaction and logging change no state.  X.509 parsing and
signatures are the standard library's; only a verdict reaches the database.
A revoked anchor that still counts in `activeAnchors`, and an anchor whose
stored state is overtaken by time, are in the models as in the code; no
document says otherwise, so no property does.
Isolation levels inside a transaction do not show: each transaction has one
UPDATE or INSERT, whose condition the database evaluates atomically, and one
audit INSERT.  Handlers are not repeated behind the limiter: it only adds refusals.
A shutdown that drains its open requests (main.go:102) is not an action of its
own: it is `Stop` after the requests have ended, since none needs to arrive in
between.  `Stop` also cuts requests off, as a crash or the shutdown timeout does.

The browser writes token and user into local storage one after the other;
`Establish` is one step, so a tab that reloads between the two writes is not
modelled.  A 401 that arrives on the page for unknown addresses is not heard,
which `TakeAnswer` allows on any page.

Of the browser, the list stores and pages are left out.  A list answer that
arrives late replaces newer rows, and a created row may be shown twice; no
document promises otherwise and the next fetch repairs it.  That the audit page
asks again after every render (AuditPage.tsx:36) is a matter of React's
rendering.  The hazards list them.

Of the limiter, the model has the buckets lost at a restart and never removed
before; nothing in the repository bounds either.

## Plan

In this order, because later modules lean on earlier ones:

1. **Scenario service and its promise** - done, proved.
2. **Dependent service registry**, its promise and its cycle search - done, proved.
3. **Simulator** - done, proved.
4. **Trust anchors and certificate chains**, and **ScenarioFreeze**, which reads
   their tables - done, proved.
5. **Gateway**: process, seed, limiter, login - done, proved.
6. **Workbench**: the browser's session in front of it - done, its safety proved.
7. Left: the browser's list stores, once it is written down what they promise;
   an abstract promise of trust anchors and chains, like those of scenarios and
   of the registry.
