---------------------------- MODULE TrustMaterial ----------------------------
(* Trust anchors and certificate chains (service/trust_anchor_service.go,    *)
(* service/certificate_chain_service.go and their repositories).  As in the  *)
(* other services a request reads outside any transaction, decides, and then *)
(* runs one transaction of one statement and an audit entry.  A chain's      *)
(* transition names the state it read in its WHERE clause, the life cycle of *)
(* an anchor names the id only.                                              *)
(*                                                                           *)
(* The clock advances by itself up to Horizon.  A certificate is its         *)
(* validity window; signatures and the other checks of crypto/x509 are a     *)
(* verdict: a bundle says which root signed it and which of its certificates *)
(* the verified path uses.                                                   *)
EXTENDS AccessControl, Integers, FiniteSets, FiniteSetsExt

CONSTANTS Anchors,    \* anchor codes
          Chains,     \* chain codes
          Certs,      \* certificates: roots, leaves and intermediates
          WindowOf,   \* the validity window of each certificate
          Bundles,    \* the certificate bundles that clients send
          Actors, RoleOf,
          Requests,   \* request goroutines that may run at once
          Soon,       \* 90 days in ticks
          Horizon,    \* bound: the last instant of the clock
          NoCert, NoBundle, Never

Instants == 0 .. Horizon

Window == [from : Int, to : Int]

(* Leaf first; spare certificates are sent along and not needed.             *)
Bundle == [signer : Certs, leaf : Certs, path : SUBSET Certs, spare : SUBSET Certs]

ASSUME RoleAssumption == RoleOf \in [Actors -> Roles]
ASSUME CertAssumption ==
  /\ WindowOf \in [Certs -> Window] /\ Bundles \subseteq Bundle
  /\ \A bundle \in Bundles : IsFiniteSet(bundle.path) /\ IsFiniteSet(bundle.spare)
ASSUME ClockAssumption == Horizon \in Nat /\ Soon \in Nat
ASSUME SentinelAssumption ==
  NoCert \notin Certs /\ NoBundle \notin Bundles /\ Never \notin Instants

VARIABLES anchors,   \* the trust_anchors table
          chains,    \* the certificate_chains table
          now,       \* the clock
          requests,  \* what each goroutine holds between two database accesses
          audit,     \* the entry the last step appended: none or one
          reply      \* the answer the last step sent: none or one

vars == <<anchors, chains, now, requests, audit, reply>>

CertificateStates == {"valid", "expiring", "expired", "revoked"}

ChainStates == {"imported", "validated", "deprecated", "revoked"}

(* "stored" is the column certificate_state.                                 *)
AnchorRow == [cert      : Certs \cup {NoCert},
              stored    : CertificateStates \cup {"none"},
              revokedAt : Instants \cup {Never},
              archived  : BOOLEAN]

NoAnchorRow == [cert |-> NoCert, stored |-> "none", revokedAt |-> Never, archived |-> FALSE]

ChainRow == [state      : ChainStates \cup {"absent"},
             anchor     : Anchors \cup {"none"},
             bundle     : Bundles \cup {NoBundle},
             from       : Int,
             to         : Int,
             verifiedAt : Instants \cup {Never}]

NoChainRow == [state |-> "absent", anchor |-> "none", bundle |-> NoBundle,
               from |-> 0, to |-> 0, verifiedAt |-> Never]

AnchorOperations == {"import anchor", "revoke", "archive", "restore"}

Operations == AnchorOperations \cup {"import chain", "transition"}

(* "row" is the row read earlier or, for an import, the one to insert; "at"  *)
(* the time a life cycle request looked at the clock.                        *)
Request == [pc     : {"idle", "commit", "answer"},
            op     : Operations \cup {"none"},
            target : Anchors \cup Chains \cup {"none"},
            row    : AnchorRow \cup ChainRow,
            to     : ChainStates \cup {"none"},
            at     : Instants]

Idle == [pc |-> "idle", op |-> "none", target |-> "none", row |-> NoAnchorRow,
         to |-> "none", at |-> 0]

Statuses == {"success", "forbidden", "not found", "invalid certificate", "exists",
             "already revoked", "illegal transition", "changed concurrently",
             "internal error"}

Entry == [action : Operations, target : Anchors \cup Chains,
          before : AnchorRow \cup ChainRow, after : AnchorRow \cup ChainRow]
-----------------------------------------------------------------------------
(* Decisions.                                                                *)

(* CalculateCertificateState.  Mutant: its first result is a chain's.        *)
StateOfTheChain(at, to, revoked) == IF revoked THEN "revoked" ELSE "validated"

CertificateState(at, to, revoked) ==
  IF revoked THEN "revoked"
  ELSE IF at >= to THEN "expired"
  ELSE IF at + Soon >= to THEN "expiring"
  ELSE "valid"

(* Mutant: a deprecated chain may be validated again.                        *)
Revalidation(from, to) ==
  <<from, to>> \in {<<"validated", "deprecated">>, <<"validated", "revoked">>,
                    <<"deprecated", "revoked">>, <<"deprecated", "validated">>}

CanTransitionChain(from, to) ==
  <<from, to>> \in {<<"imported", "validated">>, <<"imported", "revoked">>,
                    <<"validated", "deprecated">>, <<"validated", "revoked">>,
                    <<"deprecated", "revoked">>}

(* The validator of a chain transition leaves "imported" out.                *)
RequestableStates == {"validated", "deprecated", "revoked"}

(* ValidateTrustAnchor excludes the end of the window, Verify includes it.   *)
RootValid(cert, at) == WindowOf[cert].from <= at /\ at < WindowOf[cert].to

PathValid(bundle, at) ==
  \A cert \in {bundle.leaf} \cup bundle.path :
    WindowOf[cert].from <= at /\ at <= WindowOf[cert].to

(* The unique indexes on code and fingerprint.                               *)
AnchorTaken(a, cert) == anchors[a].cert # NoCert \/ \E b \in Anchors : anchors[b].cert = cert

ChainTaken(c, bundle) ==
  chains[c].state # "absent" \/ \E d \in Chains : chains[d].bundle = bundle

ImportedAnchor(cert, at) ==
  [cert |-> cert, stored |-> CertificateState(at, WindowOf[cert].to, FALSE),
   revokedAt |-> Never, archived |-> FALSE]

Certificates(root, bundle) == {root, bundle.leaf} \cup bundle.path \cup bundle.spare

(* Mutant: the window is widened by every certificate.                       *)
WidestWindow(a, root, bundle, at) ==
  LET windows == {WindowOf[cert] : cert \in Certificates(root, bundle)} IN
  [state |-> "validated", anchor |-> a, bundle |-> bundle, verifiedAt |-> at,
   from |-> Min({w.from : w \in windows}), to |-> Max({w.to : w \in windows})]

(* The chain's window is what the windows of its root and of all the         *)
(* certificates in the bundle have in common, spare ones included.           *)
ImportedChain(a, root, bundle, at) ==
  LET windows == {WindowOf[cert] : cert \in Certificates(root, bundle)} IN
  [state |-> "validated", anchor |-> a, bundle |-> bundle, verifiedAt |-> at,
   from |-> Max({w.from : w \in windows}), to |-> Min({w.to : w \in windows})]

(* The columns a life cycle request writes.  Mutant: restoring also writes   *)
(* the state of a certificate that is not revoked.                           *)
RestoredAsValid(op, row, at) ==
  CASE op = "revoke"  -> [row EXCEPT !.revokedAt = at, !.stored = "revoked"]
    [] op = "archive" -> [row EXCEPT !.archived = TRUE]
    [] op = "restore" -> [row EXCEPT !.archived = FALSE, !.stored = "valid"]

Lifecycled(op, row, at) ==
  CASE op = "revoke"  -> [row EXCEPT !.revokedAt = at, !.stored = "revoked"]
    [] op = "archive" -> [row EXCEPT !.archived = TRUE]
    [] op = "restore" -> [row EXCEPT !.archived = FALSE]
-----------------------------------------------------------------------------
Respond(r, status) ==
  /\ requests' = [requests EXCEPT ![r] = Idle]
  /\ reply' = {status} /\ audit' = {}
  /\ UNCHANGED <<anchors, chains, now>>

Proceed(r, request) ==
  /\ requests' = [requests EXCEPT ![r] = request]
  /\ reply' = {} /\ audit' = {}
  /\ UNCHANGED <<anchors, chains, now>>

(* One transaction: the statement, which the caller states, and the entry.   *)
Record(r, before, after) ==
  /\ audit' = {[action |-> requests[r].op, target |-> requests[r].target,
                before |-> before, after |-> after]}
  /\ requests' = [requests EXCEPT ![r].pc = "answer"]
  /\ reply' = {} /\ UNCHANGED now

Admitted(permission) == \E actor \in Actors : HasPermission(RoleOf[actor], permission)

Init ==
  /\ anchors = [a \in Anchors |-> NoAnchorRow]
  /\ chains = [c \in Chains |-> NoChainRow]
  /\ now = 0
  /\ requests = [r \in Requests |-> Idle]
  /\ audit = {} /\ reply = {}

Tick == /\ now < Horizon /\ now' = now + 1
        /\ reply' = {} /\ audit' = {}
        /\ UNCHANGED <<anchors, chains, requests>>

(* RequirePermission on the four routes that write.                          *)
Forbid(r) ==
  /\ requests[r].pc = "idle"
  /\ \E actor \in Actors, permission \in {"anchor.write", "chain.write"} :
       ~HasPermission(RoleOf[actor], permission)
  /\ Respond(r, "forbidden")

(* Parsing and validation touch no table; they may also fail on the form of  *)
(* the certificate.                                                          *)
ImportAnchor(r, a, cert) ==
  /\ requests[r].pc = "idle" /\ Admitted("anchor.write")
  /\ \/ Respond(r, "invalid certificate")
     \/ /\ RootValid(cert, now)
        /\ Proceed(r, [Idle EXCEPT !.pc = "commit", !.op = "import anchor", !.target = a,
                                   !.row = ImportedAnchor(cert, now)])

ImportAnchorCommit(r) ==
  LET q == requests[r] IN
  /\ q.pc = "commit" /\ q.op = "import anchor"
  /\ \/ AnchorTaken(q.target, q.row.cert) /\ Respond(r, "exists")
     \/ /\ ~AnchorTaken(q.target, q.row.cert)
        /\ anchors' = [anchors EXCEPT ![q.target] = q.row]
        /\ Record(r, NoAnchorRow, q.row)
        /\ UNCHANGED chains

LifecycleRefusal(op, row) ==
  IF row.cert = NoCert THEN "not found"
  ELSE IF op \in {"revoke", "restore"} /\ row.revokedAt # Never THEN "already revoked"
  ELSE "none"

Lifecycle(r, op, a) ==
  LET refusal == LifecycleRefusal(op, anchors[a]) IN
  /\ requests[r].pc = "idle" /\ Admitted("anchor.write")
  /\ \/ refusal # "none" /\ Respond(r, refusal)
     \/ /\ refusal = "none"
        /\ Proceed(r, [Idle EXCEPT !.pc = "commit", !.op = op, !.target = a,
                                   !.row = anchors[a], !.at = now])

(* SetLifecycle, WHERE id only: whatever the row has become.                 *)
LifecycleCommit(r) ==
  LET q == requests[r] IN
  /\ q.pc = "commit" /\ q.op \in {"revoke", "archive", "restore"}
  /\ anchors' = [anchors EXCEPT ![q.target] = Lifecycled(q.op, @, q.at)]
  /\ Record(r, q.row, Lifecycled(q.op, q.row, q.at))
  /\ UNCHANGED chains
-----------------------------------------------------------------------------
(* The anchor is read and the bundle verified against it.  Neither a         *)
(* revocation nor the archive flag of the anchor is looked at.               *)
ImportChain(r, c, a, bundle) ==
  /\ requests[r].pc = "idle" /\ Admitted("chain.write")
  /\ \/ anchors[a].cert = NoCert /\ Respond(r, "not found")
     \/ anchors[a].cert # NoCert /\ Respond(r, "invalid certificate")
     \/ /\ anchors[a].cert = bundle.signer
        /\ RootValid(bundle.signer, now) /\ PathValid(bundle, now)
        /\ Proceed(r, [Idle EXCEPT !.pc = "commit", !.op = "import chain", !.target = c,
                                   !.row = ImportedChain(a, bundle.signer, bundle, now)])

ImportChainCommit(r) ==
  LET q == requests[r] IN
  /\ q.pc = "commit" /\ q.op = "import chain"
  /\ \/ ChainTaken(q.target, q.row.bundle) /\ Respond(r, "exists")
     \/ /\ ~ChainTaken(q.target, q.row.bundle)
        /\ chains' = [chains EXCEPT ![q.target] = q.row]
        /\ Record(r, NoChainRow, q.row)
        /\ UNCHANGED anchors

Transition(r, c, to) ==
  /\ requests[r].pc = "idle" /\ Admitted("chain.write")
  /\ \/ chains[c].state = "absent" /\ Respond(r, "not found")
     \/ /\ chains[c].state # "absent" /\ ~CanTransitionChain(chains[c].state, to)
        /\ Respond(r, "illegal transition")
     \/ /\ CanTransitionChain(chains[c].state, to)
        /\ Proceed(r, [Idle EXCEPT !.pc = "commit", !.op = "transition", !.target = c,
                                   !.row = chains[c], !.to = to])

(* Mutant: the UPDATE names the chain by its id only.                        *)
UpdateById(q) == TRUE

(* WHERE id = ? AND chain_state = the state read earlier.                    *)
StateUnchanged(q) == chains[q.target].state = q.row.state

TransitionCommit(r) ==
  LET q == requests[r] IN
  /\ q.pc = "commit" /\ q.op = "transition"
  /\ \/ ~StateUnchanged(q) /\ Respond(r, "changed concurrently")
     \/ /\ StateUnchanged(q)
        /\ chains' = [chains EXCEPT ![q.target].state = q.to]
        /\ Record(r, q.row, [q.row EXCEPT !.state = q.to])
        /\ UNCHANGED anchors
-----------------------------------------------------------------------------
(* An import answers from memory, the others read the row again.             *)
AnswerCommitted(r) == requests[r].pc = "answer" /\ Respond(r, "success")

(* A failed access: before the commit nothing is written, after it only the  *)
(* answer is lost.                                                           *)
StoreFails(r) == requests[r].pc # "idle" /\ Respond(r, "internal error")

(* The process dies: goroutines vanish, open transactions roll back.         *)
Crash == /\ \E r \in Requests : requests[r].pc # "idle"
         /\ requests' = [r \in Requests |-> Idle]
         /\ reply' = {} /\ audit' = {}
         /\ UNCHANGED <<anchors, chains, now>>

Receive(r) ==
  \/ Forbid(r)
  \/ \E a \in Anchors : \/ \E cert \in Certs : ImportAnchor(r, a, cert)
                        \/ \E op \in {"revoke", "archive", "restore"} : Lifecycle(r, op, a)
  \/ \E c \in Chains : \/ \E a \in Anchors, bundle \in Bundles : ImportChain(r, c, a, bundle)
                       \/ \E to \in RequestableStates : Transition(r, c, to)

Handle(r) == \/ ImportAnchorCommit(r) \/ LifecycleCommit(r)
             \/ ImportChainCommit(r) \/ TransitionCommit(r)
             \/ AnswerCommitted(r)

Next == \/ \E r \in Requests : Receive(r) \/ Handle(r) \/ StoreFails(r)
        \/ Tick \/ Crash

Spec == Init /\ [][Next]_vars
-----------------------------------------------------------------------------
(* Type invariant.                                                           *)
TypeOK ==
  /\ anchors \in [Anchors -> AnchorRow]
  /\ chains \in [Chains -> ChainRow]
  /\ now \in Instants
  /\ requests \in [Requests -> Request]
  /\ audit \subseteq Entry
  /\ reply \subseteq Statuses

(* A revocation is final, of an anchor as of a chain, whatever the requests  *)
(* that read the row before it go on to write.                               *)
RevocationFinal ==
  [][/\ \A a \in Anchors : anchors[a].revokedAt # Never => anchors'[a].revokedAt # Never
     /\ \A c \in Chains : chains[c].state = "revoked" => chains'[c].state = "revoked"]_vars

(* The stored certificate_state, by which the list is filtered (trust_       *)
(* anchor_repository.go:129), says "revoked" of exactly the revoked anchors, *)
(* although restoring one writes the row without looking at it again.        *)
RevokedFiltered ==
  \A a \in Anchors : anchors[a].stored = "revoked" <=> anchors[a].revokedAt # Never

(* A chain's state only moves forward, by one audited change whose snapshots *)
(* are the row before and after it: two transitions decided on one copy do   *)
(* not both take effect.                                                     *)
Forward == {<<"absent", "validated">>, <<"validated", "deprecated">>,
            <<"validated", "revoked">>, <<"deprecated", "revoked">>}

ChainMovesAudited ==
  [][\A c \in Chains :
       chains'[c] # chains[c] =>
         /\ <<chains[c].state, chains'[c].state>> \in Forward
         /\ \E e \in audit' : /\ e.target = c
                              /\ e.before = chains[c] /\ e.after = chains'[c]]_vars

(* The stored window lies in the root's window, and a chain whose bundle had *)
(* no spare certificates was verified at an instant of its window (the end   *)
(* included, where the simulator already counts it as expired).              *)
ValidatedInWindow ==
  \A c \in Chains : chains[c].state # "absent" =>
    LET root == anchors[chains[c].anchor].cert IN
    /\ WindowOf[root].from <= chains[c].from /\ chains[c].to <= WindowOf[root].to
    /\ chains[c].bundle.spare = {} =>
         chains[c].from <= chains[c].verifiedAt /\ chains[c].verifiedAt <= chains[c].to
=============================================================================
