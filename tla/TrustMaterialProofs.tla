------------------------- MODULE TrustMaterialProofs -------------------------
(* Proofs about TrustMaterial for every set of anchors, chains, certificates *)
(* and concurrent requests.  A life cycle commit needs no condition in its   *)
(* WHERE clause because each writes its own columns; a chain's transition    *)
(* needs one, and what it read besides the state can no longer change.       *)
EXTENDS TrustMaterial, FiniteSetTheorems, TLAPS

Typed ==
  /\ anchors \in [Anchors -> AnchorRow]
  /\ chains \in [Chains -> ChainRow]
  /\ now \in Instants
  /\ requests \in [Requests -> Request]

(* Only a stored anchor is revoked; only an absent chain is empty, and no    *)
(* chain waits to be validated.                                              *)
RowsSound ==
  /\ \A a \in Anchors : anchors[a].cert = NoCert => anchors[a].revokedAt = Never
  /\ \A c \in Chains : chains[c].state = "absent" => chains[c] = NoChainRow
  /\ \A c \in Chains : chains[c].state # "imported"

(* What a request that is about to commit has established.                   *)
RequestSound(q) ==
  q.pc = "commit" =>
    /\ q.op = "import anchor" =>
         /\ q.target \in Anchors /\ q.row \in AnchorRow
         /\ q.row.cert # NoCert /\ q.row.revokedAt = Never /\ q.row.stored # "revoked"
    /\ q.op \in {"revoke", "archive", "restore"} =>
         q.target \in Anchors /\ anchors[q.target].cert # NoCert /\ q.row \in AnchorRow
    /\ q.op = "import chain" =>
         q.target \in Chains /\ q.row \in ChainRow /\ q.row.state = "validated"
    /\ q.op = "transition" =>
         /\ q.target \in Chains /\ q.row \in ChainRow
         /\ <<q.row.state, q.to>> \in Forward
         /\ chains[q.target].state # "absent"
         /\ chains[q.target] = [q.row EXCEPT !.state = chains[q.target].state]

RequestsSound == \A r \in Requests : RequestSound(requests[r])

IInv == Typed /\ RowsSound /\ RevokedFiltered /\ RequestsSound
-----------------------------------------------------------------------------
LEMMA OntoFinite ==
  ASSUME NEW S, IsFiniteSet(S), NEW T, NEW f \in [S -> T], \A t \in T : \E x \in S : f[x] = t
  PROVE  IsFiniteSet(T)
<1>1. f \in Surjection(S, T)
  BY DEF Surjection
<1> QED BY <1>1, FS_Surjection

(* A finite set of integers has a greatest and a least element: a set that   *)
(* has none, and is as small as possible, would lose its property with any   *)
(* element.                                                                  *)
LEMMA FiniteMax ==
  ASSUME NEW S, IsFiniteSet(S), S \subseteq Int, S # {}
  PROVE  Max(S) \in S /\ \A y \in S : Max(S) >= y
<1> DEFINE HasMax(T) == \E x \in T : \A y \in T : x >= y
           Bad == {T \in SUBSET S : T # {} /\ ~HasMax(T)}
<1>1. Bad = {}
  <2> SUFFICES ASSUME Bad # {} PROVE FALSE
    OBVIOUS
  <2>1. IsWellFoundedOn(StrictSubsetOrdering(S), SUBSET S)
    BY FS_StrictSubsetOrderingWellFounded, FS_FiniteSubsetsOfFinite
  <2>2. PICK T \in Bad : \A U \in Bad : ~(<<U, T>> \in StrictSubsetOrdering(S))
    <3>1. Bad \subseteq SUBSET S
      OBVIOUS
    <3> HIDE DEF Bad
    <3> QED BY <2>1, <3>1, WFMin
  <2>3. PICK x \in T : TRUE
    OBVIOUS
  <2> DEFINE U == T \ {x}
  <2>4. T \subseteq Int /\ x \in Int /\ ~HasMax(T)
    OBVIOUS
  <2>5. U \notin Bad
    <3>1. U \in SUBSET S /\ T \in SUBSET S /\ U \subseteq T /\ U # T
      BY <2>3
    <3>2. <<U, T>> \in StrictSubsetOrdering(S)
      BY <3>1 DEF StrictSubsetOrdering
    <3> QED BY <2>2, <3>2
  <2>6. CASE U = {}
    <3>1. \A y \in T : x >= y
      BY <2>4, <2>6
    <3> QED BY <2>3, <2>4, <3>1
  <2>7. CASE U # {}
    <3>1. PICK m \in U : \A y \in U : m >= y
      BY <2>5, <2>7
    <3>2. CASE m >= x
      BY <2>4, <3>1, <3>2
    <3>3. CASE ~(m >= x)
      <4>1. \A y \in T : x >= y
        BY <2>4, <3>1, <3>3
      <4> QED BY <2>3, <2>4, <4>1
    <3> QED BY <3>2, <3>3
  <2> QED BY <2>6, <2>7
<1>2. HasMax(S)
  BY <1>1
<1> QED BY <1>2 DEF Max

LEMMA FiniteMin ==
  ASSUME NEW S, IsFiniteSet(S), S \subseteq Int, S # {}
  PROVE  Min(S) \in S /\ \A y \in S : Min(S) =< y
<1> DEFINE N == {0 - y : y \in S}
<1>1. IsFiniteSet(N) /\ N \subseteq Int /\ N # {}
  <2>1. N \subseteq Int
    OBVIOUS
  <2>0. N # {}
    <3>1. PICK y \in S : TRUE
      OBVIOUS
    <3>2. 0 - y \in N
      BY <3>1
    <3> QED BY <3>2
  <2> DEFINE f == [y \in S |-> 0 - y]
  <2>2. IsFiniteSet(N)
    <3>1. f \in [S -> N] /\ \A n \in N : \E y \in S : f[y] = n
      OBVIOUS
    <3> HIDE DEF f, N
    <3> QED BY <3>1, OntoFinite
  <2> QED BY <2>0, <2>1, <2>2
<1>2. Max(N) \in N /\ \A n \in N : Max(N) >= n
  <2> HIDE DEF N
  <2> QED BY <1>1, FiniteMax
<1>3. PICK x \in S : Max(N) = 0 - x
  BY <1>2
<1>4. \A y \in S : x =< y
  <2> TAKE y \in S
  <2>1. 0 - x >= 0 - y
    BY <1>2, <1>3
  <2> QED BY <2>1
<1> QED BY <1>4 DEF Min

(* The window of an imported chain is cut down to what its certificates have *)
(* in common.                                                                *)
Starts(root, bundle) ==
  {w.from : w \in {WindowOf[cert] : cert \in Certificates(root, bundle)}}

Ends(root, bundle) ==
  {w.to : w \in {WindowOf[cert] : cert \in Certificates(root, bundle)}}

LEMMA WindowsHaveBounds ==
  ASSUME NEW bundle \in Bundles, NEW root \in Certs
  PROVE  LET certs == Certificates(root, bundle)
             from == Max(Starts(root, bundle))
             to == Min(Ends(root, bundle)) IN
         /\ certs \subseteq Certs
         /\ from \in Int /\ to \in Int
         /\ \A cert \in certs : WindowOf[cert].from <= from /\ to <= WindowOf[cert].to
         /\ \E cert \in certs : from = WindowOf[cert].from
         /\ \E cert \in certs : to = WindowOf[cert].to
<1> DEFINE certs == Certificates(root, bundle)
           starts == Starts(root, bundle)
           ends == Ends(root, bundle)
<1>1. certs \subseteq Certs /\ root \in certs
  BY CertAssumption DEF Certificates, Bundle
<1>2. IsFiniteSet(certs)
  <2>1. IsFiniteSet(bundle.path) /\ IsFiniteSet(bundle.spare)
    BY CertAssumption
  <2>2. IsFiniteSet({root}) /\ IsFiniteSet({bundle.leaf})
    BY FS_Singleton
  <2>3. IsFiniteSet(bundle.path \cup bundle.spare)
    BY <2>1, FS_Union
  <2>4. IsFiniteSet({root} \cup {bundle.leaf})
    BY <2>2, FS_Union
  <2>5. IsFiniteSet(({root} \cup {bundle.leaf}) \cup (bundle.path \cup bundle.spare))
    BY <2>3, <2>4, FS_Union
  <2>6. certs = ({root} \cup {bundle.leaf}) \cup (bundle.path \cup bundle.spare)
    BY DEF Certificates
  <2> QED BY <2>5, <2>6
<1> HIDE DEF certs
<1>3. \A cert \in certs : WindowOf[cert] \in Window
  BY <1>1, CertAssumption
<1>4. starts \subseteq Int /\ starts # {} /\ ends \subseteq Int /\ ends # {}
  BY <1>1, <1>3 DEF Window, Starts, Ends, certs
<1>5. IsFiniteSet(starts) /\ IsFiniteSet(ends)
  <2> DEFINE first == [cert \in certs |-> WindowOf[cert].from]
             last == [cert \in certs |-> WindowOf[cert].to]
  <2>1. first \in [certs -> starts] /\ \A t \in starts : \E cert \in certs : first[cert] = t
    BY DEF Starts, certs
  <2>2. last \in [certs -> ends] /\ \A t \in ends : \E cert \in certs : last[cert] = t
    BY DEF Ends, certs
  <2> HIDE DEF first, last, starts, ends
  <2> QED BY <1>2, <2>1, <2>2, OntoFinite
<1>6. /\ \A cert \in certs : WindowOf[cert].from \in starts /\ WindowOf[cert].to \in ends
      /\ \A t \in starts : \E cert \in certs : t = WindowOf[cert].from
      /\ \A t \in ends : \E cert \in certs : t = WindowOf[cert].to
  BY DEF Starts, Ends, certs
<1> HIDE DEF starts, ends
<1>7. Max(starts) \in starts /\ \A t \in starts : Max(starts) >= t
  BY <1>4, <1>5, FiniteMax
<1>8. Min(ends) \in ends /\ \A t \in ends : Min(ends) =< t
  BY <1>4, <1>5, FiniteMin
<1>9. \A cert \in certs : WindowOf[cert].from <= Max(starts) /\ Min(ends) <= WindowOf[cert].to
  BY <1>4, <1>6, <1>7, <1>8
<1>10. Max(starts) \in Int /\ Min(ends) \in Int
  BY <1>4, <1>7, <1>8
<1>11. /\ \E cert \in certs : Max(starts) = WindowOf[cert].from
       /\ \E cert \in certs : Min(ends) = WindowOf[cert].to
  BY <1>6, <1>7, <1>8
<1> QED BY <1>1, <1>9, <1>10, <1>11 DEF certs, starts, ends
-----------------------------------------------------------------------------
(* The empty values are well typed.                                          *)
LEMMA EmptyValuesTyped ==
  NoAnchorRow \in AnchorRow /\ NoChainRow \in ChainRow /\ Idle \in Request
<1>1. NoAnchorRow \in AnchorRow
  BY DEF NoAnchorRow, AnchorRow
<1>2. 0 \in Int /\ 0 \in Instants
  BY ClockAssumption DEF Instants
<1>3. NoChainRow \in ChainRow
  BY <1>2 DEF NoChainRow, ChainRow
<1>4. Idle \in Request
  BY <1>1, <1>2 DEF Idle, Request
<1> QED BY <1>1, <1>3, <1>4

(* A step that leaves both tables alone and puts one request into a sound    *)
(* position.                                                                 *)
LEMMA RequestMoves ==
  ASSUME IInv, NEW r \in Requests, NEW x \in Request, RequestSound(x),
         requests' = [requests EXCEPT ![r] = x],
         UNCHANGED <<anchors, chains, now>>
  PROVE  IInv'
<1>1. requests' \in [Requests -> Request] /\ requests'[r] = x
      /\ \A p \in Requests \ {r} : requests'[p] = requests[p]
  BY DEF IInv, Typed
<1>2. Typed'
  BY <1>1 DEF IInv, Typed
<1>3. RowsSound' /\ RevokedFiltered'
  BY DEF IInv, RowsSound, RevokedFiltered
<1>4. ASSUME NEW p \in Requests PROVE RequestSound(requests[p])'
  <2>1. RequestSound(requests'[p])
    BY <1>1 DEF IInv, RequestsSound
  <2>2. anchors' = anchors /\ chains' = chains
    OBVIOUS
  <2> HIDE DEF IInv
  <2> QED BY ONLY <2>1, <2>2 DEF RequestSound
<1>5. RequestsSound'
  BY <1>4 DEF RequestsSound
<1> QED BY <1>2, <1>3, <1>5 DEF IInv

LEMMA Responded ==
  ASSUME IInv, NEW r \in Requests, NEW status, Respond(r, status)
  PROVE  IInv'
<1>1. RequestSound(Idle)
  BY DEF RequestSound, Idle
<1> QED BY <1>1, EmptyValuesTyped, RequestMoves DEF Respond

LEMMA Proceeded ==
  ASSUME IInv, NEW r \in Requests, NEW x \in Request, RequestSound(x), Proceed(r, x)
  PROVE  IInv'
BY RequestMoves DEF Proceed

(* A request that has committed is sound whatever it did.                    *)
LEMMA CommittedRequest ==
  ASSUME IInv, NEW r \in Requests, requests' = [requests EXCEPT ![r].pc = "answer"]
  PROVE  /\ requests' \in [Requests -> Request]
         /\ requests'[r].pc = "answer"
         /\ \A p \in Requests \ {r} : requests'[p] = requests[p]
<1> DEFINE x == [requests[r] EXCEPT !.pc = "answer"]
<1>1. requests \in [Requests -> Request] /\ requests[r] \in Request
  BY DEF IInv, Typed
<1>2. x \in Request /\ x.pc = "answer"
  BY <1>1 DEF Request
<1>3. requests' = [requests EXCEPT ![r] = x]
  OBVIOUS
<1> HIDE DEF x
<1> QED BY <1>1, <1>2, <1>3
-----------------------------------------------------------------------------
(* One lemma per action that puts a request before its commit.               *)
LEMMA ImportAnchorSound ==
  ASSUME IInv, NEW r \in Requests, NEW a \in Anchors, NEW cert \in Certs,
         ImportAnchor(r, a, cert)
  PROVE  IInv'
<1> DEFINE row == ImportedAnchor(cert, now)
           x == [Idle EXCEPT !.pc = "commit", !.op = "import anchor", !.target = a, !.row = row]
<1>1. row \in AnchorRow /\ row.cert # NoCert /\ row.revokedAt = Never /\ row.stored # "revoked"
  BY SentinelAssumption DEF ImportedAnchor, AnchorRow, CertificateState, CertificateStates
<1> HIDE DEF row
<1>2. x \in Request
  BY <1>1, EmptyValuesTyped DEF Request, Operations, AnchorOperations
<1>3. RequestSound(x)
  BY <1>1 DEF RequestSound, Idle
<1>4. CASE Respond(r, "invalid certificate")
  BY <1>4, Responded
<1>5. CASE Proceed(r, x)
  BY <1>2, <1>3, <1>5, Proceeded
<1> QED BY <1>4, <1>5 DEF ImportAnchor, row

LEMMA LifecycleSound ==
  ASSUME IInv, NEW r \in Requests, NEW op \in {"revoke", "archive", "restore"},
         NEW a \in Anchors, Lifecycle(r, op, a)
  PROVE  IInv'
<1> DEFINE refusal == LifecycleRefusal(op, anchors[a])
           x == [Idle EXCEPT !.pc = "commit", !.op = op, !.target = a,
                             !.row = anchors[a], !.at = now]
<1>1. CASE Respond(r, refusal)
  BY <1>1, Responded
<1>2. CASE refusal = "none" /\ Proceed(r, x)
  <2>1. anchors[a] \in AnchorRow /\ now \in Instants
    BY DEF IInv, Typed
  <2>2. x \in Request
    BY <2>1, EmptyValuesTyped DEF Request, Operations, AnchorOperations
  <2>3. anchors[a].cert # NoCert
    BY <1>2 DEF LifecycleRefusal
  <2>4. RequestSound(x)
    BY <2>1, <2>3 DEF RequestSound, Idle
  <2> QED BY <1>2, <2>2, <2>4, Proceeded
<1> QED BY <1>1, <1>2 DEF Lifecycle

LEMMA ImportChainSound ==
  ASSUME IInv, NEW r \in Requests, NEW c \in Chains, NEW a \in Anchors,
         NEW bundle \in Bundles, ImportChain(r, c, a, bundle)
  PROVE  IInv'
<1> DEFINE row == ImportedChain(a, bundle.signer, bundle, now)
           x == [Idle EXCEPT !.pc = "commit", !.op = "import chain", !.target = c, !.row = row]
<1>1. row \in ChainRow /\ row.state = "validated"
  <2>1. now \in Instants
    BY DEF IInv, Typed
  <2>2. Max(Starts(bundle.signer, bundle)) \in Int /\ Min(Ends(bundle.signer, bundle)) \in Int
    <3>1. bundle.signer \in Certs
      BY CertAssumption DEF Bundle
    <3> QED BY <3>1, WindowsHaveBounds
  <2>3. row = [state |-> "validated", anchor |-> a, bundle |-> bundle, verifiedAt |-> now,
               from |-> Max(Starts(bundle.signer, bundle)), to |-> Min(Ends(bundle.signer, bundle))]
    BY DEF ImportedChain, Starts, Ends
  <2> HIDE DEF row
  <2> QED BY <2>1, <2>2, <2>3 DEF ChainRow, ChainStates
<1> HIDE DEF row
<1>2. x \in Request
  BY <1>1, EmptyValuesTyped DEF Request, Operations
<1>3. RequestSound(x)
  BY <1>1 DEF RequestSound, Idle
<1>4. CASE \E status \in Statuses : Respond(r, status)
  BY <1>4, Responded
<1>5. CASE Proceed(r, x)
  BY <1>2, <1>3, <1>5, Proceeded
<1> QED BY <1>4, <1>5 DEF ImportChain, Statuses, row

(* What the code allows, other than leaving "imported", moves forward.       *)
LEMMA LegalMovesForward ==
  ASSUME NEW from, NEW to, CanTransitionChain(from, to), from # "imported"
  PROVE  <<from, to>> \in Forward
BY DEF CanTransitionChain, Forward

LEMMA TransitionSound ==
  ASSUME IInv, NEW r \in Requests, NEW c \in Chains, NEW to \in RequestableStates,
         Transition(r, c, to)
  PROVE  IInv'
<1> DEFINE x == [Idle EXCEPT !.pc = "commit", !.op = "transition", !.target = c,
                             !.row = chains[c], !.to = to]
<1>1. CASE \E status \in Statuses : Respond(r, status)
  BY <1>1, Responded
<1>2. CASE CanTransitionChain(chains[c].state, to) /\ Proceed(r, x)
  <2>1. chains[c] \in ChainRow
    BY DEF IInv, Typed
  <2>2. x \in Request
    BY <2>1, EmptyValuesTyped DEF Request, Operations, RequestableStates, ChainStates
  <2>3. <<chains[c].state, to>> \in Forward
    BY <1>2, LegalMovesForward DEF IInv, RowsSound
  <2>4. chains[c].state # "absent"
    BY <1>2 DEF CanTransitionChain
  <2>5. chains[c] = [chains[c] EXCEPT !.state = chains[c].state]
    BY <2>1 DEF ChainRow
  <2>6. RequestSound(x)
    BY <2>1, <2>3, <2>4, <2>5 DEF RequestSound, Idle
  <2> QED BY <1>2, <2>2, <2>6, Proceeded
<1> QED BY <1>1, <1>2 DEF Transition, Statuses
-----------------------------------------------------------------------------
(* A commit that writes one anchor.                                          *)
LEMMA AnchorCommitted ==
  ASSUME IInv, NEW r \in Requests, NEW a \in Anchors, NEW row \in AnchorRow,
         row.cert # NoCert,
         row.stored = "revoked" <=> row.revokedAt # Never,
         anchors' = [anchors EXCEPT ![a] = row],
         requests' = [requests EXCEPT ![r].pc = "answer"],
         UNCHANGED <<chains, now>>
  PROVE  IInv'
<1>1. /\ requests' \in [Requests -> Request] /\ requests'[r].pc = "answer"
      /\ \A p \in Requests \ {r} : requests'[p] = requests[p]
  BY CommittedRequest
<1>2. /\ anchors' \in [Anchors -> AnchorRow] /\ anchors'[a] = row
      /\ \A b \in Anchors \ {a} : anchors'[b] = anchors[b]
  BY DEF IInv, Typed
<1>3. Typed'
  BY <1>1, <1>2 DEF IInv, Typed
<1>4. RowsSound' /\ RevokedFiltered'
  BY <1>2 DEF IInv, RowsSound, RevokedFiltered
<1>5. \A b \in Anchors : anchors[b].cert # NoCert => anchors'[b].cert # NoCert
  BY <1>2
<1>6. ASSUME NEW p \in Requests \ {r}
      PROVE  RequestSound(requests[p])'
  <2>1. requests'[p] = requests[p] /\ chains' = chains /\ RequestSound(requests[p])
    BY <1>1 DEF IInv, RequestsSound
  <2> QED BY <2>1, <1>5 DEF RequestSound
<1>7. RequestSound(requests[r])'
  BY <1>1 DEF RequestSound
<1>8. RequestsSound'
  BY <1>6, <1>7 DEF RequestsSound
<1> QED BY <1>3, <1>4, <1>8 DEF IInv

LEMMA ImportAnchorCommitSound ==
  ASSUME IInv, NEW r \in Requests, ImportAnchorCommit(r)
  PROVE  IInv'
<1>1. CASE Respond(r, "exists")
  BY <1>1, Responded
<1>2. CASE ~Respond(r, "exists")
  <2> DEFINE q == requests[r]
  <2>1. q.target \in Anchors /\ q.row \in AnchorRow
        /\ q.row.cert # NoCert /\ q.row.revokedAt = Never /\ q.row.stored # "revoked"
    BY DEF ImportAnchorCommit, IInv, RequestsSound, RequestSound
  <2>2. /\ anchors' = [anchors EXCEPT ![q.target] = q.row]
        /\ requests' = [requests EXCEPT ![r].pc = "answer"]
        /\ UNCHANGED <<chains, now>>
    BY <1>2 DEF ImportAnchorCommit, Record
  <2> QED BY <2>1, <2>2, AnchorCommitted
<1> QED BY <1>1, <1>2

(* Each life cycle operation writes its own columns.                         *)
LEMMA LifecycledRow ==
  ASSUME NEW op \in {"revoke", "archive", "restore"}, NEW row \in AnchorRow,
         NEW at \in Instants
  PROVE  /\ Lifecycled(op, row, at) \in AnchorRow
         /\ Lifecycled(op, row, at).cert = row.cert
         /\ row.revokedAt # Never => Lifecycled(op, row, at).revokedAt # Never
         /\ (row.stored = "revoked" <=> row.revokedAt # Never) =>
              (Lifecycled(op, row, at).stored = "revoked"
                 <=> Lifecycled(op, row, at).revokedAt # Never)
<1>1. CASE op = "revoke"
  <2>1. Lifecycled(op, row, at) = [row EXCEPT !.revokedAt = at, !.stored = "revoked"]
    BY <1>1 DEF Lifecycled
  <2>2. Lifecycled(op, row, at) \in AnchorRow
    BY <2>1 DEF AnchorRow, CertificateStates
  <2>3. /\ Lifecycled(op, row, at).cert = row.cert
        /\ Lifecycled(op, row, at).revokedAt = at /\ Lifecycled(op, row, at).stored = "revoked"
    BY <2>1 DEF AnchorRow
  <2>4. at # Never
    BY SentinelAssumption
  <2> QED BY <2>2, <2>3, <2>4
<1>2. CASE op = "archive"
  BY <1>2 DEF Lifecycled, AnchorRow
<1>3. CASE op = "restore"
  BY <1>3 DEF Lifecycled, AnchorRow
<1> QED BY <1>1, <1>2, <1>3

(* What a life cycle commit does to its anchor.                              *)
LEMMA LifecycleWrites ==
  ASSUME IInv, NEW r \in Requests, LifecycleCommit(r)
  PROVE  LET q == requests[r] IN
         /\ q.op \in {"revoke", "archive", "restore"}
         /\ q.target \in Anchors /\ q.at \in Instants
         /\ anchors[q.target] \in AnchorRow /\ anchors[q.target].cert # NoCert
         /\ anchors' = [anchors EXCEPT ![q.target] = Lifecycled(q.op, anchors[q.target], q.at)]
<1>1. requests[r] \in Request
  BY DEF IInv, Typed
<1>2. requests[r].at \in Instants
  BY <1>1 DEF Request
<1>3. requests[r].target \in Anchors /\ anchors[requests[r].target].cert # NoCert
  BY DEF LifecycleCommit, IInv, RequestsSound, RequestSound
<1> QED BY <1>2, <1>3 DEF LifecycleCommit, IInv, Typed

LEMMA LifecycleCommitSound ==
  ASSUME IInv, NEW r \in Requests, LifecycleCommit(r)
  PROVE  IInv'
<1> DEFINE q == requests[r]
           row == Lifecycled(q.op, anchors[q.target], q.at)
<1>1. /\ q.op \in {"revoke", "archive", "restore"}
      /\ q.target \in Anchors /\ q.at \in Instants
      /\ anchors[q.target] \in AnchorRow /\ anchors[q.target].cert # NoCert
      /\ anchors' = [anchors EXCEPT ![q.target] = row]
  BY LifecycleWrites
<1>2. anchors[q.target].stored = "revoked" <=> anchors[q.target].revokedAt # Never
  BY <1>1 DEF IInv, RevokedFiltered
<1>3. row \in AnchorRow /\ row.cert # NoCert
      /\ (row.stored = "revoked" <=> row.revokedAt # Never)
  BY <1>1, <1>2, LifecycledRow
<1>4. /\ requests' = [requests EXCEPT ![r].pc = "answer"]
      /\ UNCHANGED <<chains, now>>
  BY DEF LifecycleCommit, Record
<1> HIDE DEF q, row
<1> QED BY <1>1, <1>3, <1>4, AnchorCommitted

(* A commit that writes one chain: a new one, or another state of an old.    *)
LEMMA ChainCommitted ==
  ASSUME IInv, NEW r \in Requests, NEW c \in Chains, NEW row \in ChainRow,
         row.state \notin {"absent", "imported"},
         \/ chains[c].state = "absent"
         \/ row = [chains[c] EXCEPT !.state = row.state],
         chains' = [chains EXCEPT ![c] = row],
         requests' = [requests EXCEPT ![r].pc = "answer"],
         UNCHANGED <<anchors, now>>
  PROVE  IInv'
<1>1. /\ requests' \in [Requests -> Request] /\ requests'[r].pc = "answer"
      /\ \A p \in Requests \ {r} : requests'[p] = requests[p]
  BY CommittedRequest
<1>2. /\ chains' \in [Chains -> ChainRow] /\ chains'[c] = row
      /\ \A d \in Chains \ {c} : chains'[d] = chains[d]
  BY DEF IInv, Typed
<1>3. Typed'
  BY <1>1, <1>2 DEF IInv, Typed
<1>4. RowsSound' /\ RevokedFiltered'
  BY <1>2 DEF IInv, RowsSound, RevokedFiltered
<1>5. ASSUME NEW held \in ChainRow, chains[c].state # "absent",
             chains[c] = [held EXCEPT !.state = chains[c].state]
      PROVE  row = [held EXCEPT !.state = row.state]
  BY <1>5 DEF ChainRow
<1>6. ASSUME NEW p \in Requests \ {r}
      PROVE  RequestSound(requests[p])'
  <2> DEFINE q == requests[p]
  <2>1. requests'[p] = q /\ RequestSound(q)
    BY <1>1 DEF IInv, RequestsSound
  <2>2. ASSUME q.pc = "commit", q.op = "transition"
        PROVE  /\ chains'[q.target].state # "absent"
               /\ chains'[q.target] = [q.row EXCEPT !.state = chains'[q.target].state]
    <3>1. /\ q.target \in Chains /\ q.row \in ChainRow
          /\ chains[q.target].state # "absent"
          /\ chains[q.target] = [q.row EXCEPT !.state = chains[q.target].state]
      BY <2>1, <2>2 DEF RequestSound
    <3> HIDE DEF q
    <3>2. CASE q.target = c
      BY <3>1, <3>2, <1>2, <1>5
    <3>3. CASE q.target # c
      BY <3>1, <3>3, <1>2
    <3> QED BY <3>2, <3>3
  <2> QED BY <2>1, <2>2 DEF RequestSound
<1>7. RequestsSound'
  BY <1>1, <1>6 DEF RequestsSound, RequestSound
<1> QED BY <1>3, <1>4, <1>7 DEF IInv

LEMMA ImportChainCommitSound ==
  ASSUME IInv, NEW r \in Requests, ImportChainCommit(r)
  PROVE  IInv'
<1>1. CASE Respond(r, "exists")
  BY <1>1, Responded
<1>2. CASE ~Respond(r, "exists")
  <2> DEFINE q == requests[r]
  <2>1. q.target \in Chains /\ q.row \in ChainRow /\ q.row.state = "validated"
    BY DEF ImportChainCommit, IInv, RequestsSound, RequestSound
  <2>2. /\ chains[q.target].state = "absent"
        /\ chains' = [chains EXCEPT ![q.target] = q.row]
        /\ requests' = [requests EXCEPT ![r].pc = "answer"]
        /\ UNCHANGED <<anchors, now>>
    BY <1>2 DEF ImportChainCommit, Record, ChainTaken
  <2> HIDE DEF q
  <2> QED BY <2>1, <2>2, ChainCommitted
<1> QED BY <1>1, <1>2

(* A transition that commits: the copy was still true, and the state moves   *)
(* forward from it.                                                          *)
LEMMA TransitionWrites ==
  ASSUME IInv, NEW r \in Requests, TransitionCommit(r), ~Respond(r, "changed concurrently")
  PROVE  LET q == requests[r] IN
         /\ q.target \in Chains /\ chains[q.target] \in ChainRow
         /\ chains[q.target] = q.row /\ q.to \in {"validated", "deprecated", "revoked"}
         /\ <<chains[q.target].state, q.to>> \in Forward
         /\ chains' = [chains EXCEPT ![q.target] = [q.row EXCEPT !.state = q.to]]
         /\ requests' = [requests EXCEPT ![r].pc = "answer"]
         /\ UNCHANGED <<anchors, now>>
         /\ audit' = {[action |-> q.op, target |-> q.target, before |-> q.row,
                       after |-> [q.row EXCEPT !.state = q.to]]}
<1> DEFINE q == requests[r]
<1>1. /\ q.target \in Chains /\ q.row \in ChainRow /\ <<q.row.state, q.to>> \in Forward
      /\ chains[q.target] = [q.row EXCEPT !.state = chains[q.target].state]
  BY DEF TransitionCommit, IInv, RequestsSound, RequestSound
<1>2. /\ chains[q.target].state = q.row.state
      /\ chains' = [chains EXCEPT ![q.target].state = q.to]
      /\ requests' = [requests EXCEPT ![r].pc = "answer"]
      /\ UNCHANGED <<anchors, now>>
      /\ audit' = {[action |-> q.op, target |-> q.target, before |-> q.row,
                    after |-> [q.row EXCEPT !.state = q.to]]}
  BY DEF TransitionCommit, StateUnchanged, Record
<1> HIDE DEF q
<1>3. chains[q.target] = q.row
  BY <1>1, <1>2 DEF ChainRow
<1>4. q.to \in {"validated", "deprecated", "revoked"}
  BY <1>1 DEF Forward
<1>5. chains' = [chains EXCEPT ![q.target] = [q.row EXCEPT !.state = q.to]]
  BY <1>2, <1>3
<1> QED BY <1>1, <1>2, <1>3, <1>4, <1>5 DEF q

LEMMA TransitionCommitSound ==
  ASSUME IInv, NEW r \in Requests, TransitionCommit(r)
  PROVE  IInv'
<1>1. CASE Respond(r, "changed concurrently")
  BY <1>1, Responded
<1>2. CASE ~Respond(r, "changed concurrently")
  <2> DEFINE q == requests[r]
             row == [q.row EXCEPT !.state = q.to]
  <2>1. /\ q.target \in Chains /\ chains[q.target] \in ChainRow
        /\ chains[q.target] = q.row /\ q.to \in {"validated", "deprecated", "revoked"}
        /\ chains' = [chains EXCEPT ![q.target] = row]
        /\ requests' = [requests EXCEPT ![r].pc = "answer"]
        /\ UNCHANGED <<anchors, now>>
    BY <1>2, TransitionWrites
  <2> HIDE DEF q
  <2>2. row \in ChainRow /\ row.state = q.to
    BY <2>1 DEF ChainRow, ChainStates
  <2>3. row = [chains[q.target] EXCEPT !.state = row.state]
    BY <2>1, <2>2
  <2> HIDE DEF row
  <2> QED BY <2>1, <2>2, <2>3, ChainCommitted
<1> QED BY <1>1, <1>2
-----------------------------------------------------------------------------
LEMMA InitSound == Init => IInv
<1> SUFFICES ASSUME Init PROVE IInv
  OBVIOUS
<1>1. Typed
  BY EmptyValuesTyped, ClockAssumption DEF Init, Typed, Instants
<1>2. RowsSound /\ RevokedFiltered
  BY DEF Init, RowsSound, RevokedFiltered, NoAnchorRow, NoChainRow
<1>3. RequestsSound
  BY DEF Init, RequestsSound, RequestSound, Idle
<1> QED BY <1>1, <1>2, <1>3 DEF IInv

LEMMA CrashSound ==
  ASSUME IInv, Crash
  PROVE  IInv'
<1>1. Typed'
  BY EmptyValuesTyped DEF Crash, IInv, Typed
<1>2. RowsSound' /\ RevokedFiltered'
  BY DEF Crash, IInv, RowsSound, RevokedFiltered
<1>3. \A r \in Requests : requests'[r].pc # "commit"
  BY DEF Crash, Idle
<1>4. RequestsSound'
  BY <1>3 DEF RequestsSound, RequestSound
<1> QED BY <1>1, <1>2, <1>4 DEF IInv

LEMMA TickSound ==
  ASSUME IInv, Tick
  PROVE  IInv'
<1>1. now' \in Instants
  BY ClockAssumption DEF Tick, IInv, Typed, Instants
<1>2. UNCHANGED <<anchors, chains, requests>>
  BY DEF Tick
<1>3. Typed'
  BY <1>1, <1>2 DEF IInv, Typed
<1> QED BY <1>2, <1>3 DEF IInv, RowsSound, RevokedFiltered, RequestsSound, RequestSound

LEMMA ReceiveSound ==
  ASSUME IInv, NEW r \in Requests, Receive(r)
  PROVE  IInv'
<1>1. CASE Forbid(r)
  BY <1>1, Responded DEF Forbid
<1> QED
  BY <1>1, ImportAnchorSound, LifecycleSound, ImportChainSound, TransitionSound DEF Receive

LEMMA HandleSound ==
  ASSUME IInv, NEW r \in Requests, Handle(r) \/ StoreFails(r)
  PROVE  IInv'
<1>1. CASE AnswerCommitted(r) \/ StoreFails(r)
  BY <1>1, Responded DEF AnswerCommitted, StoreFails
<1> QED
  BY <1>1, ImportAnchorCommitSound, LifecycleCommitSound, ImportChainCommitSound,
     TransitionCommitSound DEF Handle

LEMMA StepSound == IInv /\ [Next]_vars => IInv'
<1> SUFFICES ASSUME IInv, [Next]_vars PROVE IInv'
  OBVIOUS
<1>1. CASE UNCHANGED vars
  BY <1>1 DEF vars, IInv, Typed, RowsSound, RevokedFiltered, RequestsSound, RequestSound
<1>2. CASE Next
  BY <1>2, ReceiveSound, HandleSound, TickSound, CrashSound DEF Next
<1> QED BY <1>1, <1>2

(* The inductive invariant holds.                                            *)
THEOREM Invariant == Spec => []IInv
BY InitSound, StepSound, PTL DEF Spec

(* The list's filter knows exactly the revoked anchors as revoked, whatever  *)
(* overlaps with a revocation.                                               *)
THEOREM RevokedFilteredAlways == Spec => []RevokedFiltered
<1>1. IInv => RevokedFiltered
  BY DEF IInv
<1> QED BY <1>1, Invariant, PTL
-----------------------------------------------------------------------------
(* The steps that write a table, as this module's properties see them.       *)
AnchorWrites(r) == ImportAnchorCommit(r) \/ LifecycleCommit(r)

ChainWrites(r) == ImportChainCommit(r) \/ TransitionCommit(r)

LEMMA Reading ==
  ASSUME [Next]_vars
  PROVE  /\ (~\E r \in Requests : AnchorWrites(r)) => anchors' = anchors
         /\ (~\E r \in Requests : ChainWrites(r)) => chains' = chains
<1>1. ASSUME NEW r \in Requests, NEW status, Respond(r, status)
      PROVE  anchors' = anchors /\ chains' = chains
  BY <1>1 DEF Respond
<1>2. ASSUME NEW r \in Requests, NEW x, Proceed(r, x)
      PROVE  anchors' = anchors /\ chains' = chains
  BY <1>2 DEF Proceed
<1>3. ASSUME NEW r \in Requests, Receive(r)
      PROVE  anchors' = anchors /\ chains' = chains
  <2>1. ASSUME NEW a, NEW cert, ImportAnchor(r, a, cert)
        PROVE  anchors' = anchors /\ chains' = chains
    BY <2>1, <1>1, <1>2 DEF ImportAnchor
  <2>2. ASSUME NEW op, NEW a, Lifecycle(r, op, a)
        PROVE  anchors' = anchors /\ chains' = chains
    BY <2>2, <1>1, <1>2 DEF Lifecycle
  <2>3. ASSUME NEW c, NEW a, NEW bundle, ImportChain(r, c, a, bundle)
        PROVE  anchors' = anchors /\ chains' = chains
    BY <2>3, <1>1, <1>2 DEF ImportChain
  <2>4. ASSUME NEW c, NEW to, Transition(r, c, to)
        PROVE  anchors' = anchors /\ chains' = chains
    BY <2>4, <1>1, <1>2 DEF Transition
  <2>5. CASE Forbid(r)
    BY <2>5, <1>1 DEF Forbid
  <2> QED BY <1>3, <2>1, <2>2, <2>3, <2>4, <2>5 DEF Receive
<1>4. ASSUME NEW r \in Requests, AnswerCommitted(r) \/ StoreFails(r)
      PROVE  anchors' = anchors /\ chains' = chains
  BY <1>4, <1>1 DEF AnswerCommitted, StoreFails
<1>5. ASSUME NEW r \in Requests, AnchorWrites(r) PROVE chains' = chains
  BY <1>5, <1>1 DEF AnchorWrites, ImportAnchorCommit, LifecycleCommit
<1>6. ASSUME NEW r \in Requests, ChainWrites(r) PROVE anchors' = anchors
  BY <1>6, <1>1 DEF ChainWrites, ImportChainCommit, TransitionCommit
<1>7. CASE Tick \/ Crash \/ UNCHANGED vars
  BY <1>7 DEF Tick, Crash, vars
<1>8. CASE \E r \in Requests : Receive(r) \/ Handle(r) \/ StoreFails(r)
  BY <1>8, <1>3, <1>4, <1>5, <1>6 DEF Handle, AnchorWrites, ChainWrites
<1> QED BY <1>7, <1>8 DEF Next

LEMMA AnchorEffect ==
  ASSUME IInv, NEW r \in Requests, AnchorWrites(r),
         NEW a \in Anchors, anchors[a].revokedAt # Never
  PROVE  anchors'[a].revokedAt # Never
<1> DEFINE q == requests[r]
<1>1. anchors \in [Anchors -> AnchorRow] /\ anchors[a].cert # NoCert
  BY DEF IInv, Typed, RowsSound
<1>2. CASE ImportAnchorCommit(r)
  <2>1. CASE Respond(r, "exists")
    BY <2>1 DEF Respond
  <2>2. CASE ~Respond(r, "exists")
    <3>1. anchors[q.target].cert = NoCert /\ anchors' = [anchors EXCEPT ![q.target] = q.row]
      BY <1>2, <2>2 DEF ImportAnchorCommit, AnchorTaken
    <3> QED BY <3>1, <1>1
  <2> QED BY <2>1, <2>2
<1>3. CASE LifecycleCommit(r)
  <2>1. /\ q.op \in {"revoke", "archive", "restore"}
        /\ q.target \in Anchors /\ q.at \in Instants
        /\ anchors' = [anchors EXCEPT ![q.target] = Lifecycled(q.op, anchors[q.target], q.at)]
    BY <1>3, LifecycleWrites
  <2>2. a # q.target => anchors'[a] = anchors[a]
    BY <1>1, <2>1
  <2>3. a = q.target => anchors'[a] = Lifecycled(q.op, anchors[a], q.at)
    BY <1>1, <2>1
  <2>4. a = q.target => anchors'[a].revokedAt # Never
    <3> HIDE DEF q
    <3> QED BY <1>1, <2>1, <2>3, LifecycledRow
  <2> QED BY <2>2, <2>4
<1> QED BY <1>2, <1>3 DEF AnchorWrites

LEMMA ChainEffect ==
  ASSUME IInv, NEW r \in Requests, ChainWrites(r),
         NEW c \in Chains, chains'[c] # chains[c]
  PROVE  /\ <<chains[c].state, chains'[c].state>> \in Forward
         /\ \E e \in audit' : e.target = c /\ e.before = chains[c] /\ e.after = chains'[c]
<1> DEFINE q == requests[r]
<1>1. chains \in [Chains -> ChainRow]
  BY DEF IInv, Typed
<1>2. CASE ImportChainCommit(r)
  <2>1. ~Respond(r, "exists")
    BY DEF Respond
  <2>2. /\ chains[q.target].state = "absent"
        /\ chains' = [chains EXCEPT ![q.target] = q.row]
        /\ audit' = {[action |-> q.op, target |-> q.target,
                      before |-> NoChainRow, after |-> q.row]}
    BY <1>2, <2>1 DEF ImportChainCommit, ChainTaken, Record
  <2>3. q.row.state = "validated"
    BY <1>2 DEF ImportChainCommit, IInv, RequestsSound, RequestSound
  <2> HIDE DEF q
  <2>4. q.target = c /\ chains'[c] = q.row
    BY <1>1, <2>2
  <2>5. chains[c] = NoChainRow
    BY <2>2, <2>4 DEF IInv, RowsSound
  <2>6. <<chains[c].state, chains'[c].state>> \in Forward
    BY <2>2, <2>3, <2>4 DEF Forward
  <2> QED BY <2>2, <2>4, <2>5, <2>6
<1>3. CASE TransitionCommit(r)
  <2> DEFINE after == [q.row EXCEPT !.state = q.to]
  <2>1. ~Respond(r, "changed concurrently")
    BY DEF Respond
  <2>2. /\ q.target \in Chains /\ chains[q.target] \in ChainRow
        /\ chains[q.target] = q.row
        /\ <<chains[q.target].state, q.to>> \in Forward
        /\ chains' = [chains EXCEPT ![q.target] = after]
        /\ audit' = {[action |-> q.op, target |-> q.target, before |-> q.row, after |-> after]}
    BY <1>3, <2>1, TransitionWrites
  <2> HIDE DEF q
  <2>3. after.state = q.to
    BY <2>2 DEF ChainRow
  <2> HIDE DEF after
  <2>4. q.target = c /\ chains'[c] = after
    BY <1>1, <2>2
  <2> QED BY <2>2, <2>3, <2>4
<1> QED BY <1>2, <1>3 DEF ChainWrites

(* A revocation is final, of an anchor as of a chain, under any interleaving *)
(* of requests that read the row before it.                                  *)
THEOREM RevocationAlwaysFinal == Spec => RevocationFinal
<1>1. IInv /\ [Next]_vars =>
        [/\ \A a \in Anchors : anchors[a].revokedAt # Never => anchors'[a].revokedAt # Never
         /\ \A c \in Chains : chains[c].state = "revoked" => chains'[c].state = "revoked"]_vars
  <2> SUFFICES ASSUME IInv, [Next]_vars
               PROVE  /\ \A a \in Anchors :
                           anchors[a].revokedAt # Never => anchors'[a].revokedAt # Never
                      /\ \A c \in Chains :
                           chains[c].state = "revoked" => chains'[c].state = "revoked"
    OBVIOUS
  <2>1. ASSUME NEW a \in Anchors, anchors[a].revokedAt # Never
        PROVE  anchors'[a].revokedAt # Never
    BY <2>1, Reading, AnchorEffect
  <2>2. ASSUME NEW c \in Chains, chains[c].state = "revoked"
        PROVE  chains'[c].state = "revoked"
    <3>1. SUFFICES ASSUME chains'[c] # chains[c] PROVE FALSE
      BY <2>2
    <3>2. PICK r \in Requests : ChainWrites(r)
      BY <3>1, Reading
    <3>3. <<chains[c].state, chains'[c].state>> \in Forward
      BY <3>1, <3>2, ChainEffect
    <3> QED BY <2>2, <3>3 DEF Forward
  <2> QED BY <2>1, <2>2
<1> QED BY <1>1, Invariant, PTL DEF Spec, RevocationFinal

(* Every change of a chain goes forward and is audited with the row before   *)
(* and after it.                                                             *)
THEOREM ChainMovesAlwaysAudited == Spec => ChainMovesAudited
<1>1. IInv /\ [Next]_vars =>
        [\A c \in Chains :
           chains'[c] # chains[c] =>
             /\ <<chains[c].state, chains'[c].state>> \in Forward
             /\ \E e \in audit' : /\ e.target = c
                                  /\ e.before = chains[c] /\ e.after = chains'[c]]_vars
  <2> SUFFICES ASSUME IInv, [Next]_vars, NEW c \in Chains, chains'[c] # chains[c]
               PROVE  /\ <<chains[c].state, chains'[c].state>> \in Forward
                      /\ \E e \in audit' : /\ e.target = c
                                           /\ e.before = chains[c] /\ e.after = chains'[c]
    OBVIOUS
  <2>1. PICK r \in Requests : ChainWrites(r)
    BY Reading
  <2> QED BY <2>1, ChainEffect
<1> QED BY <1>1, Invariant, PTL DEF Spec, ChainMovesAudited
-----------------------------------------------------------------------------
(* Audit entries and answers.                                                *)
OutputTyped == audit \subseteq Entry /\ reply \subseteq Statuses

LEMMA RespondedTyped ==
  ASSUME NEW r \in Requests, NEW status \in Statuses, Respond(r, status)
  PROVE  OutputTyped'
BY DEF Respond, OutputTyped

LEMMA ProceededTyped ==
  ASSUME NEW r \in Requests, NEW x, Proceed(r, x)
  PROVE  OutputTyped'
BY DEF Proceed, OutputTyped

LEMMA RecordedTyped ==
  ASSUME NEW r \in Requests, requests[r] \in Request, requests[r].op # "none",
         requests[r].target \in Anchors \cup Chains,
         NEW before \in AnchorRow \cup ChainRow, NEW after \in AnchorRow \cup ChainRow,
         Record(r, before, after)
  PROVE  OutputTyped'
<1>1. requests[r].op \in Operations
  BY DEF Request
<1> QED BY <1>1 DEF Record, OutputTyped, Entry

LEMMA ReceiveTyped ==
  ASSUME NEW r \in Requests, Receive(r)
  PROVE  OutputTyped'
<1>1. CASE Forbid(r)
  BY <1>1, RespondedTyped DEF Forbid, Statuses
<1>2. ASSUME NEW a, NEW cert, ImportAnchor(r, a, cert) PROVE OutputTyped'
  BY <1>2, RespondedTyped, ProceededTyped DEF ImportAnchor, Statuses
<1>3. ASSUME NEW op, NEW a, Lifecycle(r, op, a) PROVE OutputTyped'
  <2>1. LifecycleRefusal(op, anchors[a]) \in Statuses \cup {"none"}
    BY DEF LifecycleRefusal, Statuses
  <2> QED BY <1>3, <2>1, RespondedTyped, ProceededTyped DEF Lifecycle
<1>4. ASSUME NEW c, NEW a, NEW bundle, ImportChain(r, c, a, bundle) PROVE OutputTyped'
  BY <1>4, RespondedTyped, ProceededTyped DEF ImportChain, Statuses
<1>5. ASSUME NEW c, NEW to, Transition(r, c, to) PROVE OutputTyped'
  BY <1>5, RespondedTyped, ProceededTyped DEF Transition, Statuses
<1> QED BY <1>1, <1>2, <1>3, <1>4, <1>5 DEF Receive

LEMMA HandleTyped ==
  ASSUME IInv, NEW r \in Requests, Handle(r) \/ StoreFails(r)
  PROVE  OutputTyped'
<1> DEFINE q == requests[r]
<1>0. q \in Request
  BY DEF IInv, Typed
<1>1. CASE AnswerCommitted(r) \/ StoreFails(r)
  BY <1>1, RespondedTyped DEF AnswerCommitted, StoreFails, Statuses
<1>2. CASE ImportAnchorCommit(r)
  <2>1. q.op # "none" /\ q.target \in Anchors /\ q.row \in AnchorRow
    BY <1>2 DEF ImportAnchorCommit, IInv, RequestsSound, RequestSound
  <2>2. CASE Respond(r, "exists")
    BY <2>2, RespondedTyped DEF Statuses
  <2>3. CASE Record(r, NoAnchorRow, q.row)
    BY <1>0, <2>1, <2>3, EmptyValuesTyped, RecordedTyped
  <2> QED BY <1>2, <2>2, <2>3 DEF ImportAnchorCommit
<1>3. CASE LifecycleCommit(r)
  <2> DEFINE after == Lifecycled(q.op, q.row, q.at)
  <2>1. q.op \in {"revoke", "archive", "restore"} /\ q.target \in Anchors /\ q.at \in Instants
    BY <1>3, LifecycleWrites
  <2>2. Record(r, q.row, after)
    BY <1>3 DEF LifecycleCommit
  <2>3. q.row \in AnchorRow
    BY <1>3 DEF LifecycleCommit, IInv, RequestsSound, RequestSound
  <2>4. after \in AnchorRow
    BY <2>1, <2>3, LifecycledRow
  <2> HIDE DEF after
  <2> QED BY <1>0, <2>1, <2>2, <2>3, <2>4, RecordedTyped
<1>4. CASE ImportChainCommit(r)
  <2>1. q.op # "none" /\ q.target \in Chains /\ q.row \in ChainRow
    BY <1>4 DEF ImportChainCommit, IInv, RequestsSound, RequestSound
  <2>2. CASE Respond(r, "exists")
    BY <2>2, RespondedTyped DEF Statuses
  <2>3. CASE Record(r, NoChainRow, q.row)
    BY <1>0, <2>1, <2>3, EmptyValuesTyped, RecordedTyped
  <2> QED BY <1>4, <2>2, <2>3 DEF ImportChainCommit
<1>5. CASE TransitionCommit(r)
  <2> DEFINE after == [q.row EXCEPT !.state = q.to]
  <2>1. q.op # "none" /\ q.target \in Chains /\ q.row \in ChainRow
        /\ <<q.row.state, q.to>> \in Forward
    BY <1>5 DEF TransitionCommit, IInv, RequestsSound, RequestSound
  <2>2. q.to \in {"validated", "deprecated", "revoked"}
    BY <2>1 DEF Forward
  <2>3. after \in ChainRow
    BY <2>1, <2>2 DEF ChainRow, ChainStates
  <2>4. CASE Respond(r, "changed concurrently")
    BY <2>4, RespondedTyped DEF Statuses
  <2>5. CASE Record(r, q.row, after)
    <3> HIDE DEF after
    <3> QED BY <1>0, <2>1, <2>3, <2>5, RecordedTyped
  <2> QED BY <1>5, <2>4, <2>5 DEF TransitionCommit
<1> QED BY <1>1, <1>2, <1>3, <1>4, <1>5 DEF Handle

LEMMA OutputStep ==
  ASSUME IInv, OutputTyped, [Next]_vars
  PROVE  OutputTyped'
<1>1. CASE Tick \/ Crash \/ UNCHANGED vars
  BY <1>1 DEF Tick, Crash, vars, OutputTyped
<1>2. CASE \E r \in Requests : Receive(r) \/ Handle(r) \/ StoreFails(r)
  BY <1>2, ReceiveTyped, HandleTyped
<1> QED BY <1>1, <1>2 DEF Next

(* Every reachable state of the trust material is well typed.                *)
THEOREM TypeCorrect == Spec => []TypeOK
<1>1. Init => OutputTyped
  BY DEF Init, OutputTyped
<1>2. IInv /\ OutputTyped /\ [Next]_vars => OutputTyped'
  BY OutputStep
<1>3. IInv /\ OutputTyped => TypeOK
  BY DEF IInv, Typed, OutputTyped, TypeOK
<1> QED BY <1>1, <1>2, <1>3, Invariant, PTL DEF Spec
-----------------------------------------------------------------------------
(* Windows.  A certificate, once it is stored as an anchor, stays; so what   *)
(* an import found out about its chain stays true until and after it commits.*)
Verified(row) ==
  LET root == anchors[row.anchor].cert IN
  /\ row.anchor \in Anchors /\ root # NoCert
  /\ WindowOf[root].from <= row.from /\ row.to <= WindowOf[root].to
  /\ row.bundle.spare = {} => row.from <= row.verifiedAt /\ row.verifiedAt <= row.to

WindowsSound ==
  /\ \A c \in Chains : chains[c].state # "absent" => Verified(chains[c])
  /\ \A r \in Requests :
       requests[r].pc = "commit" /\ requests[r].op = "import chain" => Verified(requests[r].row)

LEMMA CertsKept ==
  ASSUME IInv, [Next]_vars, NEW a \in Anchors, anchors[a].cert # NoCert
  PROVE  anchors'[a].cert = anchors[a].cert
<1>1. anchors \in [Anchors -> AnchorRow]
  BY DEF IInv, Typed
<1>2. ASSUME NEW r \in Requests, ImportAnchorCommit(r)
      PROVE  anchors'[a].cert = anchors[a].cert
  <2> DEFINE q == requests[r]
  <2>1. CASE Respond(r, "exists")
    BY <2>1 DEF Respond
  <2>2. CASE ~Respond(r, "exists")
    <3>1. anchors[q.target].cert = NoCert /\ anchors' = [anchors EXCEPT ![q.target] = q.row]
      BY <1>2, <2>2 DEF ImportAnchorCommit, AnchorTaken
    <3> QED BY <3>1, <1>1
  <2> QED BY <2>1, <2>2
<1>3. ASSUME NEW r \in Requests, LifecycleCommit(r)
      PROVE  anchors'[a].cert = anchors[a].cert
  <2> DEFINE q == requests[r]
  <2>1. /\ q.op \in {"revoke", "archive", "restore"}
        /\ q.target \in Anchors /\ q.at \in Instants
        /\ anchors' = [anchors EXCEPT ![q.target] = Lifecycled(q.op, anchors[q.target], q.at)]
    BY <1>3, LifecycleWrites
  <2> HIDE DEF q
  <2> QED BY <1>1, <2>1, LifecycledRow
<1> QED BY <1>2, <1>3, Reading DEF AnchorWrites

LEMMA VerifiedKept ==
  ASSUME IInv, [Next]_vars, NEW row, Verified(row)
  PROVE  Verified(row)'
<1>1. row.anchor \in Anchors /\ anchors[row.anchor].cert # NoCert
  BY DEF Verified
<1>2. anchors'[row.anchor].cert = anchors[row.anchor].cert
  BY <1>1, CertsKept
<1> QED BY <1>2 DEF Verified

(* What a chain's import found out.                                          *)
LEMMA ImportVerifies ==
  ASSUME IInv, NEW r \in Requests, NEW c \in Chains, NEW a \in Anchors, NEW bundle \in Bundles,
         anchors[a].cert = bundle.signer,
         RootValid(bundle.signer, now), PathValid(bundle, now)
  PROVE  Verified(ImportedChain(a, bundle.signer, bundle, now))
<1> DEFINE root == bundle.signer
           certs == Certificates(root, bundle)
           from == Max(Starts(root, bundle))
           to == Min(Ends(root, bundle))
           row == ImportedChain(a, root, bundle, now)
<1>1. root \in Certs /\ root # NoCert
  BY CertAssumption, SentinelAssumption DEF Bundle
<1>2. /\ certs \subseteq Certs
      /\ from \in Int /\ to \in Int
      /\ \A cert \in certs : WindowOf[cert].from <= from /\ to <= WindowOf[cert].to
      /\ \E cert \in certs : from = WindowOf[cert].from
      /\ \E cert \in certs : to = WindowOf[cert].to
  BY <1>1, WindowsHaveBounds
<1>3. row = [state |-> "validated", anchor |-> a, bundle |-> bundle, verifiedAt |-> now,
             from |-> from, to |-> to]
  BY DEF ImportedChain, Starts, Ends
<1>4. root \in certs
  BY DEF Certificates
<1>5. ASSUME bundle.spare = {}
      PROVE  from <= now /\ now <= to
  <2>1. \A cert \in certs : cert \in {root, bundle.leaf} \cup bundle.path
    BY <1>5 DEF Certificates
  <2>2. \A cert \in certs : WindowOf[cert].from \in Int /\ WindowOf[cert].to \in Int
    BY <1>2, CertAssumption DEF Window
  <2>3. now \in Int
    BY ClockAssumption DEF IInv, Typed, Instants
  <2>4. \A cert \in certs : WindowOf[cert].from <= now /\ now <= WindowOf[cert].to
    BY <2>1, <2>2, <2>3, <1>4 DEF RootValid, PathValid
  <2> HIDE DEF certs, from, to
  <2> QED BY <1>2, <2>4
<1> HIDE DEF certs, from, to, row
<1>6. /\ WindowOf[root].from <= from /\ to <= WindowOf[root].to
  BY <1>2, <1>4
<1>7. Verified(row)
  BY <1>1, <1>3, <1>5, <1>6 DEF Verified
<1> QED BY <1>7 DEF row

(* A request that is about to store a chain was so before the step, or it    *)
(* has just verified the chain.                                              *)
LEMMA ImportsHeld ==
  ASSUME IInv, [Next]_vars, NEW p \in Requests,
         requests'[p].pc = "commit", requests'[p].op = "import chain"
  PROVE  \/ requests'[p] = requests[p]
         \/ Verified(requests'[p].row)
<1>0. requests \in [Requests -> Request] /\ requests[p] \in Request
  BY DEF IInv, Typed
<1>1. ASSUME NEW r \in Requests, NEW x, requests' = [requests EXCEPT ![r] = x],
             x.pc = "commit" => x.op # "import chain"
      PROVE  requests'[p] = requests[p]
  BY <1>0, <1>1
<1>2. ASSUME NEW r \in Requests, NEW status, Respond(r, status)
      PROVE  requests'[p] = requests[p]
  <2>1. Idle.pc # "commit"
    BY DEF Idle
  <2> QED BY <1>2, <2>1, <1>1 DEF Respond
<1>3. ASSUME NEW r \in Requests, NEW before, NEW after, Record(r, before, after)
      PROVE  requests'[p] = requests[p]
  <2>1. requests' = [requests EXCEPT ![r].pc = "answer"]
    BY <1>3 DEF Record
  <2>2. /\ requests'[r].pc = "answer"
        /\ \A q \in Requests \ {r} : requests'[q] = requests[q]
    BY <2>1, CommittedRequest
  <2> QED BY <2>2
<1>4. ASSUME NEW r \in Requests, NEW a \in Anchors, NEW cert \in Certs, ImportAnchor(r, a, cert)
      PROVE  requests'[p] = requests[p]
  BY <1>4, <1>1, <1>2 DEF ImportAnchor, Proceed, Idle
<1>5. ASSUME NEW r \in Requests, NEW op \in {"revoke", "archive", "restore"}, NEW a \in Anchors,
             Lifecycle(r, op, a)
      PROVE  requests'[p] = requests[p]
  BY <1>5, <1>1, <1>2 DEF Lifecycle, Proceed, Idle
<1>6. ASSUME NEW r \in Requests, NEW c \in Chains, NEW to \in RequestableStates, Transition(r, c, to)
      PROVE  requests'[p] = requests[p]
  BY <1>6, <1>1, <1>2 DEF Transition, Proceed, Idle
<1>7. ASSUME NEW r \in Requests, NEW c \in Chains, NEW a \in Anchors, NEW bundle \in Bundles,
             ImportChain(r, c, a, bundle)
      PROVE  \/ requests'[p] = requests[p]
             \/ Verified(requests'[p].row)
  <2> DEFINE row == ImportedChain(a, bundle.signer, bundle, now)
             x == [Idle EXCEPT !.pc = "commit", !.op = "import chain", !.target = c, !.row = row]
  <2>1. CASE \E status \in Statuses : Respond(r, status)
    BY <2>1, <1>2
  <2>2. CASE /\ anchors[a].cert = bundle.signer
             /\ RootValid(bundle.signer, now) /\ PathValid(bundle, now)
             /\ Proceed(r, x)
    <3>1. Verified(row)
      BY <2>2, ImportVerifies
    <3>2. x.row = row
      BY DEF Idle
    <3>3. requests' = [requests EXCEPT ![r] = x] /\ anchors' = anchors
      BY <2>2 DEF Proceed
    <3> HIDE DEF x, row
    <3>4. requests'[p] = requests[p] \/ requests'[p] = x
      BY <3>3, <1>0
    <3> QED BY <3>1, <3>2, <3>4
  <2> QED BY <1>7, <2>1, <2>2 DEF ImportChain, Statuses
<1>8. ASSUME NEW r \in Requests, Receive(r)
      PROVE  \/ requests'[p] = requests[p]
             \/ Verified(requests'[p].row)
  <2>1. CASE Forbid(r)
    BY <2>1, <1>2 DEF Forbid
  <2> QED BY <1>8, <2>1, <1>4, <1>5, <1>6, <1>7 DEF Receive
<1>9. ASSUME NEW r \in Requests, Handle(r) \/ StoreFails(r)
      PROVE  requests'[p] = requests[p]
  BY <1>9, <1>2, <1>3 DEF Handle, StoreFails, AnswerCommitted, ImportAnchorCommit,
     LifecycleCommit, ImportChainCommit, TransitionCommit
<1>10. CASE Tick \/ Crash \/ UNCHANGED vars
  <2>1. CASE Tick \/ UNCHANGED vars
    BY <2>1 DEF Tick, vars
  <2>2. CASE Crash
    <3>1. requests'[p].pc = "idle"
      BY <2>2 DEF Crash, Idle
    <3> QED BY <3>1
  <2> QED BY <1>10, <2>1, <2>2
<1> QED BY <1>8, <1>9, <1>10 DEF Next

LEMMA WindowsStep ==
  ASSUME IInv, WindowsSound, [Next]_vars
  PROVE  WindowsSound'
<1>1. ASSUME NEW r \in Requests, requests'[r].pc = "commit", requests'[r].op = "import chain"
      PROVE  Verified(requests[r].row)'
  <2>1. CASE requests'[r] = requests[r]
    <3>1. Verified(requests[r].row)
      BY <1>1, <2>1 DEF WindowsSound
    <3>2. ASSUME NEW row, row = requests[r].row
          PROVE  Verified(row)'
      BY <3>1, <3>2, VerifiedKept
    <3> QED BY <2>1, <3>2 DEF Verified
  <2>2. CASE requests'[r] # requests[r]
    <3>1. Verified(requests'[r].row)
      BY <1>1, <2>2, ImportsHeld
    <3>2. ASSUME NEW row, row = requests'[r].row
          PROVE  Verified(row)'
      BY <3>1, <3>2, VerifiedKept
    <3> QED BY <3>2 DEF Verified
  <2> QED BY <2>1, <2>2
<1>2. ASSUME NEW c \in Chains, chains'[c].state # "absent"
      PROVE  Verified(chains[c])'
  <2>1. CASE chains'[c] = chains[c]
    <3>1. Verified(chains[c])
      BY <1>2, <2>1 DEF WindowsSound
    <3>2. ASSUME NEW row, row = chains[c]
          PROVE  Verified(row)'
      BY <3>1, <3>2, VerifiedKept
    <3> QED BY <2>1, <3>2 DEF Verified
  <2>2. CASE chains'[c] # chains[c]
    <3>0. chains \in [Chains -> ChainRow]
      BY DEF IInv, Typed
    <3>1. PICK r \in Requests : ChainWrites(r)
      BY <2>2, Reading
    <3> DEFINE q == requests[r]
    <3>2. CASE ImportChainCommit(r)
      <4>1. ~Respond(r, "exists")
        BY <2>2 DEF Respond
      <4>2. chains' = [chains EXCEPT ![q.target] = q.row] /\ q.pc = "commit" /\ q.op = "import chain"
        BY <3>2, <4>1 DEF ImportChainCommit
      <4>3. chains'[c] = q.row
        BY <2>2, <3>0, <4>2
      <4>4. Verified(q.row)
        BY <4>2 DEF WindowsSound
      <4>5. ASSUME NEW row, row = q.row
            PROVE  Verified(row)'
        BY <4>4, <4>5, VerifiedKept
      <4> QED BY <4>3, <4>5 DEF Verified
    <3>3. CASE TransitionCommit(r)
      <4>1. ~Respond(r, "changed concurrently")
        BY <2>2 DEF Respond
      <4>2. /\ q.target \in Chains /\ chains[q.target] \in ChainRow
            /\ chains[q.target] = q.row /\ <<chains[q.target].state, q.to>> \in Forward
            /\ chains' = [chains EXCEPT ![q.target] = [q.row EXCEPT !.state = q.to]]
        BY <3>3, <4>1, TransitionWrites
      <4> HIDE DEF q
      <4>3. q.target = c /\ chains'[c] = [chains[c] EXCEPT !.state = q.to]
        BY <2>2, <3>0, <4>2
      <4>4. chains[c].state # "absent"
        <5>1. CASE q.to = "validated"
          BY <4>2, <4>3, <5>1, <3>3 DEF q, TransitionCommit, IInv, RequestsSound, RequestSound
        <5>2. CASE q.to # "validated"
          BY <4>2, <4>3, <5>2 DEF Forward
        <5> QED BY <5>1, <5>2
      <4>5. Verified(chains[c])
        BY <4>4 DEF WindowsSound
      <4>6. ASSUME NEW row, row = chains[c]
            PROVE  Verified(row)'
        BY <4>5, <4>6, VerifiedKept
      <4>7. /\ chains'[c].anchor = chains[c].anchor /\ chains'[c].bundle = chains[c].bundle
            /\ chains'[c].from = chains[c].from /\ chains'[c].to = chains[c].to
            /\ chains'[c].verifiedAt = chains[c].verifiedAt
        BY <3>0, <4>3 DEF ChainRow
      <4> QED BY <4>6, <4>7 DEF Verified
    <3> QED BY <3>1, <3>2, <3>3 DEF ChainWrites
  <2> QED BY <2>1, <2>2
<1> QED BY <1>1, <1>2 DEF WindowsSound

LEMMA WindowsInit == Init => WindowsSound
<1> SUFFICES ASSUME Init PROVE WindowsSound
  OBVIOUS
<1>1. \A c \in Chains : chains[c].state = "absent"
  BY DEF Init, NoChainRow
<1>2. \A r \in Requests : requests[r].pc = "idle"
  BY DEF Init, Idle
<1> QED BY <1>1, <1>2 DEF WindowsSound

(* Every stored window lies in its root's, and contains the instant at which *)
(* the chain was verified if the bundle had no spare certificates, although  *)
(* time and other requests pass between the verification and the commit.     *)
THEOREM WindowsAlwaysVerified == Spec => []ValidatedInWindow
<1>1. Init => WindowsSound
  BY WindowsInit
<1>2. IInv /\ WindowsSound /\ [Next]_vars => WindowsSound'
  BY WindowsStep
<1>3. WindowsSound => ValidatedInWindow
  BY DEF WindowsSound, Verified, ValidatedInWindow
<1> QED BY <1>1, <1>2, <1>3, Invariant, PTL DEF Spec
=============================================================================
