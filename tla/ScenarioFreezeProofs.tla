------------------------- MODULE ScenarioFreezeProofs -------------------------
(* Proofs about ScenarioFreeze.  What a Create has read may be out of date   *)
(* by the time it is stored, but rows are never removed, a chain's validity  *)
(* never changes and a revocation is final: what was read bounds what is     *)
(* there later.                                                              *)
EXTENDS ScenarioFreeze, TrustMaterialProofs

(* The page is all that was known, or it is full and leaves out the chains   *)
(* that are valid the longest.                                               *)
PageSound(i) ==
  \/ i.page = i.known
  \/ /\ Cardinality(i.known) > PageSize
     /\ \A p \in i.page, c \in i.known \ i.page : chains[p].to <= chains[c].to

InputSound(i) ==
  /\ i.known \subseteq StoredChains /\ i.page \subseteq i.known
  /\ PageSound(i)
  /\ i.before \subseteq RevokedAnchors \cup RevokedChains
  /\ i.before \cap {i.old, i.new} \subseteq i.revoked
  /\ i.before \cap i.page \subseteq i.dead
  /\ i.revoked \subseteq RevokedAnchors
  /\ i.dead \subseteq RevokedChains

(* What a Create that is under way has established.                          *)
FreezeSound(z) ==
  /\ InputSound(z.input)
  /\ z.pc # "idle" => z.input.old \in Anchors /\ z.input.new \in Anchors /\ z.outcome = "none"
  /\ z.pc = "chains" => z.input.wanted \subseteq StoredChains
  /\ z.pc = "services" => z.input.wanted \subseteq z.input.known

FreezeTyped ==
  /\ presents \in [Services -> Chains \cup {NoChain}]
  /\ freezes \in [Freezers -> Freeze]
  /\ scenarios \subseteq Frozen

FreezesSound ==
  /\ \A f \in Freezers : FreezeSound(freezes[f])
  /\ \A s \in scenarios : InputSound(s) /\ s.old \in Anchors /\ s.new \in Anchors

FInv == IInv /\ OutputTyped /\ FreezeTyped /\ FreezesSound
-----------------------------------------------------------------------------
(* What no step takes back.                                                  *)
Lasting ==
  /\ \A a \in Anchors : anchors[a].revokedAt # Never => anchors'[a].revokedAt # Never
  /\ \A c \in Chains : chains[c].state # "absent" =>
       chains'[c].state # "absent" /\ chains'[c].to = chains[c].to
  /\ \A c \in Chains : chains[c].state = "revoked" => chains'[c].state = "revoked"

LEMMA ChainLasts ==
  ASSUME IInv, [Next]_vars, NEW c \in Chains, chains[c].state # "absent"
  PROVE  /\ chains'[c].state # "absent" /\ chains'[c].to = chains[c].to
         /\ chains[c].state = "revoked" => chains'[c].state = "revoked"
<1> SUFFICES ASSUME chains'[c] # chains[c]
             PROVE  /\ chains'[c].state # "absent" /\ chains'[c].to = chains[c].to
                    /\ chains[c].state # "revoked"
  OBVIOUS
<1>0. chains \in [Chains -> ChainRow]
  BY DEF IInv, Typed
<1>1. PICK r \in Requests : ChainWrites(r)
  BY Reading
<1> DEFINE q == requests[r]
<1>2. CASE ImportChainCommit(r)
  <2>1. ~Respond(r, "exists")
    BY DEF Respond
  <2>2. chains[q.target].state = "absent" /\ chains' = [chains EXCEPT ![q.target] = q.row]
    BY <1>2, <2>1 DEF ImportChainCommit, ChainTaken
  <2> HIDE DEF q
  <2> QED BY <1>0, <2>2
<1>3. CASE TransitionCommit(r)
  <2>1. ~Respond(r, "changed concurrently")
    BY DEF Respond
  <2>2. /\ q.target \in Chains /\ chains[q.target] \in ChainRow
        /\ chains[q.target] = q.row /\ q.to \in {"validated", "deprecated", "revoked"}
        /\ <<chains[q.target].state, q.to>> \in Forward
        /\ chains' = [chains EXCEPT ![q.target] = [q.row EXCEPT !.state = q.to]]
    BY <1>3, <2>1, TransitionWrites
  <2> HIDE DEF q
  <2>3. q.target = c /\ chains'[c] = [chains[c] EXCEPT !.state = q.to]
    BY <1>0, <2>2
  <2>4. chains'[c].state = q.to /\ chains'[c].to = chains[c].to
    BY <1>0, <2>3 DEF ChainRow
  <2>5. chains[c].state # "revoked"
    BY <2>2, <2>3 DEF Forward
  <2> QED BY <2>2, <2>4, <2>5
<1> QED BY <1>1, <1>2, <1>3 DEF ChainWrites

LEMMA TrustStep ==
  ASSUME IInv, OutputTyped, [Next]_vars
  PROVE  IInv' /\ OutputTyped' /\ Lasting
<1>1. IInv'
  BY StepSound
<1>2. OutputTyped'
  BY OutputStep
<1>3. \A a \in Anchors : anchors[a].revokedAt # Never => anchors'[a].revokedAt # Never
  BY Reading, AnchorEffect
<1> QED BY <1>1, <1>2, <1>3, ChainLasts DEF Lasting

LEMMA ElsewhereStep ==
  ASSUME IInv, Elsewhere
  PROVE  IInv' /\ OutputTyped' /\ Lasting
<1>1. IInv'
  BY DEF Elsewhere, IInv, Typed, RowsSound, RevokedFiltered, RequestsSound, RequestSound
<1>2. OutputTyped'
  BY DEF Elsewhere, OutputTyped
<1>3. Lasting
  BY DEF Elsewhere, Lasting
<1> QED BY <1>1, <1>2, <1>3

(* Every step is one of TrustMaterial or leaves its tables alone.            *)
LEMMA TrustOrElsewhere == [FNext]_allVars => [Next]_vars \/ Elsewhere
<1> SUFFICES ASSUME [FNext]_allVars PROVE [Next]_vars \/ Elsewhere
  OBVIOUS
<1>1. CASE \/ Tick \/ Crash \/ UNCHANGED allVars
           \/ \E r \in Requests : Receive(r) \/ Handle(r) \/ StoreFails(r)
  BY <1>1 DEF Next, allVars
<1>2. ASSUME NEW f \in Freezers, FreezeStep(f)
      PROVE  Elsewhere
  BY <1>2 DEF FreezeStep, FreezeAnchors, FindCandidates, FreezeChains, FreezeServices,
     FreezeCommit, FreezeFails, Put
<1> QED BY <1>1, <1>2 DEF FNext, Present, Die

LEMMA WorldStep ==
  ASSUME IInv, OutputTyped, [FNext]_allVars
  PROVE  IInv' /\ OutputTyped' /\ Lasting
BY TrustOrElsewhere, TrustStep, ElsewhereStep

(* What has been read keeps its meaning.                                     *)
LEMMA SetsLast ==
  ASSUME Lasting
  PROVE  /\ StoredChains \subseteq StoredChains'
         /\ RevokedAnchors \subseteq RevokedAnchors'
         /\ RevokedChains \subseteq RevokedChains'
BY DEF Lasting, StoredChains, RevokedAnchors, RevokedChains

LEMMA InputLasts ==
  ASSUME Lasting, NEW i, InputSound(i)
  PROVE  InputSound(i)'
<1>1. i.known \subseteq StoredChains /\ i.page \subseteq i.known
  BY DEF InputSound
<1>2. \A c \in i.known : chains'[c].to = chains[c].to
  BY <1>1 DEF Lasting, StoredChains
<1>3. PageSound(i)'
  BY <1>1, <1>2 DEF InputSound, PageSound
<1> QED BY <1>3, SetsLast DEF InputSound

LEMMA FreezeLasts ==
  ASSUME Lasting, NEW z, FreezeSound(z)
  PROVE  FreezeSound(z)'
BY InputLasts, SetsLast DEF FreezeSound
-----------------------------------------------------------------------------
LEMMA BlankSound == Blank \in Frozen /\ InputSound(Blank)
<1>1. Blank \in Frozen
  BY DEF Blank, Frozen
<1>2. /\ Blank.known = {} /\ Blank.page = {} /\ Blank.before = {}
      /\ Blank.revoked = {} /\ Blank.dead = {}
  BY DEF Blank
<1> QED BY <1>1, <1>2 DEF InputSound, PageSound

LEMMA EndedSound ==
  ASSUME NEW outcome \in {"none", "created", "exists", "anchor missing", "unknown candidate",
                          "candidate missing", "internal error"}
  PROVE  Ended(outcome) \in Freeze /\ FreezeSound(Ended(outcome))
BY BlankSound DEF Ended, Freeze, FreezeSound

(* A step that puts one Create into a sound position.                        *)
LEMMA PutSound ==
  ASSUME FInv, NEW f \in Freezers, NEW z \in Freeze, FreezeSound(z), Put(f, z)
  PROVE  FreezeTyped' /\ FreezesSound'
<1>1. /\ freezes' \in [Freezers -> Freeze] /\ freezes'[f] = z
      /\ \A g \in Freezers \ {f} : freezes'[g] = freezes[g]
      /\ presents' = presents /\ scenarios' = scenarios /\ Elsewhere
  BY DEF Put, FInv, FreezeTyped
<1>2. FreezeTyped'
  BY <1>1 DEF FInv, FreezeTyped
<1>3. Lasting
  BY <1>1, ElsewhereStep DEF FInv
<1>4. ASSUME NEW y, FreezeSound(y)
      PROVE  FreezeSound(y)'
  BY <1>3, <1>4, FreezeLasts
<1>5. ASSUME NEW i, InputSound(i)
      PROVE  InputSound(i)'
  BY <1>3, <1>5, InputLasts
<1>6. \A g \in Freezers : FreezeSound(freezes[g])'
  BY <1>1, <1>4 DEF FInv, FreezesSound, FreezeSound, InputSound, PageSound
<1>7. \A s \in scenarios : (InputSound(s) /\ s.old \in Anchors /\ s.new \in Anchors)'
  BY <1>1, <1>5 DEF FInv, FreezesSound
<1> QED BY <1>1, <1>2, <1>6, <1>7 DEF FreezesSound

LEMMA PutEnded ==
  ASSUME FInv, NEW f \in Freezers,
         NEW outcome \in {"none", "created", "exists", "anchor missing", "unknown candidate",
                          "candidate missing", "internal error"},
         Put(f, Ended(outcome))
  PROVE  FreezeTyped' /\ FreezesSound'
BY EndedSound, PutSound

LEMMA FreezeAnchorsSound ==
  ASSUME FInv, NEW f \in Freezers, NEW old \in Anchors, NEW new \in Anchors,
         NEW wanted \in SUBSET Chains, FreezeAnchors(f, old, new, wanted)
  PROVE  FreezeTyped' /\ FreezesSound'
<1> DEFINE i == [Blank EXCEPT !.old = old, !.new = new, !.wanted = wanted,
                              !.revoked = RevokedAnchors \cap {old, new},
                              !.before = RevokedAnchors \cup RevokedChains]
           z == [pc |-> "candidates", outcome |-> "none", input |-> i]
<1>1. CASE Put(f, Ended("anchor missing"))
  BY <1>1, PutEnded
<1>2. CASE Put(f, z)
  <2>1. RevokedAnchors \subseteq Anchors /\ RevokedChains \subseteq Chains
    BY DEF RevokedAnchors, RevokedChains
  <2>2. /\ i.old = old /\ i.new = new /\ i.known = {} /\ i.page = {} /\ i.dead = {}
        /\ i.revoked = RevokedAnchors \cap {old, new}
        /\ i.before = RevokedAnchors \cup RevokedChains
    BY DEF Blank
  <2>3. i \in Frozen
    BY <2>1, BlankSound DEF Frozen
  <2> HIDE DEF i
  <2>4. i.before \cap {old, new} \subseteq i.revoked
    BY <2>1, <2>2, FreezeAssumption
  <2>5. InputSound(i)
    BY <2>2, <2>4 DEF InputSound, PageSound
  <2>6. z \in Freeze
    BY <2>3 DEF Freeze
  <2>7. FreezeSound(z)
    BY <2>2, <2>5 DEF FreezeSound
  <2> QED BY <1>2, <2>6, <2>7, PutSound
<1> QED BY <1>1, <1>2 DEF FreezeAnchors

LEMMA FindCandidatesSound ==
  ASSUME FInv, NEW f \in Freezers, FindCandidates(f)
  PROVE  FreezeTyped' /\ FreezesSound'
<1> DEFINE y == freezes[f]
           z == [y EXCEPT !.pc = "chains"]
<1>1. CASE Put(f, Ended("unknown candidate"))
  BY <1>1, PutEnded
<1>2. CASE y.input.wanted \subseteq StoredChains /\ Put(f, z)
  <2>1. y \in Freeze /\ FreezeSound(y) /\ y.pc = "candidates"
    BY DEF FInv, FreezeTyped, FreezesSound, FindCandidates
  <2> HIDE DEF y
  <2>2. z \in Freeze /\ z.input = y.input /\ z.outcome = y.outcome /\ z.pc = "chains"
    BY <2>1 DEF Freeze
  <2> HIDE DEF z
  <2>3. FreezeSound(z)
    BY <1>2, <2>1, <2>2 DEF FreezeSound
  <2> QED BY <1>2, <2>2, <2>3, PutSound
<1> QED BY <1>1, <1>2 DEF FindCandidates

LEMMA FreezeChainsSound ==
  ASSUME FInv, NEW f \in Freezers, FreezeChains(f)
  PROVE  FreezeTyped' /\ FreezesSound'
<1> DEFINE y == freezes[f]
<1>0. y \in Freeze /\ FreezeSound(y) /\ y.pc = "chains"
  BY DEF FInv, FreezeTyped, FreezesSound, FreezeChains
<1> DEFINE i(page) == [y.input EXCEPT !.page = page, !.dead = page \cap RevokedChains,
                                      !.known = StoredChains]
           z(page) == [y EXCEPT !.pc = "services", !.input = i(page)]
<1>1. PICK page \in FirstPage : Put(f, z(page))
  BY DEF FreezeChains
<1> HIDE DEF y
<1>2. page \subseteq StoredChains /\ StoredChains \subseteq Chains /\ RevokedChains \subseteq StoredChains
  BY DEF FirstPage, StoredChains, RevokedChains
<1>3. \/ page = StoredChains
      \/ /\ Cardinality(StoredChains) > PageSize
         /\ \A p \in page, c \in StoredChains \ page : chains[p].to <= chains[c].to
  BY DEF FirstPage
<1>4. y.input \in Frozen
  BY <1>0 DEF Freeze
<1>5. /\ i(page) \in Frozen
      /\ i(page).page = page /\ i(page).known = StoredChains
      /\ i(page).dead = page \cap RevokedChains
      /\ i(page).old = y.input.old /\ i(page).new = y.input.new
      /\ i(page).wanted = y.input.wanted
      /\ i(page).before = y.input.before /\ i(page).revoked = y.input.revoked
  BY <1>2, <1>4 DEF Frozen
<1>6. z(page) \in Freeze
  BY <1>0, <1>5 DEF Freeze
<1>7. z(page).pc = "services" /\ z(page).input = i(page) /\ z(page).outcome = y.outcome
  BY <1>0 DEF Freeze
<1> HIDE DEF i, z
<1>8. /\ y.input.before \subseteq RevokedAnchors \cup RevokedChains
      /\ y.input.before \cap {y.input.old, y.input.new} \subseteq y.input.revoked
      /\ y.input.revoked \subseteq RevokedAnchors
      /\ y.input.wanted \subseteq StoredChains
      /\ y.input.old \in Anchors /\ y.input.new \in Anchors /\ y.outcome = "none"
  BY <1>0 DEF FreezeSound, InputSound
<1>9. y.input.before \cap page \subseteq page \cap RevokedChains
  BY <1>2, <1>8, FreezeAssumption DEF RevokedAnchors
<1>10. PageSound(i(page))
  BY <1>3, <1>5 DEF PageSound
<1>11. InputSound(i(page))
  BY <1>2, <1>5, <1>8, <1>9, <1>10 DEF InputSound
<1>12. FreezeSound(z(page))
  BY <1>5, <1>7, <1>8, <1>11 DEF FreezeSound
<1> QED BY <1>1, <1>6, <1>12, PutSound

LEMMA FreezeServicesSound ==
  ASSUME FInv, NEW f \in Freezers, FreezeServices(f)
  PROVE  FreezeTyped' /\ FreezesSound'
<1> DEFINE y == freezes[f]
           i == [y.input EXCEPT !.presents = presents]
           z == [y EXCEPT !.pc = "commit", !.input = i]
<1>1. CASE Put(f, Ended("candidate missing"))
  BY <1>1, PutEnded
<1>2. CASE Put(f, z)
  <2>1. y \in Freeze /\ FreezeSound(y) /\ y.pc = "services"
    BY DEF FInv, FreezeTyped, FreezesSound, FreezeServices
  <2>2. presents \in [Services -> Chains \cup {NoChain}]
    BY DEF FInv, FreezeTyped
  <2> HIDE DEF y
  <2>3. y.input \in Frozen
    BY <2>1 DEF Freeze
  <2>4. /\ i \in Frozen
        /\ i.page = y.input.page /\ i.known = y.input.known /\ i.dead = y.input.dead
        /\ i.old = y.input.old /\ i.new = y.input.new
        /\ i.before = y.input.before /\ i.revoked = y.input.revoked
    BY <2>2, <2>3 DEF Frozen
  <2>5. z \in Freeze
    BY <2>1, <2>4 DEF Freeze
  <2>6. z.input = i /\ z.outcome = y.outcome /\ z.pc = "commit"
    BY <2>1 DEF Freeze
  <2> HIDE DEF i, z
  <2>7. InputSound(i)
    BY <2>1, <2>4 DEF FreezeSound, InputSound, PageSound
  <2>8. FreezeSound(z)
    BY <2>1, <2>4, <2>6, <2>7 DEF FreezeSound
  <2> QED BY <1>2, <2>5, <2>8, PutSound
<1> QED BY <1>1, <1>2 DEF FreezeServices

(* A step that changes neither what is being created nor what was stored     *)
(* keeps all of it sound.                                                    *)
LEMMA FreezesLast ==
  ASSUME FInv, Lasting, freezes' = freezes, scenarios' = scenarios
  PROVE  FreezesSound'
<1>1. ASSUME NEW f \in Freezers
      PROVE  FreezeSound(freezes[f])'
  <2>1. FreezeSound(freezes[f])
    BY DEF FInv, FreezesSound
  <2>2. ASSUME NEW y, y = freezes[f]
        PROVE  FreezeSound(y)'
    BY <2>1, <2>2, FreezeLasts
  <2> QED BY <2>2 DEF FreezeSound, InputSound, PageSound
<1>2. ASSUME NEW s \in scenarios
      PROVE  InputSound(s)'
  BY <1>2, InputLasts DEF FInv, FreezesSound
<1>3. \A s \in scenarios : s.old \in Anchors /\ s.new \in Anchors
  BY DEF FInv, FreezesSound
<1> QED BY <1>1, <1>2, <1>3 DEF FreezesSound

LEMMA FreezeCommitSound ==
  ASSUME FInv, NEW f \in Freezers, FreezeCommit(f)
  PROVE  FreezeTyped' /\ FreezesSound'
<1> DEFINE y == freezes[f]
<1>1. CASE Put(f, Ended("exists"))
  BY <1>1, PutEnded
<1>2. CASE /\ scenarios' = scenarios \cup {y.input}
           /\ freezes' = [freezes EXCEPT ![f] = Ended("created")]
           /\ Elsewhere /\ presents' = presents
  <2>1. y \in Freeze /\ FreezeSound(y) /\ y.pc = "commit"
    BY DEF FInv, FreezeTyped, FreezesSound, FreezeCommit
  <2>2. y.input \in Frozen
    BY <2>1 DEF Freeze
  <2>3. Lasting
    BY <1>2, ElsewhereStep DEF FInv
  <2>4. /\ freezes' \in [Freezers -> Freeze] /\ freezes'[f] = Ended("created")
        /\ \A g \in Freezers \ {f} : freezes'[g] = freezes[g]
    BY <1>2, EndedSound DEF FInv, FreezeTyped
  <2>5. FreezeTyped'
    BY <1>2, <2>2, <2>4 DEF FInv, FreezeTyped
  <2>6. ASSUME NEW x, FreezeSound(x)
        PROVE  FreezeSound(x)'
    BY <2>3, <2>6, FreezeLasts
  <2>7. ASSUME NEW i, InputSound(i)
        PROVE  InputSound(i)'
    BY <2>3, <2>7, InputLasts
  <2>8. FreezeSound(Ended("created"))'
    BY <2>6, EndedSound
  <2>9. \A g \in Freezers : FreezeSound(freezes[g])'
    BY <2>4, <2>6, <2>8 DEF FInv, FreezesSound, FreezeSound, InputSound, PageSound
  <2>10. InputSound(y.input) /\ y.input.old \in Anchors /\ y.input.new \in Anchors
    BY <2>1 DEF FreezeSound
  <2>11. \A s \in scenarios \cup {y.input} : InputSound(s) /\ s.old \in Anchors /\ s.new \in Anchors
    BY <2>10 DEF FInv, FreezesSound
  <2>12. \A s \in scenarios' : InputSound(s) /\ s.old \in Anchors /\ s.new \in Anchors
    BY <1>2, <2>11
  <2>13. \A s \in scenarios' : InputSound(s)' /\ s.old \in Anchors /\ s.new \in Anchors
    BY <2>7, <2>12
  <2> QED BY <2>5, <2>9, <2>13 DEF FreezesSound
<1> QED BY <1>1, <1>2 DEF FreezeCommit

LEMMA DieSound ==
  ASSUME FInv, Die, Lasting
  PROVE  FreezeTyped' /\ FreezesSound'
<1>1. freezes' = [f \in Freezers |-> Ended("none")] /\ presents' = presents /\ scenarios' = scenarios
  BY DEF Die
<1>2. FreezeTyped'
  BY <1>1, EndedSound DEF FInv, FreezeTyped
<1>3. ASSUME NEW i, InputSound(i)
      PROVE  InputSound(i)'
  BY <1>3, InputLasts
<1>4. FreezeSound(Ended("none"))'
  BY EndedSound, FreezeLasts
<1>5. \A f \in Freezers : freezes'[f] = Ended("none")
  BY <1>1
<1>6. \A f \in Freezers : FreezeSound(freezes[f])'
  BY <1>4, <1>5 DEF FreezeSound, InputSound, PageSound
<1>7. \A s \in scenarios' : InputSound(s)' /\ s.old \in Anchors /\ s.new \in Anchors
  BY <1>1, <1>3 DEF FInv, FreezesSound
<1> QED BY <1>2, <1>6, <1>7 DEF FreezesSound

LEMMA FreezeStepSound == FInv /\ [FNext]_allVars => FInv'
<1> SUFFICES ASSUME FInv, [FNext]_allVars PROVE FInv'
  OBVIOUS
<1>1. IInv' /\ OutputTyped' /\ Lasting
  BY WorldStep DEF FInv
<1>2. CASE UNCHANGED freezeVars
  <2>1. FreezeTyped'
    BY <1>2 DEF freezeVars, FInv, FreezeTyped
  <2>2. FreezesSound'
    BY <1>1, <1>2, FreezesLast DEF freezeVars
  <2> QED BY <1>1, <2>1, <2>2 DEF FInv
<1>3. ASSUME NEW v \in Services, NEW c \in Chains, Present(v, c)
      PROVE  FInv'
  <2>1. FreezeTyped'
    BY <1>3 DEF Present, FInv, FreezeTyped
  <2>2. FreezesSound'
    BY <1>1, <1>3, FreezesLast DEF Present
  <2> QED BY <1>1, <2>1, <2>2 DEF FInv
<1>4. ASSUME NEW f \in Freezers, FreezeStep(f)
      PROVE  FInv'
  <2>1. CASE FreezeFails(f)
    BY <1>1, <2>1, PutEnded DEF FreezeFails, FInv
  <2>2. CASE ~FreezeFails(f)
    <3>1. FreezeTyped' /\ FreezesSound'
      BY <1>4, <2>2, FreezeAnchorsSound, FindCandidatesSound, FreezeChainsSound,
         FreezeServicesSound, FreezeCommitSound DEF FreezeStep
    <3> QED BY <1>1, <3>1 DEF FInv
  <2> QED BY <2>1, <2>2
<1>5. CASE Die
  BY <1>1, <1>5, DieSound DEF FInv
<1>6. CASE UNCHANGED allVars
  <2>1. UNCHANGED freezeVars
    BY <1>6 DEF allVars
  <2> QED BY <1>2, <2>1
<1> QED BY <1>2, <1>3, <1>4, <1>5, <1>6 DEF FNext

LEMMA FreezeInit == FInit => FInv
<1> SUFFICES ASSUME FInit PROVE FInv
  OBVIOUS
<1>1. IInv
  BY InitSound DEF FInit
<1>2. OutputTyped
  BY DEF FInit, Init, OutputTyped
<1>3. FreezeTyped
  BY EndedSound DEF FInit, FreezeTyped
<1>4. \A f \in Freezers : FreezeSound(freezes[f])
  BY EndedSound DEF FInit
<1>5. FreezesSound
  BY <1>4 DEF FInit, FreezesSound
<1> QED BY <1>1, <1>2, <1>3, <1>5 DEF FInv

(* The inductive invariant of the composition: what a Create has read is     *)
(* bounded by what is there now, and the tables are as in TrustMaterial.     *)
THEOREM FreezeInvariant == FSpec => []FInv
BY FreezeInit, FreezeStepSound, PTL DEF FSpec

(* Every reachable state is well typed.                                      *)
THEOREM FreezeTypeCorrect == FSpec => []FTypeOK
<1>1. FInv => FTypeOK
  BY DEF FInv, IInv, Typed, OutputTyped, TypeOK, FreezeTyped, FTypeOK
<1> QED BY <1>1, FreezeInvariant, PTL

(* A frozen service is without its chain only if the chain is younger than   *)
(* the list that was read, or was cut off as one of those valid the longest. *)
THEOREM MissingAlwaysExplained == FSpec => []MissingChainsExplained
<1>1. FInv => MissingChainsExplained
  BY DEF FInv, FreezesSound, InputSound, PageSound, MissingChainsExplained
<1> QED BY <1>1, FreezeInvariant, PTL

(* No revocation from before the request is missing from what is frozen, and *)
(* nothing is frozen as revoked that is not, for any number of requests.     *)
THEOREM RevocationsAlwaysFrozen == FSpec => []RevocationsFrozen
<1>1. FInv => RevocationsFrozen
  <2> SUFFICES ASSUME FInv, NEW s \in scenarios
               PROVE  /\ s.before \cap ({s.old, s.new} \cup s.page) \subseteq s.revoked \cup s.dead
                      /\ \A a \in s.revoked : anchors[a].revokedAt # Never
                      /\ \A c \in s.dead : chains[c].state = "revoked"
    BY DEF RevocationsFrozen
  <2>1. InputSound(s)
    BY DEF FInv, FreezesSound
  <2> QED BY <2>1 DEF InputSound, RevokedAnchors, RevokedChains
<1> QED BY <1>1, FreezeInvariant, PTL

(* A candidate that exists is refused as missing only beyond a full page.    *)
THEOREM RefusedAlwaysBeyondPage == FSpec => RefusedBeyondPageOnly
<1>1. FInv /\ [FNext]_allVars =>
        [\A f \in Freezers :
           freezes[f].pc = "services" /\ freezes'[f].outcome = "candidate missing" =>
             Cardinality(freezes[f].input.known) > PageSize]_allVars
  <2> SUFFICES ASSUME FInv, [FNext]_allVars, NEW f \in Freezers, freezes[f].pc = "services",
                      freezes'[f].outcome = "candidate missing"
               PROVE  Cardinality(freezes[f].input.known) > PageSize
    OBVIOUS
  <2> DEFINE y == freezes[f]
  <2>0. /\ freezes \in [Freezers -> Freeze]
        /\ y.outcome = "none" /\ y.input.wanted \subseteq y.input.known /\ InputSound(y.input)
    BY DEF FInv, FreezeTyped, FreezesSound, FreezeSound
  <2>1. freezes'[f] # freezes[f]
    BY <2>0
  <2>2. CASE ~(y.input.wanted \subseteq y.input.page)
    BY <2>0, <2>2 DEF InputSound, PageSound
  <2>3. CASE y.input.wanted \subseteq y.input.page
    <3>1. ASSUME NEW g \in Freezers, NEW z, Put(g, z), g = f => z.outcome # "candidate missing"
          PROVE  FALSE
      BY <2>0, <2>1, <3>1 DEF Put
    <3>2. ASSUME NEW g \in Freezers, FreezeStep(g)
          PROVE  FALSE
      <4>1. ASSUME NEW outcome, outcome # "candidate missing"
            PROVE  Ended(outcome).outcome # "candidate missing"
        BY <4>1 DEF Ended
      <4>2. ASSUME NEW old, NEW new, NEW wanted, FreezeAnchors(g, old, new, wanted)
            PROVE  FALSE
        BY <4>2, <4>1, <3>1 DEF FreezeAnchors
      <4>3. CASE FindCandidates(g) \/ FreezeChains(g)
        <5>1. g # f
          BY <4>3 DEF FindCandidates, FreezeChains
        <5>2. PICK z : Put(g, z)
          BY <4>3 DEF FindCandidates, FreezeChains
        <5> QED BY <5>1, <5>2, <3>1
      <4>4. CASE FreezeServices(g)
        <5>1. CASE g # f
          <6>1. PICK z : Put(g, z)
            BY <4>4 DEF FreezeServices
          <6> QED BY <5>1, <6>1, <3>1
        <5>2. CASE g = f
          <6> DEFINE z == [y EXCEPT !.pc = "commit", !.input = [y.input EXCEPT !.presents = presents]]
          <6>1. y \in Freeze /\ y.input \in Frozen
            BY <2>0 DEF Freeze
          <6>2. Put(f, z)
            <7>1. [y.input EXCEPT !.presents = presents].wanted = y.input.wanted
                  /\ [y.input EXCEPT !.presents = presents].page = y.input.page
              BY <6>1 DEF Frozen
            <7> QED BY <2>3, <4>4, <5>2, <7>1 DEF FreezeServices
          <6>3. z.outcome = "none"
            BY <2>0, <6>1 DEF Freeze
          <6> HIDE DEF z
          <6> QED BY <3>1, <6>2, <6>3
        <5> QED BY <5>1, <5>2
      <4>5. CASE FreezeCommit(g)
        <5>1. g # f
          BY <4>5 DEF FreezeCommit
        <5> QED BY <2>0, <2>1, <4>5, <5>1 DEF FreezeCommit, Put
      <4>6. CASE FreezeFails(g)
        BY <4>6, <4>1, <3>1 DEF FreezeFails
      <4> QED BY <3>2, <4>2, <4>3, <4>4, <4>5, <4>6 DEF FreezeStep
    <3>3. CASE Die
      BY <3>3 DEF Die, Ended
    <3>4. CASE UNCHANGED freezes
      BY <2>1, <3>4
    <3> QED BY <3>2, <3>3, <3>4 DEF FNext, Present, allVars, freezeVars
  <2> QED BY <2>2, <2>3
<1> QED BY <1>1, FreezeInvariant, PTL DEF FSpec, RefusedBeyondPageOnly
-----------------------------------------------------------------------------
(* What TrustMaterial promises, it promises in the composition.              *)

tables == <<anchors, chains, now, requests>>

(* To the certificate tables, the composition is TrustMaterial: creating a   *)
(* scenario and registering a service only read them.                        *)
THEOREM FreezeOnlyReads == FSpec => Init /\ [][Next]_tables
<1>1. FInit => Init
  BY DEF FInit
<1>2. [FNext]_allVars => [Next]_tables
  BY TrustOrElsewhere DEF Elsewhere, tables, vars
<1> QED BY <1>1, <1>2, PTL DEF FSpec

(* The list's filter knows exactly the revoked anchors as revoked, while     *)
(* scenarios are created.                                                    *)
THEOREM FilteredWhileFreezing == FSpec => []RevokedFiltered
<1>1. FInv => RevokedFiltered
  BY DEF FInv, IInv
<1> QED BY <1>1, FreezeInvariant, PTL

(* What is frozen comes from chains whose stored windows were verified.      *)
THEOREM WindowsWhileFreezing == FSpec => []ValidatedInWindow
<1>1. FInit => WindowsSound
  BY WindowsInit DEF FInit
<1>2. FInv /\ WindowsSound /\ [FNext]_allVars => WindowsSound'
  <2> SUFFICES ASSUME FInv, WindowsSound, [FNext]_allVars PROVE WindowsSound'
    OBVIOUS
  <2>1. CASE [Next]_vars
    BY <2>1, WindowsStep DEF FInv
  <2>2. CASE Elsewhere
    BY <2>2 DEF Elsewhere, WindowsSound, Verified
  <2> QED BY <2>1, <2>2, TrustOrElsewhere
<1>3. WindowsSound => ValidatedInWindow
  BY DEF WindowsSound, Verified, ValidatedInWindow
<1> QED BY <1>1, <1>2, <1>3, FreezeInvariant, PTL DEF FSpec

(* A revocation stays final while scenarios are created.                     *)
THEOREM RevocationFinalWhileFreezing == FSpec => RevocationFinal
<1>1. FInv /\ [FNext]_allVars =>
        [/\ \A a \in Anchors : anchors[a].revokedAt # Never => anchors'[a].revokedAt # Never
         /\ \A c \in Chains : chains[c].state = "revoked" => chains'[c].state = "revoked"]_vars
  BY WorldStep DEF FInv, Lasting
<1> QED BY <1>1, FreezeInvariant, PTL DEF FSpec, RevocationFinal

(* And every change of a chain still goes forward, with its audit entry in   *)
(* the same step.                                                            *)
THEOREM ChainMovesAuditedWhileFreezing == FSpec => ChainMovesAudited
<1>1. FInv /\ [FNext]_allVars =>
        [\A c \in Chains :
           chains'[c] # chains[c] =>
             /\ <<chains[c].state, chains'[c].state>> \in Forward
             /\ \E e \in audit' : /\ e.target = c
                                  /\ e.before = chains[c] /\ e.after = chains'[c]]_vars
  <2> SUFFICES ASSUME FInv, [FNext]_allVars, NEW c \in Chains, chains'[c] # chains[c]
               PROVE  /\ <<chains[c].state, chains'[c].state>> \in Forward
                      /\ \E e \in audit' : /\ e.target = c
                                           /\ e.before = chains[c] /\ e.after = chains'[c]
    OBVIOUS
  <2>1. [Next]_vars
    BY TrustOrElsewhere DEF Elsewhere
  <2>2. PICK r \in Requests : ChainWrites(r)
    BY <2>1, Reading
  <2> QED BY <2>2, ChainEffect DEF FInv
<1> QED BY <1>1, FreezeInvariant, PTL DEF FSpec, ChainMovesAudited
=============================================================================
