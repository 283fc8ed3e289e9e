--------------------------- MODULE ScenarioFreeze ---------------------------
(* Creating a scenario (service/rollover_scenario_service.go, Create) while  *)
(* the trust material of TrustMaterial changes.  The anchors, the candidate  *)
(* chains, one page of all chains and all services are read by four queries  *)
(* outside any transaction; what they returned is frozen and stored.         *)
(*                                                                           *)
(* Of a frozen row the model keeps whether it is revoked and, of a service,  *)
(* the chain it presents; edges are the subject of DependentServices.  The   *)
(* life of the stored scenario is the subject of ScenarioLifecycle.          *)
EXTENDS TrustMaterial

CONSTANTS Services,   \* service codes
          Freezers,   \* goroutines that may create scenarios at once
          PageSize,   \* chains on a page: 200
          NoChain

ASSUME FreezeAssumption ==
  PageSize \in Nat \ {0} /\ NoChain \notin Chains /\ Anchors \cap Chains = {}

VARIABLES presents,   \* the dependent_services table: the chain of each service
          freezes,    \* what each Create holds between two queries
          scenarios   \* the frozen inputs that were stored

freezeVars == <<presents, freezes, scenarios>>

allVars == <<vars, freezeVars>>

(* "dead" are the chains of the page that were frozen as revoked.  History:  *)
(* "known" are the chains stored when the page was read, "before" what was   *)
(* already revoked when the request came.                                    *)
Frozen == [old      : Anchors \cup {"none"},
           new      : Anchors \cup {"none"},
           wanted   : SUBSET Chains,
           revoked  : SUBSET Anchors,
           page     : SUBSET Chains,
           dead     : SUBSET Chains,
           presents : [Services -> Chains \cup {NoChain}],
           known    : SUBSET Chains,
           before   : SUBSET (Anchors \cup Chains)]

Blank == [old |-> "none", new |-> "none", wanted |-> {}, revoked |-> {}, page |-> {},
          dead |-> {}, presents |-> [v \in Services |-> NoChain], known |-> {}, before |-> {}]

(* The next thing a Create does, and how the last one ended.                 *)
Freeze == [pc      : {"idle", "candidates", "chains", "services", "commit"},
           input   : Frozen,
           outcome : {"none", "created", "exists", "anchor missing", "unknown candidate",
                      "candidate missing", "internal error"}]

Ended(outcome) == [pc |-> "idle", input |-> Blank, outcome |-> outcome]

StoredChains == {c \in Chains : chains[c].state # "absent"}

RevokedAnchors == {a \in Anchors : anchors[a].revokedAt # Never}

(* Mutant: a chain that is not in use counts as revoked.                     *)
WithdrawnChains == {c \in Chains : chains[c].state \notin {"absent", "validated"}}

RevokedChains == {c \in Chains : chains[c].state = "revoked"}

FInit ==
  /\ Init
  /\ presents = [v \in Services |-> NoChain]
  /\ freezes = [f \in Freezers |-> Ended("none")]
  /\ scenarios = {}
-----------------------------------------------------------------------------
(* What a step of another component leaves of TrustMaterial.                 *)
Elsewhere == UNCHANGED <<anchors, chains, now, requests>> /\ audit' = {} /\ reply' = {}

(* A service is created or updated; the chain it names is looked up first,   *)
(* and no chain is ever removed.                                             *)
Present(v, c) ==
  /\ chains[c].state # "absent"
  /\ presents' = [presents EXCEPT ![v] = c]
  /\ Elsewhere /\ UNCHANGED <<freezes, scenarios>>

Put(f, freeze) ==
  /\ freezes' = [freezes EXCEPT ![f] = freeze]
  /\ Elsewhere /\ UNCHANGED <<presents, scenarios>>

(* The request, which names at least one candidate, and the query for its    *)
(* two anchors.                                                              *)
FreezeAnchors(f, old, new, wanted) ==
  /\ freezes[f].pc = "idle" /\ Admitted("scenario.write")
  /\ old # new /\ wanted # {}
  /\ \/ /\ \E a \in {old, new} : anchors[a].cert = NoCert
        /\ Put(f, Ended("anchor missing"))
     \/ /\ \A a \in {old, new} : anchors[a].cert # NoCert
        /\ Put(f, [pc |-> "candidates", outcome |-> "none",
                   input |-> [Blank EXCEPT !.old = old, !.new = new, !.wanted = wanted,
                                           !.revoked = RevokedAnchors \cap {old, new},
                                           !.before = RevokedAnchors \cup RevokedChains]])

FindCandidates(f) ==
  /\ freezes[f].pc = "candidates"
  /\ \/ ~(freezes[f].input.wanted \subseteq StoredChains) /\ Put(f, Ended("unknown candidate"))
     \/ /\ freezes[f].input.wanted \subseteq StoredChains
        /\ Put(f, [freezes[f] EXCEPT !.pc = "chains"])

(* Mutant: pages are counted from zero, so this is the second one.           *)
SecondPage ==
  IF Cardinality(StoredChains) <= PageSize THEN {{}}
  ELSE {page \in SUBSET StoredChains :
          /\ Cardinality(StoredChains \ page) = PageSize
          /\ \A p \in page, c \in StoredChains \ page : chains[c].to <= chains[p].to}

(* Mutant: the page is filtered by state.                                    *)
ValidatedPage ==
  IF Cardinality(StoredChains) <= PageSize THEN {{c \in StoredChains : chains[c].state = "validated"}}
  ELSE {page \in SUBSET StoredChains : Cardinality(page) = PageSize}

(* The first page of the list, by the end of validity.  Ties are decided by  *)
(* the id, here in any way.                                                  *)
FirstPage ==
  IF Cardinality(StoredChains) > PageSize
  THEN {page \in SUBSET StoredChains :
          /\ Cardinality(page) = PageSize
          /\ \A p \in page, c \in StoredChains \ page : chains[p].to <= chains[c].to}
  ELSE {StoredChains}

FreezeChains(f) ==
  /\ freezes[f].pc = "chains"
  /\ \E page \in FirstPage :
       Put(f, [freezes[f] EXCEPT !.pc = "services",
                                 !.input = [@ EXCEPT !.page = page, !.dead = page \cap RevokedChains,
                                                     !.known = StoredChains]])

(* The last query, then ValidateSnapshot.                                    *)
FreezeServices(f) ==
  LET input == [freezes[f].input EXCEPT !.presents = presents] IN
  /\ freezes[f].pc = "services"
  /\ \/ ~(input.wanted \subseteq input.page) /\ Put(f, Ended("candidate missing"))
     \/ /\ input.wanted \subseteq input.page
        /\ Put(f, [freezes[f] EXCEPT !.pc = "commit", !.input = input])

(* The unique indexes refuse a second scenario of the same frozen input, and *)
(* any second one while another has not been simulated.  Names and windows   *)
(* are not kept here, so a second one may be refused or stored.              *)
FreezeCommit(f) ==
  /\ freezes[f].pc = "commit"
  /\ \/ scenarios # {} /\ Put(f, Ended("exists"))
     \/ /\ scenarios' = scenarios \cup {freezes[f].input}
        /\ freezes' = [freezes EXCEPT ![f] = Ended("created")]
        /\ Elsewhere /\ UNCHANGED presents

(* A query or the transaction fails.                                         *)
FreezeFails(f) == freezes[f].pc # "idle" /\ Put(f, Ended("internal error"))

(* The process dies, with the goroutines of both kinds.                      *)
Die ==
  /\ freezes' = [f \in Freezers |-> Ended("none")]
  /\ \/ Crash
     \/ /\ \A r \in Requests : requests[r].pc = "idle"
        /\ \E f \in Freezers : freezes[f].pc # "idle"
        /\ Elsewhere
  /\ UNCHANGED <<presents, scenarios>>

FreezeStep(f) ==
  \/ \E old, new \in Anchors : \E wanted \in SUBSET Chains : FreezeAnchors(f, old, new, wanted)
  \/ FindCandidates(f) \/ FreezeChains(f) \/ FreezeServices(f) \/ FreezeCommit(f)
  \/ FreezeFails(f)

FNext ==
  \/ /\ \/ Tick
        \/ \E r \in Requests : Receive(r) \/ Handle(r) \/ StoreFails(r)
     /\ UNCHANGED freezeVars
  \/ \E v \in Services, c \in Chains : Present(v, c)
  \/ \E f \in Freezers : FreezeStep(f)
  \/ Die

FSpec == FInit /\ [][FNext]_allVars
-----------------------------------------------------------------------------
(* Type invariant.                                                           *)
FTypeOK ==
  /\ TypeOK
  /\ presents \in [Services -> Chains \cup {NoChain}]
  /\ freezes \in [Freezers -> Freeze]
  /\ scenarios \subseteq Frozen

(* A frozen service whose chain was not frozen, and which the simulation     *)
(* will therefore call unreachable, presents a chain that was stored after   *)
(* the chains were read, or one cut off because there were more than a page  *)
(* of chains; those that are cut off are valid the longest.                  *)
MissingChainsExplained ==
  \A s \in scenarios : \A v \in Services :
    LET c == s.presents[v] IN
    c \notin s.page \cup {NoChain} =>
      \/ c \notin s.known
      \/ Cardinality(s.known) > PageSize /\ \A p \in s.page : chains[p].to <= chains[c].to

(* A revocation made before a scenario was asked for is in its frozen input, *)
(* and nothing is frozen as revoked that is not.                             *)
RevocationsFrozen ==
  \A s \in scenarios :
    /\ s.before \cap ({s.old, s.new} \cup s.page) \subseteq s.revoked \cup s.dead
    /\ \A a \in s.revoked : anchors[a].revokedAt # Never
    /\ \A c \in s.dead : chains[c].state = "revoked"

(* Candidates that were found are only missing from the frozen chains when   *)
(* there is more than a page of chains.                                      *)
RefusedBeyondPageOnly ==
  [][\A f \in Freezers :
       freezes[f].pc = "services" /\ freezes'[f].outcome = "candidate missing" =>
         Cardinality(freezes[f].input.known) > PageSize]_allVars
=============================================================================
