------------------------------ MODULE Simulator ------------------------------
(* The rollover simulation over one frozen input (algorithm/simulator.go):   *)
(* the input is validated, then for each critical instant of the overlap     *)
(* window every active service is judged, first by its own certificate path, *)
(* then through its dependencies, and at the end the result is explained.    *)
(*                                                                           *)
(* Instants are integers; Minute is the minute Go adds around the window.    *)
(* Services are numbered, because dependencies are tried in the order of     *)
(* their ids.  Every id a service depends on is in the frozen input:         *)
(* DependentServices!EdgesResolve.  A chain need not be: the freeze reads    *)
(* one page of chains.                                                       *)
EXTENDS DependencyGraph, Integers, Sequences, FiniteSets, FiniteSetsExt

CONSTANTS Chains,     \* ids of the certificate chains
          Anchors,    \* ids of the trust anchors
          Subjects,   \* leaf subjects: the identity a chain proves
          Minute,     \* one minute in ticks
          Snapshots   \* the frozen inputs considered

ChainStates == {"imported", "validated", "deprecated", "revoked"}

Chain == [anchor : Anchors, subject : Subjects, from : Int, to : Int,
          state : ChainStates, valid : BOOLEAN]

Service == [chain : Chains, trust : SUBSET Anchors, deps : SUBSET Services,
            active : BOOLEAN]

(* "page" holds the chains that the freeze read.                             *)
Snapshot == [old : Anchors, new : Anchors, start : Int, end : Int, at : Int,
             candidates : SUBSET Chains, page : SUBSET Chains,
             chains : [Chains -> Chain], services : [Services -> Service]]

ASSUME NumberedServices == Services \subseteq Nat /\ IsFiniteSet(Services)
ASSUME MinuteAssumption == Minute \in Nat \ {0}
ASSUME SnapshotAssumption == Snapshots \subseteq Snapshot

VARIABLES snapshot,     \* the frozen input
          status,       \* "new", "refused", "running" or "done"
          pending,      \* the critical instants that are still to be judged
          affected,     \* unreachable services, each with its broken path
          explanation   \* the sentences of the explanation

vars == <<snapshot, status, pending, affected, explanation>>
-----------------------------------------------------------------------------
(* detectCycle: that its search comes to this is what CycleSearch shows.     *)
ContainsCycle(services) == HasLoop([s \in Services |-> services[s].deps])

(* ValidateSnapshot.  Create has made sure that both anchors exist.          *)
Valid(sn) == /\ sn.old # sn.new
             /\ sn.start < sn.end
             /\ sn.candidates \subseteq sn.page
             /\ ~ContainsCycle(sn.services)

(* Mutant: the minute after the window is forgotten.                         *)
InstantsOfTheWindow(sn) ==
  {sn.start - Minute, sn.start, sn.start + (sn.end - sn.start) \div 2, sn.end, sn.at}

CriticalTimes(sn) ==
  {sn.start - Minute, sn.start, sn.start + (sn.end - sn.start) \div 2,
   sn.end, sn.end + Minute, sn.at}

(* The old anchor counts until the window ends, the new one from its start;  *)
(* nothing else about the anchors is looked at.                              *)
ActiveAnchors(sn, at) ==
  {a \in {sn.old, sn.new} : \/ a = sn.old /\ at <= sn.end
                            \/ a = sn.new /\ at >= sn.start}

(* evaluateDirect accepts this chain for the service at this instant.        *)
Accepted(sn, service, c, at) ==
  LET chain == sn.chains[c] IN
  /\ chain.subject = sn.chains[service.chain].subject
  /\ chain.state \notin {"revoked", "deprecated"}
  /\ chain.from <= at /\ at < chain.to
  /\ chain.valid
  /\ chain.anchor \in ActiveAnchors(sn, at) \cap service.trust

(* The active services that have a path of their own: through the chain they *)
(* are configured with or a candidate for the same identity.                 *)
Direct(sn, at) ==
  {s \in Services :
     /\ sn.services[s].active /\ sn.services[s].chain \in sn.page
     /\ \E c \in (sn.candidates \cup {sn.services[s].chain}) \cap sn.page :
          Accepted(sn, sn.services[s], c, at)}
-----------------------------------------------------------------------------
(* Mutant: the loop over the dependencies returns after the first one.       *)
FirstDependencyOnly(services, direct) ==
  LET resolve[path \in Seq(Services) \ {<<>>}] ==
        LET id   == path[Len(path)]
            deps == services[id].deps IN
        IF id \notin direct THEN [reachable |-> FALSE, path |-> path]
        ELSE IF deps = {} THEN [reachable |-> TRUE, path |-> path]
        ELSE resolve[Append(path, Min(deps))]
  IN  resolve

(* Mutant: the path so far is returned in place of the broken one.           *)
OwnPathReported(services, direct) ==
  LET resolve[path \in Seq(Services) \ {<<>>}] ==
        LET id == path[Len(path)] IN
        [reachable |-> /\ id \in direct
                       /\ \A d \in services[id].deps : resolve[Append(path, d)].reachable,
         path      |-> path]
  IN  resolve

(* Mutant: a failing service reports the path without itself.                *)
ParentPathReported(services, direct) ==
  LET resolve[path \in Seq(Services) \ {<<>>}] ==
        LET id     == path[Len(path)]
            broken == {d \in services[id].deps : ~resolve[Append(path, d)].reachable} IN
        IF id \notin direct
        THEN [reachable |-> FALSE, path |-> SubSeq(path, 1, Len(path) - 1)]
        ELSE IF broken = {} THEN [reachable |-> TRUE, path |-> path]
        ELSE resolve[Append(path, Min(broken))]
  IN  resolve

(* resolveService, as a function of the path walked so far, whose last       *)
(* element is the service in question and whose others are being visited: a  *)
(* service fails without a path of its own, on a cycle, or because of the    *)
(* first of its dependencies that fails, whose broken path it passes on.     *)
Resolve(services, direct) ==
  LET resolve[path \in Seq(Services) \ {<<>>}] ==
        LET id       == path[Len(path)]
            visiting == {path[i] : i \in 1 .. Len(path) - 1} IN
        IF id \notin direct \/ id \in visiting
        THEN [reachable |-> FALSE, path |-> path]
        ELSE LET broken == {d \in services[id].deps : ~resolve[Append(path, d)].reachable} IN
             IF broken = {} THEN [reachable |-> TRUE, path |-> path]
             ELSE resolve[Append(path, Min(broken))]
  IN  resolve

Verdict(sn, s, at) == Resolve(sn.services, Direct(sn, at))[<<s>>]

ActiveServices(sn) == {s \in Services : sn.services[s].active}

(* What one round of the loop over the instants appends to the result.       *)
AffectedAt(sn, at) ==
  {[service |-> s, at |-> at, path |-> Verdict(sn, s, at).path] :
     s \in {t \in ActiveServices(sn) : ~Verdict(sn, t, at).reachable}}

(* explain: which sentences are written.                                     *)
Sentences(sn, found) ==
  IF found = {} THEN {"clear"}
  ELSE {"failures"}
       \cup (IF \E a \in found : a.at < sn.start THEN {"new path too late"} ELSE {})
       \cup (IF \E a \in found : a.at > sn.end THEN {"old anchor too early"} ELSE {})
-----------------------------------------------------------------------------
Init == /\ snapshot \in Snapshots
        /\ status = "new"
        /\ pending = {} /\ affected = {} /\ explanation = {}

Refuse == /\ status = "new" /\ ~Valid(snapshot)
          /\ status' = "refused"
          /\ UNCHANGED <<snapshot, pending, affected, explanation>>

Start == /\ status = "new" /\ Valid(snapshot)
         /\ status' = "running"
         /\ pending' = CriticalTimes(snapshot)
         /\ UNCHANGED <<snapshot, affected, explanation>>

(* One round of the loop in Simulate, for the earliest instant left.         *)
Judge == /\ status = "running" /\ pending # {}
         /\ LET at == Min(pending) IN
            /\ affected' = affected \cup AffectedAt(snapshot, at)
            /\ pending' = pending \ {at}
         /\ UNCHANGED <<snapshot, status, explanation>>

Explain == /\ status = "running" /\ pending = {}
           /\ status' = "done"
           /\ explanation' = Sentences(snapshot, affected)
           /\ UNCHANGED <<snapshot, pending, affected>>

Next == Refuse \/ Start \/ Judge \/ Explain

Spec == Init /\ [][Next]_vars
-----------------------------------------------------------------------------
TypeOK ==
  /\ snapshot \in Snapshot
  /\ status \in {"new", "refused", "running", "done"}
  /\ pending \subseteq Int
  /\ affected \subseteq [service : Services, at : Int, path : Seq(Services) \ {<<>>}]
  /\ explanation \subseteq {"clear", "failures", "new path too late", "old anchor too early"}

(* What reachability means: a service works at an instant if it belongs to a *)
(* set of services that all have a path of their own and depend on nothing   *)
(* outside the set.                                                          *)
Working(sn, at) ==
  UNION {group \in SUBSET Direct(sn, at) : \A s \in group : sn.services[s].deps \subseteq group}

(* The instants judged so far have exactly the failures that the definition  *)
(* above gives: the recursive search neither misses a service that lost an   *)
(* indirect dependency nor blames one it merely meets twice (simulator.go:   *)
(* 168-196 and 242-268).                                                     *)
VerdictsSound ==
  status \in {"running", "done"} =>
    {<<a.service, a.at>> : a \in affected} =
      UNION {{<<s, at>> : s \in ActiveServices(snapshot) \ Working(snapshot, at)} :
               at \in CriticalTimes(snapshot) \ pending}

(* A broken path is an explanation: it leads from the affected service along *)
(* dependencies, over services that do have a path of their own, to one that *)
(* has none (simulator.go:242-268; README.md:18 "evidence for time-window    *)
(* path failures").                                                          *)
BrokenPathsExplain ==
  \A a \in affected :
    LET last   == Len(a.path)
        direct == Direct(snapshot, a.at) IN
    /\ a.path[1] = a.service
    /\ a.path[last] \notin direct
    /\ \A i \in 1 .. last - 1 : /\ a.path[i] \in direct
                                /\ a.path[i + 1] \in snapshot.services[a.path[i]].deps

(* No chain becomes valid or expires between two of the five instants that   *)
(* the window fixes.                                                         *)
Quiet(sn) ==
  LET middle == sn.start + (sn.end - sn.start) \div 2 IN
  \A c \in Chains :
    \A boundary \in {sn.chains[c].from, sn.chains[c].to} :
      \/ boundary <= sn.start - Minute
      \/ boundary \in {sn.start, middle, sn.end}
      \/ boundary > sn.end + Minute

(* "All active service trust paths remain reachable before, during, and      *)
(* after the proposed overlap window" (simulator.go:295) is true of every    *)
(* instant from a minute before the window to a minute after it, although    *)
(* only six were judged, provided no chain changes in between.               *)
ClearMeansClear ==
  "clear" \in explanation /\ Quiet(snapshot) =>
    \A at \in snapshot.start - Minute .. snapshot.end + Minute :
      \A s \in ActiveServices(snapshot) : Verdict(snapshot, s, at).reachable
=============================================================================
