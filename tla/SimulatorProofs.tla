--------------------------- MODULE SimulatorProofs ---------------------------
(* That the search for broken trust paths is right: on every graph without a *)
(* cycle it calls reachable what works by definition, and the path it gives  *)
(* for anything else explains the failure.  And what an "all clear" is       *)
(* worth: six judged instants speak for every instant in between if no chain *)
(* changes between them.  All of it for every frozen input, any number of    *)
(* services and chains and any length of the window.                         *)
(*                                                                           *)
(* The theorems of the library that take a predicate cannot be instantiated  *)
(* here.  What stands in for induction is the minimum of a set of counter-   *)
(* examples: a set of naturals has a least element (WFMin), and a set of     *)
(* services each of which depends on one of the set is a cycle (NoLoop).     *)
EXTENDS Simulator, FiniteSetTheorems, WellFoundedInduction, TLAPS

(* A set of naturals has a least element.                                    *)
LEMMA LeastNatural ==
  ASSUME NEW S \in SUBSET Nat, S # {}
  PROVE  \E m \in S : \A n \in S : m <= n
<1>1. PICK m \in S : \A n \in S : <<n, m>> \notin OpToRel(<, Nat)
  BY NatLessThanWellFounded, WFMin
<1>2. \A n \in S : ~ (n < m)
  BY <1>1 DEF OpToRel
<1> QED BY <1>2

(* Min of integers that are bounded below is one of them and the least.      *)
LEMMA LeastInteger ==
  ASSUME NEW S \in SUBSET Int, S # {}, NEW low \in Int, \A n \in S : low <= n
  PROVE  Min(S) \in S /\ \A n \in S : Min(S) <= n
<1> DEFINE T == {n - low : n \in S}
<1>1. T \in SUBSET Nat
  OBVIOUS
<1>2. PICK t \in T : \A u \in T : t <= u
  <2>1. T # {}
    OBVIOUS
  <2> HIDE DEF T
  <2> QED BY <1>1, <2>1, LeastNatural
<1>3. PICK m \in S : t = m - low
  BY <1>2
<1>4. \A n \in S : m <= n
  <2> SUFFICES ASSUME NEW n \in S PROVE m <= n
    OBVIOUS
  <2>1. m - low <= n - low
    BY <1>2, <1>3
  <2> QED BY <2>1
<1> QED BY <1>3, <1>4 DEF Min
Paths == Seq(Services) \ {<<>>}

Last(path) == path[Len(path)]

Visiting(path) == {path[i] : i \in 1 .. Len(path) - 1}

Failing(g, services, path) ==
  {d \in services[Last(path)].deps : ~g[Append(path, d)].reachable}

Answer(g, services, direct, path) ==
  IF Last(path) \notin direct \/ Last(path) \in Visiting(path)
  THEN [reachable |-> FALSE, path |-> path]
  ELSE IF Failing(g, services, path) = {}
       THEN [reachable |-> TRUE, path |-> path]
       ELSE g[Append(path, Min(Failing(g, services, path)))]

Solves(g, D, services, direct) == g = [path \in D |-> Answer(g, services, direct, path)]

LEMMA ResolveIsChosen ==
  ASSUME NEW services, NEW direct
  PROVE  Resolve(services, direct) = CHOOSE g : Solves(g, Paths, services, direct)
BY DEF Resolve, Solves, Paths, Answer, Failing, Last, Visiting

LEMMA PathFacts ==
  ASSUME NEW path \in Paths
  PROVE  /\ Len(path) \in Nat \ {0}
         /\ \A i \in 1 .. Len(path) : path[i] \in Services
         /\ Last(path) \in Services
BY DEF Paths, Last

LEMMA Dependencies ==
  ASSUME NEW services \in [Services -> Service], NEW path \in Paths
  PROVE  services[Last(path)].deps \subseteq Services
BY PathFacts DEF Service

(* A path in a search, and the facts about sequences the proofs below need.  *)
LEMMA Extended ==
  ASSUME NEW path \in Paths, NEW d \in Services
  PROVE  /\ Len(path) \in Nat \ {0}
         /\ Last(path) \in Services
         /\ \A i \in 1 .. Len(path) : path[i] \in Services
         /\ Append(path, d) \in Paths
         /\ Len(Append(path, d)) = Len(path) + 1
         /\ Last(Append(path, d)) = d
         /\ \A i \in 1 .. Len(path) : Append(path, d)[i] = path[i]
         /\ Visiting(Append(path, d)) = Visiting(path) \cup {Last(path)}
<1>1. Len(path) \in Nat \ {0} /\ \A i \in 1 .. Len(path) : path[i] \in Services
  BY DEF Paths
<1>2. /\ Append(path, d) \in Seq(Services) /\ Len(Append(path, d)) = Len(path) + 1
      /\ Append(path, d)[Len(path) + 1] = d
      /\ \A i \in 1 .. Len(path) : Append(path, d)[i] = path[i]
  BY DEF Paths
<1>3. Append(path, d) # <<>>
  BY <1>1, <1>2
<1>4. Visiting(Append(path, d)) = {path[i] : i \in 1 .. Len(path)}
  BY <1>1, <1>2 DEF Visiting
<1>5. {path[i] : i \in 1 .. Len(path)} = Visiting(path) \cup {Last(path)}
  BY <1>1 DEF Visiting, Last
<1> QED BY <1>1, <1>2, <1>3, <1>4, <1>5 DEF Paths, Last

(* How many services a path may still be led through.                        *)
Left(path) == Cardinality(Services \ Visiting(path))

LEMMA LeftNatural == \A path \in Paths : Left(path) \in Nat
BY NumberedServices, FS_Subset, FS_CardinalityType DEF Left

LEMMA LeftShrinks ==
  ASSUME NEW path \in Paths, NEW d \in Services, Last(path) \notin Visiting(path)
  PROVE  Left(path) \in Nat /\ Left(Append(path, d)) \in Nat /\ Left(Append(path, d)) < Left(path)
<1>1. IsFiniteSet(Services \ Visiting(path))
  BY NumberedServices, FS_Subset
<1>2. Last(path) \in Services \ Visiting(path)
  BY Extended
<1>3. Services \ Visiting(Append(path, d)) = (Services \ Visiting(path)) \ {Last(path)}
  BY Extended
<1>4. /\ Cardinality(Services \ Visiting(path)) \in Nat
      /\ Cardinality((Services \ Visiting(path)) \ {Last(path)}) \in Nat
      /\ Cardinality((Services \ Visiting(path)) \ {Last(path)}) = Cardinality(Services \ Visiting(path)) - 1
  <2> DEFINE left == Services \ Visiting(path)
  <2> HIDE DEF left
  <2>1. IsFiniteSet(left) /\ Last(path) \in left
    BY <1>1, <1>2 DEF left
  <2>2. /\ IsFiniteSet(left \ {Last(path)}) /\ Cardinality(left \ {Last(path)}) = Cardinality(left) - 1
    BY <2>1, FS_RemoveElement
  <2>3. Cardinality(left) \in Nat /\ Cardinality(left \ {Last(path)}) \in Nat
    BY <2>1, <2>2, FS_CardinalityType
  <2> QED BY <2>2, <2>3 DEF left
<1> QED BY <1>3, <1>4 DEF Left

(* An answer depends only on the answers for the path with one more service, *)
(* and on none where the search turns back.                                  *)
LEMMA AnswerIsLocal ==
  ASSUME NEW services \in [Services -> Service], NEW direct, NEW path \in Paths, NEW g, NEW h,
         Last(path) \in direct /\ Last(path) \notin Visiting(path) =>
           \A d \in services[Last(path)].deps : g[Append(path, d)] = h[Append(path, d)]
  PROVE  Answer(g, services, direct, path) = Answer(h, services, direct, path)
<1>1. CASE Last(path) \notin direct \/ Last(path) \in Visiting(path)
  BY <1>1 DEF Answer
<1>2. CASE Last(path) \in direct /\ Last(path) \notin Visiting(path)
  <2>1. Failing(g, services, path) = Failing(h, services, path)
    BY <1>2 DEF Failing
  <2>2. services[Last(path)].deps \subseteq Nat
    BY Dependencies, NumberedServices
  <2>3. CASE Failing(g, services, path) = {}
    BY <1>2, <2>1, <2>3 DEF Answer
  <2>4. CASE Failing(g, services, path) # {}
    <3>1. Min(Failing(g, services, path)) \in services[Last(path)].deps
      <4>1. Failing(g, services, path) \subseteq services[Last(path)].deps
        BY DEF Failing
      <4>2. Failing(g, services, path) \subseteq Int /\ \A n \in Failing(g, services, path) : 0 <= n
        BY <2>2, <4>1
      <4>3. Min(Failing(g, services, path)) \in Failing(g, services, path)
        BY <2>4, <4>2, LeastInteger
      <4> QED BY <4>1, <4>3
    <3>2. g[Append(path, Min(Failing(g, services, path)))] = h[Append(path, Min(Failing(g, services, path)))]
      BY <1>2, <3>1
    <3> QED BY <1>2, <2>1, <2>4, <3>2 DEF Answer
  <2> QED BY <2>3, <2>4
<1> QED BY <1>1, <1>2

(* The paths that may still be led through fewer than n services.            *)
Short(n) == {path \in Paths : Left(path) < n}

LEMMA Solvable ==
  ASSUME NEW services \in [Services -> Service], NEW direct
  PROVE  \A n \in Nat : \E g : Solves(g, Short(n), services, direct)
<1> DEFINE Unsolved == {n \in Nat : ~ \E g : Solves(g, Short(n), services, direct)}
<1> SUFFICES ASSUME Unsolved # {} PROVE FALSE
  OBVIOUS
<1>1. PICK n \in Unsolved : \A m \in Unsolved : n <= m
  BY LeastNatural
<1>2. n \in Nat /\ ~ \E g : Solves(g, Short(n), services, direct)
  OBVIOUS
<1>3. \A m \in Nat : m < n => \E g : Solves(g, Short(m), services, direct)
  BY <1>1
<1> HIDE DEF Unsolved
<1>4. CASE n = 0
  <2>1. Short(0) = {}
    BY LeftNatural DEF Short
  <2>2. Solves([path \in Short(0) |-> 0], Short(0), services, direct)
    BY <2>1 DEF Solves
  <2> QED BY <1>2, <1>4, <2>2
<1>5. CASE n # 0
  <2>1. PICK g : Solves(g, Short(n - 1), services, direct)
    BY <1>2, <1>3, <1>5
  <2> DEFINE h == [path \in Short(n) |-> IF path \in Short(n - 1) THEN g[path]
                                         ELSE Answer(g, services, direct, path)]
  <2>2. ASSUME NEW path \in Short(n)
        PROVE  h[path] = Answer(h, services, direct, path)
    <3>1. path \in Paths /\ Left(path) \in Nat /\ Left(path) < n
      BY LeftNatural DEF Short
    <3>2. h[path] = Answer(g, services, direct, path)
      BY <2>1 DEF Solves
    <3>3. ASSUME Last(path) \notin Visiting(path), NEW d \in services[Last(path)].deps
          PROVE  g[Append(path, d)] = h[Append(path, d)]
      <4>1. d \in Services
        BY <3>1, Dependencies
      <4>2. Append(path, d) \in Short(n - 1) /\ Append(path, d) \in Short(n)
        <5>1. Append(path, d) \in Paths
          BY <3>1, <4>1, Extended
        <5>2. Left(Append(path, d)) \in Nat /\ Left(Append(path, d)) < Left(path)
          BY <3>1, <3>3, <4>1, LeftShrinks
        <5>3. Left(Append(path, d)) < n - 1 /\ Left(Append(path, d)) < n
          BY <1>2, <3>1, <5>2
        <5> QED BY <5>1, <5>3 DEF Short
      <4> QED BY <4>2
    <3> HIDE DEF h
    <3>4. Answer(g, services, direct, path) = Answer(h, services, direct, path)
      BY <3>1, <3>3, AnswerIsLocal
    <3> QED BY <3>2, <3>4
  <2>3. Solves(h, Short(n), services, direct)
    <3>1. h = [path \in Short(n) |-> h[path]]
      OBVIOUS
    <3> HIDE DEF h
    <3> QED BY <2>2, <3>1 DEF Solves
  <2> QED BY <1>2, <2>3
<1> QED BY <1>4, <1>5

(* The search ends on every graph, one with cycles included, and what it     *)
(* answers for a path is what one round of it gives (simulator.go:242-268).  *)
THEOREM SearchEnds ==
  ASSUME NEW services \in [Services -> Service], NEW direct, NEW path \in Paths
  PROVE  Resolve(services, direct)[path] =
           Answer(Resolve(services, direct), services, direct, path)
<1> DEFINE n == Cardinality(Services) + 1
<1>1. n \in Nat
  BY NumberedServices, FS_CardinalityType
<1>2. Short(n) = Paths
  <2> SUFFICES ASSUME NEW p \in Paths PROVE Left(p) < n
    BY DEF Short
  <2>1. Left(p) <= Cardinality(Services)
    BY NumberedServices, FS_Subset DEF Left
  <2> QED BY <2>1, LeftNatural, NumberedServices, FS_CardinalityType
<1> HIDE DEF n
<1>3. \E g : Solves(g, Paths, services, direct)
  BY <1>1, <1>2, Solvable
<1>4. Solves(Resolve(services, direct), Paths, services, direct)
  BY <1>3, ResolveIsChosen
<1> QED BY <1>4 DEF Solves
-----------------------------------------------------------------------------
(* A path that follows dependencies, as every path of a search does.         *)
Walk(services, path) ==
  /\ path \in Paths
  /\ \A i \in 1 .. Len(path) - 1 : path[i + 1] \in services[path[i]].deps

LEMMA WalkStarts ==
  ASSUME NEW services, NEW s \in Services
  PROVE  Walk(services, <<s>>) /\ Last(<<s>>) = s /\ Len(<<s>>) = 1
BY DEF Walk, Paths, Last

LEMMA WalkGoesOn ==
  ASSUME NEW services \in [Services -> Service], NEW path, Walk(services, path),
         NEW d \in services[Last(path)].deps
  PROVE  Walk(services, Append(path, d)) /\ Append(path, d) \in Paths /\ Last(Append(path, d)) = d
<1>1. path \in Paths /\ d \in Services
  BY Dependencies DEF Walk
<1>2. ASSUME NEW i \in 1 .. Len(Append(path, d)) - 1
      PROVE  Append(path, d)[i + 1] \in services[Append(path, d)[i]].deps
  <2>1. i \in 1 .. Len(path) /\ Append(path, d)[i] = path[i]
    BY <1>1, Extended
  <2>2. CASE i = Len(path)
    BY <1>1, <2>1, <2>2, Extended DEF Last
  <2>3. CASE i # Len(path)
    <3>1. i \in 1 .. Len(path) - 1 /\ i + 1 \in 1 .. Len(path)
      BY <1>1, <2>1, <2>3, PathFacts
    <3> QED BY <1>1, <2>1, <3>1, Extended DEF Walk
  <2> QED BY <2>2, <2>3
<1> QED BY <1>1, <1>2, Extended DEF Walk

(* Without a cycle, no set of services goes on forever.                      *)
LEMMA NoLoop ==
  ASSUME NEW services \in [Services -> Service], ~ContainsCycle(services),
         NEW loop \in SUBSET Services,
         \A s \in loop : \E d \in services[s].deps : d \in loop
  PROVE  loop = {}
BY DEF ContainsCycle, HasLoop

(* On a graph without a cycle a walk meets no service twice.                 *)
LEMMA WalkIsSimple ==
  ASSUME NEW services \in [Services -> Service], ~ContainsCycle(services),
         NEW path, Walk(services, path),
         NEW k \in 1 .. Len(path), NEW j \in 1 .. k - 1
  PROVE  path[j] # path[k]
<1> SUFFICES ASSUME path[j] = path[k] PROVE FALSE
  OBVIOUS
<1>1. path \in Paths /\ Len(path) \in Nat /\ \A i \in 1 .. Len(path) : path[i] \in Services
  BY PathFacts DEF Walk
<1> DEFINE loop == {path[i] : i \in j .. k - 1}
<1>2. loop \in SUBSET Services
  BY <1>1
<1>3. ASSUME NEW i \in j .. k - 1
      PROVE  \E d \in services[path[i]].deps : d \in loop
  <2>1. path[i + 1] \in services[path[i]].deps
    BY <1>1 DEF Walk
  <2>2. CASE i = k - 1
    <3>1. path[i + 1] = path[j] /\ path[j] \in loop
      BY <1>1, <2>2
    <3> QED BY <2>1, <3>1
  <2>3. CASE i # k - 1
    <3>1. i + 1 \in j .. k - 1
      BY <1>1, <2>3
    <3> QED BY <2>1, <3>1
  <2> QED BY <2>2, <2>3
<1>4. path[j] \in loop
  BY <1>1
<1> HIDE DEF loop
<1>5. \A s \in loop : \E d \in services[s].deps : d \in loop
  BY <1>3 DEF loop
<1> QED BY <1>2, <1>4, <1>5, NoLoop

LEMMA WalkIsFresh ==
  ASSUME NEW services \in [Services -> Service], ~ContainsCycle(services),
         NEW path, Walk(services, path)
  PROVE  Last(path) \notin Visiting(path)
<1>1. Len(path) \in 1 .. Len(path)
  BY PathFacts DEF Walk
<1> QED BY <1>1, WalkIsSimple DEF Last, Visiting

(* The three answers of the search for a path: its last service has no path  *)
(* of its own, or all its dependencies are reachable, or it passes on what   *)
(* one of them is answered.                                                  *)
NoPathOfItsOwn(found, direct, path) ==
  /\ Last(path) \notin direct
  /\ ~found[path].reachable /\ found[path].path = path

AllReachable(found, services, direct, path) ==
  /\ Last(path) \in direct
  /\ found[path].reachable /\ found[path].path = path
  /\ \A d \in services[Last(path)].deps : found[Append(path, d)].reachable

PassedOn(found, services, direct, path) ==
  /\ Last(path) \in direct
  /\ \E d \in services[Last(path)].deps :
       ~found[Append(path, d)].reachable /\ found[path] = found[Append(path, d)]

LEMMA ThreeAnswers ==
  ASSUME NEW services \in [Services -> Service], ~ContainsCycle(services), NEW direct,
         NEW path, Walk(services, path)
  PROVE  \/ NoPathOfItsOwn(Resolve(services, direct), direct, path)
         \/ AllReachable(Resolve(services, direct), services, direct, path)
         \/ PassedOn(Resolve(services, direct), services, direct, path)
<1> DEFINE found == Resolve(services, direct)
           failing == Failing(found, services, path)
<1>1. path \in Paths /\ Last(path) \notin Visiting(path)
  BY WalkIsFresh DEF Walk
<1>2. found[path] = Answer(found, services, direct, path)
  BY <1>1, SearchEnds
<1>3. failing = {d \in services[Last(path)].deps : ~found[Append(path, d)].reachable}
  BY DEF Failing
<1> HIDE DEF found
<1>4. CASE Last(path) \notin direct
  BY <1>2, <1>4 DEF Answer, found, NoPathOfItsOwn
<1>5. CASE Last(path) \in direct /\ failing = {}
  <2>1. found[path] = [reachable |-> TRUE, path |-> path]
    BY <1>1, <1>2, <1>5 DEF Answer
  <2> QED BY <1>3, <1>5, <2>1 DEF found, AllReachable
<1>6. CASE Last(path) \in direct /\ failing # {}
  <2>1. found[path] = found[Append(path, Min(failing))]
    BY <1>1, <1>2, <1>6 DEF Answer
  <2>2. Min(failing) \in failing
    <3>1. failing \subseteq services[Last(path)].deps
      BY <1>3
    <3> HIDE DEF failing
    <3>2. services[Last(path)].deps \subseteq Nat
      BY <1>1, Dependencies, NumberedServices
    <3>3. failing \in SUBSET Int /\ \A n \in failing : 0 <= n
      BY <3>1, <3>2
    <3> QED BY <1>6, <3>3, LeastInteger
  <2> HIDE DEF failing
  <2> QED BY <1>3, <1>6, <2>1, <2>2 DEF found, PassedOn
<1> QED BY <1>4, <1>5, <1>6

(* What the search calls reachable from a walk works, and what works it      *)
(* calls reachable.                                                          *)
LEMMA ReachableWorks ==
  ASSUME NEW sn \in Snapshot, ~ContainsCycle(sn.services), NEW at,
         NEW path, Walk(sn.services, path),
         Resolve(sn.services, Direct(sn, at))[path].reachable
  PROVE  Last(path) \in Working(sn, at)
<1> DEFINE found == Resolve(sn.services, Direct(sn, at))
           Good(p) == Walk(sn.services, p) /\ found[p].reachable
           group == {Last(p) : p \in {q \in Paths : Good(q)}}
<1>1. sn.services \in [Services -> Service]
  BY DEF Snapshot
<1>2. ASSUME NEW p \in Paths, Good(p)
      PROVE  /\ Last(p) \in Direct(sn, at)
             /\ \A d \in sn.services[Last(p)].deps : d \in group
  <2> HIDE DEF found
  <2>1. /\ Last(p) \in Direct(sn, at)
        /\ \A d \in sn.services[Last(p)].deps : found[Append(p, d)].reachable
    <3>1. \/ NoPathOfItsOwn(found, Direct(sn, at), p)
          \/ AllReachable(found, sn.services, Direct(sn, at), p)
          \/ PassedOn(found, sn.services, Direct(sn, at), p)
      BY <1>1, <1>2, ThreeAnswers DEF found
    <3> QED BY <1>2, <3>1 DEF NoPathOfItsOwn, AllReachable, PassedOn
  <2>2. ASSUME NEW d \in sn.services[Last(p)].deps
        PROVE  d \in group
    <3>1. Append(p, d) \in Paths /\ Good(Append(p, d)) /\ Last(Append(p, d)) = d
      BY <1>1, <1>2, <2>1, WalkGoesOn
    <3> QED BY <3>1
  <2> QED BY <2>1, <2>2
<1>3. group \in SUBSET Direct(sn, at)
  BY <1>2
<1>4. \A s \in group : sn.services[s].deps \subseteq group
  BY <1>2
<1>5. Last(path) \in group
  BY DEF Walk
<1> HIDE DEF group
<1> QED BY <1>3, <1>4, <1>5 DEF Working

LEMMA WorkingIsClosed ==
  ASSUME NEW sn, NEW at, NEW s \in Working(sn, at)
  PROVE  s \in Direct(sn, at) /\ sn.services[s].deps \subseteq Working(sn, at)
BY DEF Working

LEMMA WorkingReachable ==
  ASSUME NEW sn \in Snapshot, ~ContainsCycle(sn.services), NEW at,
         NEW path, Walk(sn.services, path), Last(path) \in Working(sn, at)
  PROVE  Resolve(sn.services, Direct(sn, at))[path].reachable
<1> DEFINE found == Resolve(sn.services, Direct(sn, at))
           Bad(p) == Walk(sn.services, p) /\ Last(p) \in Working(sn, at) /\ ~found[p].reachable
           blamed == {Last(p) : p \in {q \in Paths : Bad(q)}}
<1>1. sn.services \in [Services -> Service]
  BY DEF Snapshot
<1>2. ASSUME NEW p \in Paths, Bad(p)
      PROVE  \E d \in sn.services[Last(p)].deps : d \in blamed
  <2>1. Last(p) \in Direct(sn, at) /\ sn.services[Last(p)].deps \subseteq Working(sn, at)
    BY <1>2, WorkingIsClosed
  <2> HIDE DEF found
  <2>2. PICK d \in sn.services[Last(p)].deps : ~found[Append(p, d)].reachable
    <3>1. \/ NoPathOfItsOwn(found, Direct(sn, at), p)
          \/ AllReachable(found, sn.services, Direct(sn, at), p)
          \/ PassedOn(found, sn.services, Direct(sn, at), p)
      BY <1>1, <1>2, ThreeAnswers DEF found
    <3> QED BY <1>2, <2>1, <3>1 DEF NoPathOfItsOwn, AllReachable, PassedOn
  <2>3. Append(p, d) \in Paths /\ Bad(Append(p, d)) /\ Last(Append(p, d)) = d
    BY <1>1, <1>2, <2>1, <2>2, WalkGoesOn
  <2> QED BY <2>3
<1>3. blamed \in SUBSET Services
  BY PathFacts
<1>4. \A s \in blamed : \E d \in sn.services[s].deps : d \in blamed
  BY <1>2
<1>5. blamed = {}
  <2> HIDE DEF blamed
  <2> QED BY <1>1, <1>3, <1>4, NoLoop
<1> QED BY <1>5 DEF Walk

(* The verdict on a service is its definition: it works, or it does not.     *)
LEMMA VerdictIsWorking ==
  ASSUME NEW sn \in Snapshot, ~ContainsCycle(sn.services), NEW at, NEW s \in Services
  PROVE  Verdict(sn, s, at).reachable <=> s \in Working(sn, at)
<1>1. Walk(sn.services, <<s>>) /\ Last(<<s>>) = s
  BY WalkStarts
<1> QED BY <1>1, ReachableWorks, WorkingReachable DEF Verdict
-----------------------------------------------------------------------------
(* A path explains why s is not reachable: it follows dependencies from s,   *)
(* over services with a path of their own, to one without.                   *)
Explains(services, direct, s, path) ==
  /\ Walk(services, path) /\ path[1] = s
  /\ \A i \in 1 .. Len(path) - 1 : path[i] \in direct
  /\ Last(path) \notin direct

(* Where a search of one service has come to: all services passed have a     *)
(* path of their own.                                                        *)
Lead(services, direct, s, path) ==
  /\ Walk(services, path) /\ path[1] = s
  /\ \A i \in 1 .. Len(path) - 1 : path[i] \in direct

LEMMA LeadGoesOn ==
  ASSUME NEW services \in [Services -> Service], NEW direct, NEW s,
         NEW path, Lead(services, direct, s, path), Last(path) \in direct,
         NEW d \in services[Last(path)].deps
  PROVE  Lead(services, direct, s, Append(path, d))
<1>1. path \in Paths /\ d \in Services /\ Len(path) \in Nat \ {0}
  BY Dependencies, PathFacts DEF Walk, Lead
<1>2. Walk(services, Append(path, d))
  BY WalkGoesOn DEF Lead
<1>3. Append(path, d)[1] = s
  BY <1>1, Extended DEF Lead
<1>4. ASSUME NEW i \in 1 .. Len(Append(path, d)) - 1
      PROVE  Append(path, d)[i] \in direct
  <2>1. i \in 1 .. Len(path) /\ Append(path, d)[i] = path[i]
    BY <1>1, Extended
  <2>2. CASE i = Len(path)
    BY <2>1, <2>2 DEF Last
  <2>3. CASE i # Len(path)
    <3>1. i \in 1 .. Len(path) - 1
      BY <1>1, <2>1, <2>3
    <3> QED BY <2>1, <3>1 DEF Lead
  <2> QED BY <2>2, <2>3
<1> QED BY <1>2, <1>3, <1>4 DEF Lead

(* The path returned with a failure explains it.                             *)
LEMMA FailureExplained ==
  ASSUME NEW services \in [Services -> Service], ~ContainsCycle(services), NEW direct, NEW s,
         NEW path, Lead(services, direct, s, path),
         ~Resolve(services, direct)[path].reachable
  PROVE  Explains(services, direct, s, Resolve(services, direct)[path].path)
<1> DEFINE found == Resolve(services, direct)
           Bad(p) == /\ Lead(services, direct, s, p) /\ ~found[p].reachable
                     /\ ~Explains(services, direct, s, found[p].path)
           blamed == {Last(p) : p \in {q \in Paths : Bad(q)}}
<1>1. ASSUME NEW p \in Paths, Bad(p)
      PROVE  \E d \in services[Last(p)].deps : d \in blamed
  <2> HIDE DEF found
  <2>1. \/ NoPathOfItsOwn(found, direct, p)
        \/ AllReachable(found, services, direct, p)
        \/ PassedOn(found, services, direct, p)
    BY <1>1, ThreeAnswers DEF found, Lead
  <2>2. ~NoPathOfItsOwn(found, direct, p) /\ ~AllReachable(found, services, direct, p)
    BY <1>1 DEF NoPathOfItsOwn, AllReachable, Lead, Explains
  <2>3. Last(p) \in direct
    BY <2>1, <2>2 DEF PassedOn
  <2>4. PICK d \in services[Last(p)].deps : ~found[Append(p, d)].reachable /\ found[p] = found[Append(p, d)]
    BY <2>1, <2>2 DEF PassedOn
  <2>5. Lead(services, direct, s, Append(p, d))
    BY <1>1, <2>3, LeadGoesOn
  <2>6. Append(p, d) \in Paths /\ Last(Append(p, d)) = d
    BY <1>1, WalkGoesOn DEF Lead
  <2>7. Bad(Append(p, d))
    BY <1>1, <2>4, <2>5
  <2> QED BY <2>6, <2>7
<1>2. blamed \in SUBSET Services
  BY PathFacts
<1>3. \A t \in blamed : \E d \in services[t].deps : d \in blamed
  BY <1>1
<1>4. blamed = {}
  <2> HIDE DEF blamed
  <2> QED BY <1>2, <1>3, NoLoop
<1> QED BY <1>4 DEF Walk, Lead

LEMMA VerdictExplained ==
  ASSUME NEW sn \in Snapshot, ~ContainsCycle(sn.services), NEW at, NEW s \in Services,
         ~Verdict(sn, s, at).reachable
  PROVE  Explains(sn.services, Direct(sn, at), s, Verdict(sn, s, at).path)
<1>1. Lead(sn.services, Direct(sn, at), s, <<s>>)
  BY WalkStarts DEF Lead
<1>2. sn.services \in [Services -> Service]
  BY DEF Snapshot
<1> QED BY <1>1, <1>2, FailureExplained DEF Verdict

(* None of the services on it works, and none is on it twice.                *)
LEMMA ExplanationIsBlame ==
  ASSUME NEW sn \in Snapshot, ~ContainsCycle(sn.services), NEW at, NEW s, NEW path,
         Explains(sn.services, Direct(sn, at), s, path)
  PROVE  \A i \in 1 .. Len(path) : path[i] \notin Working(sn, at)
<1> DEFINE Wrong == {n \in Nat : n < Len(path) /\ path[Len(path) - n] \in Working(sn, at)}
<1>1. path \in Paths /\ Len(path) \in Nat \ {0}
  BY PathFacts DEF Explains, Walk
<1> SUFFICES ASSUME Wrong # {} PROVE FALSE
  <2>1. SUFFICES ASSUME NEW i \in 1 .. Len(path), path[i] \in Working(sn, at)
                 PROVE  Wrong # {}
    OBVIOUS
  <2>2. Len(path) - i \in Wrong
    BY <1>1, <2>1
  <2> QED BY <2>2
<1>2. PICK n \in Wrong : \A m \in Wrong : n <= m
  <2>1. Wrong \in SUBSET Nat
    OBVIOUS
  <2> HIDE DEF Wrong
  <2> QED BY <2>1, LeastNatural
<1>3. n # 0
  BY WorkingIsClosed DEF Explains, Last
<1>4. path[Len(path) - n + 1] \in Working(sn, at)
  <2>1. Len(path) - n \in 1 .. Len(path) - 1
    BY <1>1, <1>3
  <2>2. path[Len(path) - n + 1] \in sn.services[path[Len(path) - n]].deps
    BY <2>1 DEF Explains, Walk
  <2> QED BY <2>2, WorkingIsClosed
<1>5. n - 1 \in Wrong
  <2>1. n - 1 \in Nat /\ n - 1 < Len(path) /\ Len(path) - (n - 1) = Len(path) - n + 1
    BY <1>1, <1>3
  <2> QED BY <1>4, <2>1
<1> QED BY <1>2, <1>5
-----------------------------------------------------------------------------
(* A judgement depends on an instant only through the anchors that count at  *)
(* it and the chains that are valid at it.                                   *)
LEMMA SameDirect ==
  ASSUME NEW sn \in Snapshot, NEW t \in Int, NEW p \in Int,
         ActiveAnchors(sn, t) = ActiveAnchors(sn, p),
         \A c \in Chains : /\ sn.chains[c].from <= t <=> sn.chains[c].from <= p
                           /\ t < sn.chains[c].to <=> p < sn.chains[c].to
  PROVE  Direct(sn, t) = Direct(sn, p)
<1>1. ASSUME NEW service, NEW c \in Chains
      PROVE  Accepted(sn, service, c, t) <=> Accepted(sn, service, c, p)
  BY DEF Accepted
<1>2. sn.page \subseteq Chains
  BY DEF Snapshot
<1>3. \A s \in Services : s \in Direct(sn, t) <=> s \in Direct(sn, p)
  BY <1>1, <1>2 DEF Direct
<1>4. Direct(sn, t) \subseteq Services /\ Direct(sn, p) \subseteq Services
  BY DEF Direct
<1> HIDE DEF Direct
<1> QED BY <1>3, <1>4

(* Every instant around the window is spoken for by one of the five fixed    *)
(* instants: the one before it, or, after the window, the last.              *)
LEMMA Representative ==
  ASSUME NEW sn \in Snapshot, Valid(sn), Quiet(sn),
         NEW t \in sn.start - Minute .. sn.end + Minute
  PROVE  \E p \in CriticalTimes(sn) : Direct(sn, t) = Direct(sn, p)
<1> DEFINE middle == sn.start + (sn.end - sn.start) \div 2
<1>1. /\ sn.start \in Int /\ sn.end \in Int /\ sn.start < sn.end /\ t \in Int
      /\ Minute \in Nat \ {0}
      /\ sn.start - Minute <= t /\ t <= sn.end + Minute
  BY MinuteAssumption DEF Snapshot, Valid
<1>2. middle \in Int /\ sn.start <= middle /\ middle <= sn.end
  BY <1>1
<1>3. \A c \in Chains : sn.chains[c].from \in Int /\ sn.chains[c].to \in Int
  BY DEF Snapshot, Chain
<1>4. ASSUME NEW c \in Chains, NEW b \in {sn.chains[c].from, sn.chains[c].to}
      PROVE  \/ b <= sn.start - Minute
             \/ b \in {sn.start, middle, sn.end}
             \/ b > sn.end + Minute
  BY DEF Quiet
<1>5. ASSUME NEW p \in CriticalTimes(sn), p \in Int,
             ActiveAnchors(sn, t) = ActiveAnchors(sn, p),
             \A c \in Chains : \A b \in {sn.chains[c].from, sn.chains[c].to} :
               b <= t <=> b <= p
      PROVE  Direct(sn, t) = Direct(sn, p)
  <2>1. \A c \in Chains : /\ sn.chains[c].from <= t <=> sn.chains[c].from <= p
                          /\ t < sn.chains[c].to <=> p < sn.chains[c].to
    BY <1>1, <1>3, <1>5
  <2> QED BY <1>1, <1>5, <2>1, SameDirect
<1>6. {sn.start - Minute, sn.start, middle, sn.end, sn.end + Minute} \subseteq CriticalTimes(sn)
  BY DEF CriticalTimes
<1> HIDE DEF middle
<1>7. ASSUME NEW p \in Int, p \in CriticalTimes(sn),
             \/ t < sn.start /\ p = sn.start - Minute
             \/ sn.start <= t /\ t < middle /\ p = sn.start
             \/ middle <= t /\ t < sn.end /\ p = middle
             \/ t = sn.end /\ p = sn.end
             \/ sn.end < t /\ p = sn.end + Minute
      PROVE  Direct(sn, t) = Direct(sn, p)
  <2>1. (t <= sn.end <=> p <= sn.end) /\ (t >= sn.start <=> p >= sn.start)
    BY <1>1, <1>2, <1>7
  <2>2. ActiveAnchors(sn, t) = ActiveAnchors(sn, p)
    BY <2>1 DEF ActiveAnchors
  <2>3. ASSUME NEW c \in Chains, NEW b \in {sn.chains[c].from, sn.chains[c].to}
        PROVE  b <= t <=> b <= p
    <3>1. b \in Int
      BY <1>3
    <3>2. b <= sn.start - Minute \/ b \in {sn.start, middle, sn.end} \/ b > sn.end + Minute
      BY <1>4
    <3> QED BY <1>1, <1>2, <1>7, <3>1, <3>2
  <2> QED BY <1>5, <1>7, <2>2, <2>3
<1>8. CASE t < sn.start
  BY <1>1, <1>6, <1>7, <1>8
<1>9. CASE sn.start <= t /\ t < middle
  BY <1>1, <1>6, <1>7, <1>9
<1>10. CASE middle <= t /\ t < sn.end
  BY <1>1, <1>2, <1>6, <1>7, <1>10
<1>11. CASE t = sn.end
  BY <1>1, <1>6, <1>7, <1>11
<1>12. CASE sn.end < t
  BY <1>1, <1>6, <1>7, <1>12
<1> QED BY <1>1, <1>2, <1>8, <1>9, <1>10, <1>11, <1>12
-----------------------------------------------------------------------------
(* The inductive invariant: the result so far is that of the instants judged *)
(* so far, and the explanation was written from all of them.                 *)
Judged == CriticalTimes(snapshot) \ pending

IInv ==
  /\ snapshot \in Snapshot
  /\ status \in {"new", "refused", "running", "done"}
  /\ status \in {"new", "refused"} => pending = {} /\ affected = {}
  /\ status \in {"running", "done"} =>
       /\ Valid(snapshot) /\ pending \subseteq CriticalTimes(snapshot)
       /\ affected = UNION {AffectedAt(snapshot, at) : at \in Judged}
  /\ status # "done" => explanation = {}
  /\ status = "done" => pending = {} /\ explanation = Sentences(snapshot, affected)

LEMMA InstantsAreIntegers ==
  ASSUME NEW sn \in Snapshot
  PROVE  /\ CriticalTimes(sn) \subseteq Int
         /\ \E low \in Int : \A t \in CriticalTimes(sn) : low <= t
<1> DEFINE middle == sn.start + (sn.end - sn.start) \div 2
<1>1. sn.start \in Int /\ sn.end \in Int /\ sn.at \in Int /\ Minute \in Nat
  BY MinuteAssumption DEF Snapshot
<1>2. middle \in Int
  BY <1>1
<1>3. CriticalTimes(sn) = {sn.start - Minute, sn.start, middle, sn.end, sn.end + Minute, sn.at}
  BY DEF CriticalTimes
<1> HIDE DEF middle
<1>4. CriticalTimes(sn) \subseteq Int
  BY <1>1, <1>2, <1>3
<1> DEFINE Lower(a, b) == IF a <= b THEN a ELSE b
           low == Lower(Lower(Lower(sn.start - Minute, middle), sn.end), sn.at)
<1>5. low \in Int /\ \A t \in CriticalTimes(sn) : low <= t
  BY <1>1, <1>2, <1>3
<1> QED BY <1>4, <1>5

(* The invariant holds of every frozen input and in every state.             *)
THEOREM Invariant == Spec => []IInv
<1>1. Init => IInv
  BY SnapshotAssumption DEF Init, IInv
<1>2. IInv /\ [Next]_vars => IInv'
  <2> SUFFICES ASSUME IInv, [Next]_vars PROVE IInv'
    OBVIOUS
  <2>1. CASE Refuse
    BY <2>1 DEF Refuse, IInv
  <2>2. CASE Start
    <3>1. Judged' = {}
      BY <2>2 DEF Start, Judged
    <3>2. affected' = UNION {AffectedAt(snapshot, at) : at \in Judged'}
      BY <2>2, <3>1 DEF Start, IInv
    <3> QED BY <2>2, <3>2 DEF Start, IInv
  <2>3. CASE Judge
    <3> DEFINE now == Min(pending)
    <3>1. /\ status = "running" /\ pending # {} /\ status' = status
          /\ affected' = affected \cup AffectedAt(snapshot, now) /\ pending' = pending \ {now}
          /\ snapshot' = snapshot /\ explanation' = explanation
      BY <2>3 DEF Judge
    <3>2. now \in pending
      <4>1. PICK low \in Int : \A t \in CriticalTimes(snapshot) : low <= t
        BY InstantsAreIntegers DEF IInv
      <4>2. pending \in SUBSET Int /\ \A t \in pending : low <= t
        BY <3>1, <4>1, InstantsAreIntegers DEF IInv
      <4> QED BY <3>1, <4>2, LeastInteger
    <3> HIDE DEF now
    <3>3. Judged' = Judged \cup {now}
      BY <3>1, <3>2 DEF Judged, IInv
    <3>4. affected' = UNION {AffectedAt(snapshot, at) : at \in Judged'}
      BY <3>1, <3>3 DEF IInv
    <3> QED BY <3>1, <3>4 DEF IInv
  <2>4. CASE Explain
    <3>1. Judged' = Judged
      BY <2>4 DEF Explain, Judged
    <3> QED BY <2>4, <3>1 DEF Explain, IInv
  <2>5. CASE UNCHANGED vars
    BY <2>5 DEF vars, IInv, Judged
  <2> QED BY <2>1, <2>2, <2>3, <2>4, <2>5 DEF Next
<1> QED BY <1>1, <1>2, PTL DEF Spec

(* What is known of an entry of the result.                                  *)
LEMMA Entries ==
  ASSUME IInv
  PROVE  /\ status \in {"running", "done"} => ~ContainsCycle(snapshot.services)
         /\ snapshot.services \in [Services -> Service]
         /\ \A a \in affected :
              /\ status \in {"running", "done"}
              /\ \E s \in ActiveServices(snapshot) : \E at \in Judged :
                   /\ ~Verdict(snapshot, s, at).reachable
                   /\ a = [service |-> s, at |-> at, path |-> Verdict(snapshot, s, at).path]
<1>1. ASSUME NEW a \in affected
      PROVE  status \in {"running", "done"} /\ \E at \in Judged : a \in AffectedAt(snapshot, at)
  BY <1>1 DEF IInv
<1> QED BY <1>1 DEF IInv, Valid, Snapshot, AffectedAt
-----------------------------------------------------------------------------
(* The result that belongs to a frozen input.                                *)
ResultOf(sn) == UNION {AffectedAt(sn, at) : at \in CriticalTimes(sn)}

(* A finished simulation has the result that its input determines, so that a *)
(* replay of the same input can be compared with the stored result, and the  *)
(* model of the scenario service may name a result by its input              *)
(* (simulator.go:156-199, rollover_scenario_service.go:246-252).             *)
THEOREM ResultDetermined ==
  Spec => /\ [](status = "done" => /\ affected = ResultOf(snapshot)
                                   /\ explanation = Sentences(snapshot, ResultOf(snapshot)))
          /\ [][snapshot' = snapshot]_vars
<1>1. IInv => (status = "done" => /\ affected = ResultOf(snapshot)
                                  /\ explanation = Sentences(snapshot, ResultOf(snapshot)))
  <2> SUFFICES ASSUME IInv, status = "done"
               PROVE  affected = ResultOf(snapshot) /\ explanation = Sentences(snapshot, affected)
    OBVIOUS
  <2>1. Judged = CriticalTimes(snapshot)
    BY DEF IInv, Judged
  <2> QED BY <2>1 DEF IInv, ResultOf
<1>2. [Next]_vars => [snapshot' = snapshot]_vars
  BY DEF Next, Refuse, Start, Judge, Explain
<1> QED BY <1>1, <1>2, Invariant, PTL DEF Spec
-----------------------------------------------------------------------------
(* The result is well formed.  Above all, no broken path is empty or holds   *)
(* anything but services.                                                    *)
THEOREM TypeCorrect == Spec => []TypeOK
<1>1. IInv => TypeOK
  <2> SUFFICES ASSUME IInv PROVE TypeOK
    OBVIOUS
  <2>1. pending \subseteq Int
    BY InstantsAreIntegers DEF IInv
  <2>2. explanation \subseteq {"clear", "failures", "new path too late", "old anchor too early"}
    BY DEF IInv, Sentences
  <2>3. ASSUME NEW a \in affected
        PROVE  a \in [service : Services, at : Int, path : Seq(Services) \ {<<>>}]
    <3>1. PICK s \in ActiveServices(snapshot), at \in Judged :
            /\ ~Verdict(snapshot, s, at).reachable
            /\ a = [service |-> s, at |-> at, path |-> Verdict(snapshot, s, at).path]
      BY Entries
    <3>2. s \in Services /\ at \in Int /\ ~ContainsCycle(snapshot.services) /\ snapshot \in Snapshot
      BY Entries, InstantsAreIntegers DEF ActiveServices, Judged, IInv
    <3>3. Verdict(snapshot, s, at).path \in Paths
      BY <3>1, <3>2, VerdictExplained DEF Explains, Walk
    <3> QED BY <3>1, <3>2, <3>3 DEF Paths
  <2> QED BY <2>1, <2>2, <2>3 DEF TypeOK, IInv
<1> QED BY <1>1, Invariant, PTL

(* The instants judged so far have exactly the failures that the definition  *)
(* of a working service gives.                                               *)
THEOREM VerdictsAlwaysSound == Spec => []VerdictsSound
<1>1. IInv => VerdictsSound
  <2> DEFINE Broken(at) == {<<s, at>> : s \in ActiveServices(snapshot) \ Working(snapshot, at)}
             pairs == {<<a.service, a.at>> : a \in affected}
  <2> SUFFICES ASSUME IInv, status \in {"running", "done"}
               PROVE  pairs = UNION {Broken(at) : at \in Judged}
    BY DEF VerdictsSound, Judged
  <2>1. ASSUME NEW s \in ActiveServices(snapshot), NEW at
        PROVE  Verdict(snapshot, s, at).reachable <=> s \in Working(snapshot, at)
    BY Entries, VerdictIsWorking DEF ActiveServices, IInv
  <2>2. ASSUME NEW pair \in pairs
        PROVE  pair \in UNION {Broken(at) : at \in Judged}
    <3>1. PICK a \in affected : pair = <<a.service, a.at>>
      OBVIOUS
    <3>2. PICK s \in ActiveServices(snapshot), at \in Judged :
            /\ ~Verdict(snapshot, s, at).reachable
            /\ a = [service |-> s, at |-> at, path |-> Verdict(snapshot, s, at).path]
      BY Entries
    <3>3. pair = <<s, at>> /\ s \notin Working(snapshot, at)
      BY <2>1, <3>1, <3>2
    <3>4. pair \in Broken(at)
      BY <3>3
    <3> QED BY <3>4
  <2>3. ASSUME NEW at \in Judged, NEW s \in ActiveServices(snapshot) \ Working(snapshot, at)
        PROVE  <<s, at>> \in pairs
    <3> DEFINE a == [service |-> s, at |-> at, path |-> Verdict(snapshot, s, at).path]
    <3>1. ~Verdict(snapshot, s, at).reachable
      BY <2>1
    <3>2. a \in AffectedAt(snapshot, at)
      BY <3>1 DEF AffectedAt
    <3>3. a \in affected
      BY <3>2 DEF IInv
    <3>4. a.service = s /\ a.at = at
      OBVIOUS
    <3> HIDE DEF a
    <3> QED BY <3>3, <3>4
  <2> QED BY <2>2, <2>3
<1> QED BY <1>1, Invariant, PTL

(* A broken path leads from the affected service, along dependencies and     *)
(* over services with a path of their own, to one that has none.             *)
THEOREM BrokenPathsAlwaysExplain == Spec => []BrokenPathsExplain
<1>1. IInv => BrokenPathsExplain
  <2> SUFFICES ASSUME IInv, NEW a \in affected
               PROVE  LET last   == Len(a.path)
                          direct == Direct(snapshot, a.at) IN
                      /\ a.path[1] = a.service
                      /\ a.path[last] \notin direct
                      /\ \A i \in 1 .. last - 1 : /\ a.path[i] \in direct
                                                  /\ a.path[i + 1] \in snapshot.services[a.path[i]].deps
    BY DEF BrokenPathsExplain
  <2>1. PICK s \in ActiveServices(snapshot), at \in Judged :
          /\ ~Verdict(snapshot, s, at).reachable
          /\ a = [service |-> s, at |-> at, path |-> Verdict(snapshot, s, at).path]
    BY Entries
  <2>2. Explains(snapshot.services, Direct(snapshot, at), s, Verdict(snapshot, s, at).path)
    BY <2>1, Entries, VerdictExplained DEF ActiveServices, IInv
  <2>3. Explains(snapshot.services, Direct(snapshot, a.at), a.service, a.path)
    BY <2>1, <2>2
  <2> QED BY <2>3 DEF Explains, Walk, Last
<1> QED BY <1>1, Invariant, PTL

(* Nothing on a broken path works, and no service is on it twice.            *)
BrokenPathsBlame ==
  \A a \in affected :
    \A i \in 1 .. Len(a.path) :
      /\ a.path[i] \notin Working(snapshot, a.at)
      /\ \A j \in 1 .. i - 1 : a.path[j] # a.path[i]

THEOREM BrokenPathsAlwaysBlame == Spec => []BrokenPathsBlame
<1>1. IInv => BrokenPathsBlame
  <2> SUFFICES ASSUME IInv, NEW a \in affected, NEW i \in 1 .. Len(a.path)
               PROVE  /\ a.path[i] \notin Working(snapshot, a.at)
                      /\ \A j \in 1 .. i - 1 : a.path[j] # a.path[i]
    BY DEF BrokenPathsBlame
  <2>1. PICK s \in ActiveServices(snapshot), at \in Judged :
          /\ ~Verdict(snapshot, s, at).reachable
          /\ a = [service |-> s, at |-> at, path |-> Verdict(snapshot, s, at).path]
    BY Entries
  <2>2. ~ContainsCycle(snapshot.services) /\ snapshot \in Snapshot /\ s \in Services
        /\ snapshot.services \in [Services -> Service]
    BY <2>1, Entries DEF ActiveServices, IInv
  <2>3. Explains(snapshot.services, Direct(snapshot, at), s, a.path)
    BY <2>1, <2>2, VerdictExplained
  <2>4. a.path[i] \notin Working(snapshot, a.at)
    BY <2>1, <2>2, <2>3, ExplanationIsBlame
  <2>5. \A j \in 1 .. i - 1 : a.path[j] # a.path[i]
    BY <2>2, <2>3, WalkIsSimple DEF Explains
  <2> QED BY <2>4, <2>5
<1> QED BY <1>1, Invariant, PTL

(* A round adds an entry for every active service that is not reachable.     *)
LEMMA RoundFinds ==
  ASSUME NEW sn, NEW at, AffectedAt(sn, at) = {}
  PROVE  \A s \in ActiveServices(sn) : Verdict(sn, s, at).reachable
<1> HIDE DEF Verdict, ActiveServices
<1>1. ASSUME NEW s \in ActiveServices(sn), ~Verdict(sn, s, at).reachable PROVE FALSE
  <2>1. [service |-> s, at |-> at, path |-> Verdict(sn, s, at).path] \in AffectedAt(sn, at)
    BY <1>1 DEF AffectedAt
  <2> QED BY <2>1
<1> QED BY <1>1

LEMMA ClearOnlyIfNone ==
  ASSUME NEW sn, NEW found, "clear" \in Sentences(sn, found)
  PROVE  found = {}
<1> SUFFICES ASSUME found # {} PROVE FALSE
  OBVIOUS
<1>1. Sentences(sn, found) \subseteq {"failures", "new path too late", "old anchor too early"}
  BY DEF Sentences
<1> QED BY <1>1

(* If the explanation says that all paths remain reachable and no chain      *)
(* changes between the fixed instants, every active service is reachable at  *)
(* every instant from a minute before the window to a minute after it.       *)
THEOREM ClearAlways == Spec => []ClearMeansClear
<1>1. IInv => ClearMeansClear
  <2> SUFFICES ASSUME IInv, "clear" \in explanation, Quiet(snapshot),
                      NEW at \in snapshot.start - Minute .. snapshot.end + Minute,
                      NEW s \in ActiveServices(snapshot)
               PROVE  Verdict(snapshot, s, at).reachable
    BY DEF ClearMeansClear
  <2>1. status = "done" /\ pending = {} /\ explanation = Sentences(snapshot, affected) /\ Valid(snapshot)
    BY DEF IInv
  <2>2. affected = {}
    BY <2>1, ClearOnlyIfNone
  <2>3. PICK p \in CriticalTimes(snapshot) : Direct(snapshot, at) = Direct(snapshot, p)
    BY <2>1, Representative DEF IInv
  <2>4. AffectedAt(snapshot, p) = {}
    BY <2>1, <2>2, <2>3 DEF IInv, Judged
  <2>5. Verdict(snapshot, s, p).reachable
    BY <2>4, RoundFinds
  <2>6. Verdict(snapshot, s, at) = Verdict(snapshot, s, p)
    BY <2>3 DEF Verdict
  <2> QED BY <2>5, <2>6
<1> QED BY <1>1, Invariant, PTL

(* The same without the search: at each of these instants every active       *)
(* service works.                                                            *)
ClearMeansWorking ==
  "clear" \in explanation /\ Quiet(snapshot) =>
    \A at \in snapshot.start - Minute .. snapshot.end + Minute :
      ActiveServices(snapshot) \subseteq Working(snapshot, at)

THEOREM ClearAlwaysWorks == Spec => []ClearMeansWorking
<1>1. IInv /\ ClearMeansClear => ClearMeansWorking
  <2> SUFFICES ASSUME IInv, ClearMeansClear, "clear" \in explanation, Quiet(snapshot),
                      NEW at \in snapshot.start - Minute .. snapshot.end + Minute,
                      NEW s \in ActiveServices(snapshot)
               PROVE  s \in Working(snapshot, at)
    BY DEF ClearMeansWorking
  <2>1. ~ContainsCycle(snapshot.services) /\ snapshot \in Snapshot /\ s \in Services
    BY Entries DEF IInv, ActiveServices
  <2>2. Verdict(snapshot, s, at).reachable
    BY DEF ClearMeansClear
  <2> QED BY <2>1, <2>2, VerdictIsWorking
<1> QED BY <1>1, Invariant, ClearAlways, PTL
=============================================================================
