----------------------------- MODULE MCSimulator -----------------------------
(* Two families of small frozen inputs, over a window from 4 to 8 with a     *)
(* minute of 2 ticks.  The services of each are first searched for cycles,   *)
(* and the simulation begins when the search has its verdict.                *)
(*                                                                           *)
(* The search is also run by itself, in both of its copies, on every table   *)
(* of some of the services that depend on any of them, themselves included.  *)
EXTENDS Simulator, CycleSearch

CONSTANTS old, new, x, y, own, other

Window(at, candidates, page, chains, services) ==
  [old |-> old, new |-> new, start |-> 4, end |-> 8, at |-> at, candidates |-> candidates,
   page |-> page, chains |-> chains, services |-> services]

Lasting(anchor) == [anchor |-> anchor, subject |-> x, from |-> 0, to |-> 20,
                    state |-> "validated", valid |-> TRUE]

(* One service, one chain of its own and one candidate, with every mix of    *)
(* anchors, identities, validity windows and states.                         *)
Spans == {<<0, 20>>, <<0, 3>>, <<0, 5>>, <<0, 6>>, <<0, 8>>, <<0, 10>>,
          <<3, 20>>, <<4, 20>>, <<7, 20>>, <<8, 20>>, <<9, 20>>, <<10, 20>>}

ChainShapes ==
  {[Lasting(a) EXCEPT !.subject = u, !.from = w[1], !.to = w[2]] :
     a \in Anchors, u \in Subjects, w \in Spans}
  \cup {[Lasting(a) EXCEPT !.state = t, !.valid = v] :
          a \in Anchors, t \in {"validated", "deprecated", "revoked"}, v \in BOOLEAN}

Alone(trust) ==
  [s \in Services |-> [chain |-> own, trust |-> trust, deps |-> {}, active |-> s = 1]]

Lifetimes ==
  {Window(at, {other}, Chains, [c \in Chains |-> IF c = own THEN first ELSE second], Alone(trust)) :
     at \in {1, 7}, first \in ChainShapes, second \in ChainShapes, trust \in {{old}, Anchors}}

(* Every graph of three services of four kinds: always reachable, reachable  *)
(* until the old anchor goes, inactive, or with a chain that was not read.   *)
Kinds == {[chain |-> own, trust |-> Anchors, active |-> TRUE],
          [chain |-> own, trust |-> {old}, active |-> TRUE],
          [chain |-> own, trust |-> Anchors, active |-> FALSE],
          [chain |-> other, trust |-> Anchors, active |-> TRUE]}

Wired(kinds, edges) ==
  [s \in Services |-> [chain |-> kinds[s].chain, trust |-> kinds[s].trust,
                       deps |-> edges[s], active |-> kinds[s].active]]

(* All chains of one such input hang on the same anchor.                     *)
Wirings ==
  {Window(6, {own}, {own}, [c \in Chains |-> Lasting(a)], Wired(kinds, edges)) :
     a \in Anchors, kinds \in [Services -> Kinds], edges \in [Services -> SUBSET Services]}

SnapshotsGiven == Lifetimes \cup {sn \in Wirings : \A s \in Services : s \notin sn.services[s].deps}
-----------------------------------------------------------------------------
AllGraphs == UNION {[table -> SUBSET Services] : table \in SUBSET Services}

GraphOf(services) == [s \in Services |-> services[s].deps]

VARIABLE instance   \* "simulation", or "search" alone

MCInit ==
  \/ /\ instance = "simulation"
     /\ Init
     /\ graph = GraphOf(snapshot.services) /\ strict = FALSE
     /\ SearchInit
  \/ /\ instance = "search"
     /\ snapshot = CHOOSE sn \in Snapshots : TRUE
     /\ Init /\ SearchInit

MCNext ==
  /\ \/ SearchNext /\ UNCHANGED vars
     \/ instance = "simulation" /\ result # "none" /\ Next /\ UNCHANGED searchVars
  /\ UNCHANGED instance

MCSpec == MCInit /\ [][MCNext]_<<vars, searchVars, instance>>
============================================================================
