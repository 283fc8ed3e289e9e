---------------------------- MODULE CycleSearch ----------------------------
(* The depth-first search for cycles, of which the program has two copies:   *)
(* servicesContainCycle (service/common.go) guards every write of the        *)
(* registry and every freeze, and also refuses an edge to a service that     *)
(* does not exist; detectCycle (algorithm/simulator.go) guards a simulation  *)
(* and takes such a service for one without dependencies.                    *)
(*                                                                           *)
(* The recursion is a stack of calls.  The roots come in the order of a Go   *)
(* map, that is in any order; so do here the dependencies of a service,      *)
(* whose order the properties cannot tell.                                   *)
EXTENDS DependencyGraph, Naturals, Sequences

CONSTANT Graphs   \* the graphs considered

IsGraph(g) == DOMAIN g \subseteq Services /\ g \in [DOMAIN g -> SUBSET Services]

ASSUME GraphAssumption == \A g \in Graphs : IsGraph(g)

VARIABLES graph,      \* edges
          strict,     \* whether an edge to nowhere is refused: the registry's copy
          roots,      \* keys of edges that the outer loop has not visited
          state,      \* 0: not met, 1: being visited, 2: finished
          stack,      \* the calls of visit, each with the edges it has left
          result      \* "none" until visit or the outer loop returns for good

searchVars == <<graph, strict, roots, state, stack, result>>

Frame(ids) == [service : ids, left : SUBSET Services]

(* A key that is missing from a Go map has the empty list.                   *)
Edges(s) == IF s \in DOMAIN graph THEN graph[s] ELSE {}

SearchInit == /\ graph \in Graphs /\ strict \in BOOLEAN
              /\ roots = DOMAIN graph
              /\ state = [s \in Services |-> 0]
              /\ stack = <<>>
              /\ result = "none"

(* Mutants: one finds a cycle wherever it meets a service again, the other   *)
(* only stops at finished ones.                                              *)
VisitOnce(s, callers) ==
  \/ /\ state[s] # 0 /\ result' = "cycle" /\ stack' = callers
     /\ UNCHANGED state
  \/ /\ state[s] = 0
     /\ state' = [state EXCEPT ![s] = 1]
     /\ stack' = Append(callers, [service |-> s, left |-> Edges(s)])
     /\ UNCHANGED result

VisitUnfinished(s, callers) ==
  \/ /\ state[s] = 2 /\ stack' = callers
     /\ UNCHANGED <<state, result>>
  \/ /\ state[s] # 2
     /\ state' = [state EXCEPT ![s] = 1]
     /\ stack' = Append(callers, [service |-> s, left |-> Edges(s)])
     /\ UNCHANGED result

(* The beginning of visit(s), up to its loop over the edges.                 *)
Visit(s, callers) ==
  \/ /\ state[s] = 1 /\ result' = "cycle" /\ stack' = callers
     /\ UNCHANGED state
  \/ /\ state[s] = 2 /\ stack' = callers
     /\ UNCHANGED <<state, result>>
  \/ /\ state[s] = 0
     /\ state' = [state EXCEPT ![s] = 1]
     /\ stack' = Append(callers, [service |-> s, left |-> Edges(s)])
     /\ UNCHANGED result

(* The outer loop.                                                           *)
VisitRoot == /\ result = "none" /\ stack = <<>>
             /\ \E s \in roots : roots' = roots \ {s} /\ Visit(s, stack)
             /\ UNCHANGED <<graph, strict>>

Top == stack[Len(stack)]

Followed(s) == [stack EXCEPT ![Len(stack)].left = @ \ {s}]

(* Mutant: the edge is followed without looking whether its end exists.      *)
FollowBlindly == /\ result = "none" /\ stack # <<>>
                 /\ \E s \in Top.left : Visit(s, Followed(s))
                 /\ UNCHANGED <<graph, strict, roots>>

(* One round of the loop over the edges.                                     *)
Follow == /\ result = "none" /\ stack # <<>>
          /\ \E s \in Top.left :
               \/ /\ strict /\ s \notin DOMAIN graph
                  /\ result' = "dangling"
                  /\ UNCHANGED <<state, stack>>
               \/ (strict => s \in DOMAIN graph) /\ Visit(s, Followed(s))
          /\ UNCHANGED <<graph, strict, roots>>

(* Mutant: a service is forgotten when its visit ends.                       *)
LeaveUnmet == /\ result = "none" /\ stack # <<>> /\ Top.left = {}
              /\ state' = [state EXCEPT ![Top.service] = 0]
              /\ stack' = SubSeq(stack, 1, Len(stack) - 1)
              /\ UNCHANGED <<graph, strict, roots, result>>

Leave == /\ result = "none" /\ stack # <<>> /\ Top.left = {}
         /\ state' = [state EXCEPT ![Top.service] = 2]
         /\ stack' = SubSeq(stack, 1, Len(stack) - 1)
         /\ UNCHANGED <<graph, strict, roots, result>>

Accept == /\ result = "none" /\ stack = <<>> /\ roots = {}
          /\ result' = "accepted"
          /\ UNCHANGED <<graph, strict, roots, state, stack>>

SearchNext == VisitRoot \/ Follow \/ Leave \/ Accept

SearchSpec == SearchInit /\ [][SearchNext]_searchVars
-----------------------------------------------------------------------------
(* Type invariant.  The registry's copy only ever visits services of the     *)
(* table; the simulator's visits whatever is named.                          *)
SearchTypeOK ==
  /\ IsGraph(graph)
  /\ strict \in BOOLEAN
  /\ roots \subseteq DOMAIN graph
  /\ state \in [Services -> 0 .. 2]
  /\ stack \in Seq(Frame(IF strict THEN DOMAIN graph ELSE Services))
  /\ result \in {"none", "accepted", "cycle", "dangling"}

(* The search answers as the definitions say that stand for it elsewhere     *)
(* (DependentServices!ContainsCycle, Simulator!ContainsCycle), whatever the  *)
(* order of the roots: it accepts a graph without cycles, and for the        *)
(* registry without dangling edges (common.go:80-82), and no other, and it   *)
(* gives the right reason.                                                   *)
VerdictRight ==
  result # "none" =>
    /\ result = "accepted" <=> ~HasLoop(graph) /\ ~(strict /\ Dangling(graph))
    /\ result = "cycle" => HasLoop(graph)
    /\ result = "dangling" => strict /\ Dangling(graph)

(* The calls that are open form a path of the graph on which no service is   *)
(* met twice, so that the recursion is never deeper than there are services  *)
(* (common.go:71-85, simulator.go:324-337).                                  *)
StackIsPath ==
  /\ \A i, j \in 1 .. Len(stack) : stack[i].service = stack[j].service => i = j
  /\ \A i \in 1 .. Len(stack) - 1 : stack[i + 1].service \in Edges(stack[i].service)

Unmet == {s \in Services : state[s] = 0}

(* What the innermost loop has left: of edges, or of roots.                  *)
Left == IF stack = <<>> THEN roots ELSE Top.left

(* The search ends: until it has its result each step meets a service for    *)
(* the first time, or else returns from a call, or else leaves the innermost *)
(* loop with less to do; no step undoes what comes earlier in this list.  No *)
(* edge is followed twice, although a service may be met many times.         *)
Descends ==
  [][\/ result' # "none"
     \/ Unmet' \subseteq Unmet /\ Unmet' # Unmet
     \/ Unmet' = Unmet /\ Len(stack') < Len(stack)
     \/ Unmet' = Unmet /\ Len(stack') = Len(stack) /\ Left' \subseteq Left /\ Left' # Left]_searchVars
============================================================================
