------------------------- MODULE CycleSearchProofs -------------------------
(* Proofs about the search for cycles: on every graph and in every order of  *)
(* its roots it gives the answer of the definition that the models of the    *)
(* registry and of the simulator use in its place.                           *)
EXTENDS CycleSearch, SequenceTheorems, TLAPS

(* The stacks the recursion may be in.                                       *)
Stacks == Seq(Frame(IF strict THEN DOMAIN graph ELSE Services))

(* What the colours mean while the search runs.  A service is being visited  *)
(* while its call is open.  Of its edges, those it has left behind lead to   *)
(* finished services or into the next call.                                  *)
Open ==
  /\ \A s \in Services : state[s] = 1 <=> \E i \in 1 .. Len(stack) : stack[i].service = s
  /\ \A i \in 1 .. Len(stack) :
       /\ stack[i].left \subseteq Edges(stack[i].service)
       /\ \A t \in Edges(stack[i].service) \ stack[i].left :
            state[t] = 2 \/ (i < Len(stack) /\ t = stack[i + 1].service)

(* Nothing leads out of the finished services, and there is no cycle among   *)
(* them.                                                                     *)
Finished ==
  /\ \A s \in Services : state[s] = 2 => \A t \in Edges(s) : state[t] = 2
  /\ \A loop \in SUBSET Services :
       loop # {} /\ (\A s \in loop : state[s] = 2) => \E s \in loop : Edges(s) \cap loop = {}

(* The outer loop has met every root it took, and the registry's search has  *)
(* met nothing that does not exist.                                          *)
Met ==
  /\ \A s \in DOMAIN graph \ roots : state[s] # 0
  /\ strict => \A s \in Services : state[s] # 0 => s \in DOMAIN graph

IInv ==
  /\ SearchTypeOK
  /\ StackIsPath
  /\ VerdictRight
  /\ result = "none" => Open /\ Finished /\ Met
-----------------------------------------------------------------------------
(* Edges lead to services.                                                   *)
LEMMA EdgesAreServices == ASSUME SearchTypeOK, NEW s PROVE Edges(s) \subseteq Services
BY DEF SearchTypeOK, IsGraph, Edges

(* A service of the table is one of the services.                            *)
LEMMA TableOfServices == ASSUME SearchTypeOK PROVE DOMAIN graph \subseteq Services
BY DEF SearchTypeOK, IsGraph

(* A frame names a service.                                                  *)
LEMMA FramesOfServices ==
  ASSUME SearchTypeOK, NEW i \in 1 .. Len(stack)
  PROVE  /\ stack[i].service \in Services
         /\ strict => stack[i].service \in DOMAIN graph
         /\ stack[i].left \subseteq Services
<1> DEFINE S == IF strict THEN DOMAIN graph ELSE Services
<1>1. stack \in Seq(Frame(S)) /\ S \subseteq Services BY TableOfServices DEF SearchTypeOK
<1> HIDE DEF S
<1>2. stack[i] \in Frame(S) BY <1>1
<1>3. stack[i].service \in S /\ stack[i].left \subseteq Services BY <1>2 DEF Frame
<1> QED BY <1>1, <1>3 DEF S

(* The initial state satisfies the invariant.                                *)
LEMMA Initially == SearchInit => IInv
<1> SUFFICES ASSUME SearchInit PROVE IInv OBVIOUS
<1>1. SearchTypeOK BY GraphAssumption DEF SearchInit, SearchTypeOK
<1>2. StackIsPath BY DEF SearchInit, StackIsPath
<1>3. VerdictRight BY DEF SearchInit, VerdictRight
<1>4. Open /\ Finished /\ Met BY DEF SearchInit, Open, Finished, Met
<1> QED BY <1>1, <1>2, <1>3, <1>4 DEF IInv

(* A service that is being visited and met again closes a cycle: the calls   *)
(* from its own on.                                                          *)
LEMMA MetOnStack ==
  ASSUME SearchTypeOK, StackIsPath, Open, stack # <<>>,
         NEW s \in Edges(Top.service), s \in Services, state[s] = 1
  PROVE  HasLoop(graph)
<1> DEFINE n == Len(stack)
           svc(i) == stack[i].service
<1>1. n \in Nat \ {0} /\ stack \in Stacks BY DEF SearchTypeOK, Stacks
<1>2. PICK k \in 1 .. n : svc(k) = s BY DEF Open
<1> DEFINE loop == {svc(i) : i \in k .. n}
<1>3. \A i \in k .. n : Edges(svc(i)) \cap loop # {}
  <2> SUFFICES ASSUME NEW i \in k .. n PROVE Edges(svc(i)) \cap loop # {} OBVIOUS
  <2>1. CASE i = n
    BY <2>1, <1>1, <1>2 DEF Top
  <2>2. CASE i # n
    <3>1. i \in 1 .. n - 1 /\ i + 1 \in k .. n BY <2>2, <1>1, <1>2
    <3>2. svc(i + 1) \in Edges(svc(i)) BY <3>1 DEF StackIsPath
    <3> QED BY <3>1, <3>2
  <2> QED BY <2>1, <2>2
<1>4. \A t \in loop : t \in DOMAIN graph /\ graph[t] \cap loop # {}
  BY <1>3 DEF Edges
<1>5. loop # {} BY <1>1, <1>2
<1> HIDE DEF loop
<1> QED BY <1>4, <1>5 DEF HasLoop

-----------------------------------------------------------------------------
(* The call of visit, from the outer loop or from an open call that has just *)
(* taken the edge to s.                                                      *)
LEMMA VisitKeeps ==
  ASSUME IInv, result = "none", NEW s \in Services, NEW callers \in Stacks,
         Len(callers) = Len(stack),
         \A i \in 1 .. Len(stack) : /\ callers[i].service = stack[i].service
                                    /\ callers[i].left \subseteq stack[i].left,
         \A i \in 1 .. Len(stack) - 1 : callers[i].left = stack[i].left,
         stack # <<>> => /\ s \in Edges(Top.service)
                         /\ Top.left \ callers[Len(stack)].left \subseteq {s},
         strict => s \in DOMAIN graph,
         Visit(s, callers),
         roots' \subseteq DOMAIN graph, roots \subseteq roots' \cup {s},
         UNCHANGED <<graph, strict>>
  PROVE  IInv'
<1> DEFINE n == Len(stack)
<1>1. SearchTypeOK /\ StackIsPath /\ Open /\ Finished /\ Met BY DEF IInv
<1>2. n \in Nat /\ stack \in Stacks /\ callers \in Stacks BY <1>1 DEF SearchTypeOK, Stacks
<1>3. /\ \A t : Edges(t)' = Edges(t)
      /\ Stacks' = Stacks
      /\ HasLoop(graph)' <=> HasLoop(graph)
  BY DEF Edges, Stacks, HasLoop
<1>4. CASE state[s] = 1
  <2>1. result' = "cycle" /\ stack' = callers /\ state' = state BY <1>4, <1>1 DEF Visit, SearchTypeOK
  <2>2. stack # <<>> BY <1>4, <1>1 DEF Open
  <2>3. HasLoop(graph)' BY <2>2, <1>1, <1>3, <1>4, MetOnStack
  <2>4. SearchTypeOK' BY <2>1, <1>1, <1>2, <1>3 DEF SearchTypeOK, IsGraph, Stacks
  <2>5. StackIsPath' BY <2>1, <1>1, <1>2, <1>3 DEF StackIsPath
  <2>6. VerdictRight' BY <2>1, <2>3 DEF VerdictRight
  <2> QED BY <2>1, <2>4, <2>5, <2>6 DEF IInv
<1>5. CASE state[s] = 2
  <2>1. result' = result /\ stack' = callers /\ state' = state BY <1>5, <1>1 DEF Visit, SearchTypeOK
  <2>2. SearchTypeOK' BY <2>1, <1>1, <1>2, <1>3 DEF SearchTypeOK, IsGraph, Stacks
  <2>3. StackIsPath' BY <2>1, <1>1, <1>2, <1>3 DEF StackIsPath
  <2>4. VerdictRight' BY <2>1 DEF VerdictRight
  <2>5. Open'
    <3>1. \A t \in Services : state'[t] = 1 <=> \E i \in 1 .. Len(stack') : stack'[i].service = t
      BY <2>1, <1>1, <1>2 DEF Open
    <3>2. SUFFICES ASSUME NEW i \in 1 .. n
                   PROVE  /\ callers[i].left \subseteq Edges(stack[i].service)
                          /\ \A t \in Edges(stack[i].service) \ callers[i].left :
                               state[t] = 2 \/ (i < n /\ t = callers[i + 1].service)
      BY <3>1, <2>1, <1>3 DEF Open
    <3>3. callers[i].left \subseteq Edges(stack[i].service) BY <1>1 DEF Open
    <3>4. CASE i < n
      <4>1. callers[i].left = stack[i].left /\ callers[i + 1].service = stack[i + 1].service
        BY <3>4, <1>2
      <4> QED BY <4>1, <3>3, <3>4, <1>1 DEF Open
    <3>5. CASE i = n
      <4>1. \A t \in Edges(stack[i].service) \ stack[i].left : state[t] = 2
        BY <3>5, <1>1, <1>2 DEF Open
      <4>2. stack[i].left \ callers[i].left \subseteq {s} BY <3>5, <1>2 DEF Top
      <4> QED BY <4>1, <4>2, <3>3, <1>5
    <3> QED BY <3>4, <3>5, <1>2
  <2>6. Finished' BY <2>1, <1>1, <1>3 DEF Finished
  <2>7. Met' BY <2>1, <1>1, <1>5 DEF Met
  <2> QED BY <2>1, <2>2, <2>3, <2>4, <2>5, <2>6, <2>7 DEF IInv
<1>6. CASE state[s] = 0
  <2> DEFINE f == [service |-> s, left |-> Edges(s)]
  <2>1. result' = result /\ stack' = Append(callers, f) /\ state' = [state EXCEPT ![s] = 1]
    BY <1>6, <1>1 DEF Visit, SearchTypeOK
  <2>2. /\ Len(stack') = n + 1 /\ stack'[n + 1] = f
        /\ \A i \in 1 .. n : stack'[i] = callers[i]
    BY <2>1, <1>2 DEF Stacks
  <2>3. /\ state'[s] = 1 /\ \A t \in Services : t # s => state'[t] = state[t]
        /\ state' \in [Services -> 0 .. 2]
    BY <2>1, <1>1 DEF SearchTypeOK
  <2>4. SearchTypeOK'
    <3>1. f \in Frame(IF strict THEN DOMAIN graph ELSE Services)
      BY <1>1, EdgesAreServices DEF Frame
    <3>2. stack' \in Stacks BY <3>1, <2>1, <1>2 DEF Stacks
    <3> QED BY <3>2, <2>1, <2>3, <1>1 DEF SearchTypeOK, IsGraph, Stacks
  <2>5. \A i \in 1 .. n : stack[i].service # s BY <1>6, <1>1 DEF Open
  <2>6. StackIsPath'
    <3>1. ASSUME NEW i \in 1 .. n + 1, NEW j \in 1 .. n + 1,
                 stack'[i].service = stack'[j].service
          PROVE  i = j
      <4>1. CASE i \in 1 .. n /\ j \in 1 .. n BY <4>1, <3>1, <2>2, <1>1 DEF StackIsPath
      <4>2. \A k \in 1 .. n : stack'[k].service # s BY <2>2, <2>5
      <4>3. stack'[n + 1].service = s BY <2>2
      <4>4. (i \in 1 .. n \/ i = n + 1) /\ (j \in 1 .. n \/ j = n + 1) BY <1>2
      <4>5. CASE i = n + 1 /\ j \in 1 .. n BY <4>2, <4>3, <4>5, <3>1
      <4>6. CASE i \in 1 .. n /\ j = n + 1 BY <4>2, <4>3, <4>6, <3>1
      <4> QED BY <4>1, <4>4, <4>5, <4>6
    <3>2. ASSUME NEW i \in 1 .. n
          PROVE  stack'[i + 1].service \in Edges(stack'[i].service)
      <4>1. CASE i < n
        <5>1. i \in 1 .. n - 1 /\ i + 1 \in 1 .. n BY <4>1, <1>2
        <5> QED BY <5>1, <2>2, <1>1 DEF StackIsPath
      <4>2. CASE i = n BY <4>2, <2>2, <1>2 DEF Top
      <4> QED BY <4>1, <4>2, <1>2
    <3> QED BY <3>1, <3>2, <2>2, <1>2, <1>3 DEF StackIsPath
  <2>7. VerdictRight' BY <2>1 DEF VerdictRight
  <2>8. Open'
    <3>1. ASSUME NEW t \in Services
          PROVE  state'[t] = 1 <=> \E i \in 1 .. n + 1 : stack'[i].service = t
      <4>1. CASE t = s BY <4>1, <2>2, <2>3, <1>2
      <4>2. CASE t # s
        <5>1. state[t] = 1 <=> \E i \in 1 .. n : stack[i].service = t BY <1>1 DEF Open
        <5>2. \A i \in 1 .. n + 1 : i # n + 1 => i \in 1 .. n BY <1>2
        <5>3. \A i \in 1 .. n : i \in 1 .. n + 1 BY <1>2
        <5> QED BY <5>1, <5>2, <5>3, <4>2, <2>2, <2>3
      <4> QED BY <4>1, <4>2
    <3>2. ASSUME NEW i \in 1 .. n + 1
          PROVE  /\ stack'[i].left \subseteq Edges(stack'[i].service)
                 /\ \A t \in Edges(stack'[i].service) \ stack'[i].left :
                      state'[t] = 2 \/ (i < n + 1 /\ t = stack'[i + 1].service)
      <4>1. CASE i = n + 1 BY <4>1, <2>2
      <4>2. CASE i \in 1 .. n
        <5>1. stack'[i] = callers[i] /\ callers[i].service = stack[i].service BY <4>2, <2>2
        <5>2. callers[i].left \subseteq Edges(stack[i].service) BY <4>2, <1>1 DEF Open
        <5>3. ASSUME NEW t \in Edges(stack[i].service) \ stack[i].left
              PROVE  state'[t] = 2 \/ (i < n /\ t = stack[i + 1].service)
          <6>1. state[t] = 2 \/ (i < n /\ t = stack[i + 1].service) BY <5>3, <4>2, <1>1 DEF Open
          <6>2. t \in Services BY <5>3, <1>1, EdgesAreServices
          <6> QED BY <6>1, <6>2, <2>3, <1>6
        <5>4. CASE i < n
          <6>1. callers[i].left = stack[i].left /\ stack'[i + 1].service = stack[i + 1].service
            BY <5>4, <4>2, <2>2, <1>2
          <6> QED BY <6>1, <5>1, <5>2, <5>3, <5>4, <1>2
        <5>5. CASE i = n
          <6>1. stack[i].left \ callers[i].left \subseteq {s} BY <5>5, <4>2, <1>2 DEF Top
          <6>2. stack'[i + 1].service = s /\ i < n + 1 BY <5>5, <2>2, <1>2
          <6>3. ~(i < n) BY <5>5, <1>2
          <6> QED BY <6>1, <6>2, <6>3, <5>1, <5>2, <5>3
        <5> QED BY <5>4, <5>5, <4>2, <1>2
      <4> QED BY <4>1, <4>2, <1>2
    <3> QED BY <3>1, <3>2, <2>2, <1>3 DEF Open
  <2>9. Finished'
    <3>1. \A t \in Services : state'[t] = 2 <=> state[t] = 2 BY <2>3, <1>6
    <3>2. \A t \in Services : Edges(t) \subseteq Services BY <1>1, EdgesAreServices
    <3>3. ASSUME NEW t \in Services, state'[t] = 2 PROVE \A u \in Edges(t) : state'[u] = 2
      BY <3>1, <3>2, <3>3, <1>1 DEF Finished
    <3>4. ASSUME NEW loop \in SUBSET Services, loop # {}, \A t \in loop : state'[t] = 2
          PROVE  \E t \in loop : Edges(t) \cap loop = {}
      BY <3>1, <3>4, <1>1 DEF Finished
    <3> QED BY <3>3, <3>4, <1>3 DEF Finished
  <2>10. Met'
    <3>1. \A t \in Services : state[t] # 0 => state'[t] # 0 BY <2>3
    <3>2. DOMAIN graph \subseteq Services BY <1>1, TableOfServices
    <3>3. \A t \in DOMAIN graph \ roots' : state'[t] # 0
      BY <3>1, <3>2, <2>3, <1>1 DEF Met
    <3>4. strict => \A t \in Services : state'[t] # 0 => t \in DOMAIN graph
      BY <2>3, <1>1 DEF Met
    <3> QED BY <3>3, <3>4 DEF Met
  <2> QED BY <2>1, <2>4, <2>6, <2>7, <2>8, <2>9, <2>10 DEF IInv
<1>7. state[s] \in 0 .. 2 BY <1>1 DEF SearchTypeOK
<1> QED BY <1>4, <1>5, <1>6, <1>7

(* Each root opens a call on an empty stack.                                 *)
LEMMA RootKeeps == ASSUME IInv, VisitRoot PROVE IInv'
<1>1. PICK s \in roots : roots' = roots \ {s} /\ Visit(s, stack) BY DEF VisitRoot
<1>2. SearchTypeOK BY DEF IInv
<1>3. s \in DOMAIN graph /\ s \in Services BY <1>2, TableOfServices DEF SearchTypeOK
<1>4. stack \in Stacks /\ stack = <<>> /\ result = "none" /\ UNCHANGED <<graph, strict>>
  BY <1>2 DEF SearchTypeOK, Stacks, VisitRoot
<1>5. roots' \subseteq DOMAIN graph /\ roots \subseteq roots' \cup {s} BY <1>1, <1>2 DEF SearchTypeOK
<1> QED BY <1>1, <1>3, <1>4, <1>5, VisitKeeps

(* A frame with one field replaced.                                          *)
LEMMA FrameExcept ==
  ASSUME NEW ids, NEW f \in Frame(ids), NEW left
  PROVE  [f EXCEPT !.left = left] = [service |-> f.service, left |-> left]
BY DEF Frame

(* The calls after one edge of the innermost has been taken.                 *)
LEMMA FollowedStack ==
  ASSUME SearchTypeOK, stack # <<>>, NEW s \in Top.left
  PROVE  /\ Followed(s) \in Stacks
         /\ Len(Followed(s)) = Len(stack)
         /\ \A i \in 1 .. Len(stack) : /\ Followed(s)[i].service = stack[i].service
                                       /\ Followed(s)[i].left \subseteq stack[i].left
         /\ \A i \in 1 .. Len(stack) - 1 : Followed(s)[i].left = stack[i].left
         /\ Followed(s)[Len(stack)].left = Top.left \ {s}
<1> DEFINE n == Len(stack)
           g == [service |-> Top.service, left |-> Top.left \ {s}]
<1>1. n \in Nat \ {0} /\ stack \in Stacks /\ n \in 1 .. n BY DEF SearchTypeOK, Stacks
<1>2. Top \in Frame(IF strict THEN DOMAIN graph ELSE Services) BY <1>1 DEF Top, Stacks
<1>3. g \in Frame(IF strict THEN DOMAIN graph ELSE Services) BY <1>2 DEF Frame
<1>4. [Top EXCEPT !.left = Top.left \ {s}] = g BY <1>2, FrameExcept
<1>5. Followed(s) = [stack EXCEPT ![n] = g] BY <1>1, <1>4 DEF Followed, Top
<1>6. Followed(s) \in Stacks /\ Len(Followed(s)) = n BY <1>1, <1>3, <1>5 DEF Stacks
<1>7. \A i \in 1 .. n : Followed(s)[i] = IF i = n THEN g ELSE stack[i] BY <1>1, <1>5 DEF Stacks
<1> QED BY <1>1, <1>6, <1>7 DEF Top

(* An edge to nowhere ends the registry's search, any other opens a call.    *)
LEMMA FollowKeeps == ASSUME IInv, Follow PROVE IInv'
<1>1. SearchTypeOK /\ StackIsPath /\ Open /\ result = "none" /\ stack # <<>> BY DEF IInv, Follow
<1>2. PICK s \in Top.left :
        \/ strict /\ s \notin DOMAIN graph /\ result' = "dangling" /\ UNCHANGED <<state, stack>>
        \/ (strict => s \in DOMAIN graph) /\ Visit(s, Followed(s))
  BY DEF Follow
<1>3. UNCHANGED <<graph, strict, roots>> BY DEF Follow
<1>4. Len(stack) \in 1 .. Len(stack) BY <1>1 DEF SearchTypeOK
<1>5. s \in Edges(Top.service) /\ s \in Services
  BY <1>1, <1>4, FramesOfServices DEF Open, Top
<1>6. CASE strict /\ s \notin DOMAIN graph /\ result' = "dangling" /\ UNCHANGED <<state, stack>>
  <2>1. Dangling(graph)' BY <1>3, <1>5, <1>6 DEF Dangling, Edges
  <2>2. VerdictRight' BY <2>1, <1>3, <1>6 DEF VerdictRight
  <2>3. SearchTypeOK' BY <1>1, <1>3, <1>6 DEF SearchTypeOK, IsGraph
  <2>4. StackIsPath' BY <1>1, <1>3, <1>6 DEF StackIsPath, Edges
  <2> QED BY <2>2, <2>3, <2>4, <1>6 DEF IInv
<1>7. CASE (strict => s \in DOMAIN graph) /\ Visit(s, Followed(s))
  <2>1. roots' \subseteq DOMAIN graph /\ roots \subseteq roots' \cup {s} BY <1>1, <1>3 DEF SearchTypeOK
  <2> DEFINE callers == Followed(s)
  <2>2. /\ callers \in Stacks /\ Len(callers) = Len(stack)
        /\ \A i \in 1 .. Len(stack) : /\ callers[i].service = stack[i].service
                                      /\ callers[i].left \subseteq stack[i].left
        /\ \A i \in 1 .. Len(stack) - 1 : callers[i].left = stack[i].left
        /\ Top.left \ callers[Len(stack)].left \subseteq {s}
    BY <1>1, <1>2, FollowedStack
  <2>3. Visit(s, callers) BY <1>7
  <2> HIDE DEF callers
  <2> QED BY <2>1, <2>2, <2>3, <1>1, <1>3, <1>5, <1>7, VisitKeeps
<1> QED BY <1>2, <1>6, <1>7

(* A stack without its top.                                                  *)
LEMMA Popped ==
  ASSUME NEW F, NEW calls \in Seq(F), calls # <<>>
  PROVE  /\ SubSeq(calls, 1, Len(calls) - 1) \in Seq(F)
         /\ Len(SubSeq(calls, 1, Len(calls) - 1)) = Len(calls) - 1
         /\ \A i \in 1 .. Len(calls) - 1 : SubSeq(calls, 1, Len(calls) - 1)[i] = calls[i]
<1>1. Len(calls) \in Nat \ {0} OBVIOUS
<1> DEFINE m == Len(calls) - 1
           rest == SubSeq(calls, 1, m)
<1>2. m \in Nat /\ m \in 1 - 1 .. Len(calls) /\ 1 \in 1 .. Len(calls) + 1 BY <1>1
<1>3. rest \in Seq(F) /\ Len(rest) = (IF 1 <= m THEN m - 1 + 1 ELSE 0)
      /\ \A i \in 1 .. m - 1 + 1 : rest[i] = calls[1 + i - 1]
  BY <1>2, SubSeqProperties
<1> HIDE DEF m, rest
<1>4. m - 1 + 1 = m /\ (1 <= m \/ m = 0) /\ \A i \in 1 .. m : 1 + i - 1 = i BY <1>2
<1>5. Len(rest) = m BY <1>3, <1>4
<1>6. \A i \in 1 .. m : rest[i] = calls[i] BY <1>3, <1>4
<1> QED BY <1>3, <1>5, <1>6 DEF m, rest

(* A service whose visit ends has finished dependencies only, so that it     *)
(* cannot close a cycle with the finished ones.                              *)
LEMMA LeaveKeeps == ASSUME IInv, Leave PROVE IInv'
<1> DEFINE n == Len(stack)
           x == Top.service
<1>1. SearchTypeOK /\ StackIsPath /\ Open /\ Finished /\ Met /\ result = "none" /\ stack # <<>>
  BY DEF IInv, Leave
<1>2. n \in Nat \ {0} /\ stack \in Stacks /\ n \in 1 .. n BY <1>1 DEF SearchTypeOK, Stacks
<1>3. /\ state' = [state EXCEPT ![x] = 2] /\ stack' = SubSeq(stack, 1, n - 1)
      /\ Top.left = {} /\ UNCHANGED <<graph, strict, roots, result>>
  BY DEF Leave
<1>4. x \in Services /\ (strict => x \in DOMAIN graph) BY <1>1, <1>2, FramesOfServices DEF Top
<1>5. /\ stack' \in Stacks' /\ Len(stack') = n - 1
      /\ \A i \in 1 .. n - 1 : stack'[i] = stack[i] /\ i \in 1 .. n
  <2> DEFINE F == Frame(IF strict THEN DOMAIN graph ELSE Services)
  <2>1. stack \in Seq(F) /\ n - 1 \in 0 .. n /\ Stacks' = Seq(F) BY <1>2, <1>3 DEF Stacks
  <2> HIDE DEF F
  <2>2. stack' \in Seq(F) /\ Len(stack') = n - 1 /\ \A i \in 1 .. n - 1 : stack'[i] = stack[i]
    BY <2>1, <1>1, <1>3, Popped
  <2> QED BY <2>1, <2>2, <1>2
<1>6. /\ state'[x] = 2 /\ \A t \in Services : t # x => state'[t] = state[t]
      /\ state' \in [Services -> 0 .. 2]
  BY <1>1, <1>3, <1>4 DEF SearchTypeOK
<1>7. /\ \A t : Edges(t)' = Edges(t)
      /\ \A t \in Services : Edges(t) \subseteq Services
  BY <1>1, <1>3, EdgesAreServices DEF Edges
<1>8. state[x] = 1 BY <1>1, <1>2, <1>4 DEF Open, Top
<1>9. \A t \in Edges(x) : state[t] = 2 /\ t # x BY <1>1, <1>2, <1>3, <1>8 DEF Open, Top
<1>10. SearchTypeOK' BY <1>1, <1>3, <1>5, <1>6 DEF SearchTypeOK, IsGraph, Stacks
<1>11. StackIsPath'
  <2>1. \A i, j \in 1 .. n - 1 : stack'[i].service = stack'[j].service => i = j
    BY <1>1, <1>2, <1>5 DEF StackIsPath
  <2>2. ASSUME NEW i \in 1 .. (n - 1) - 1
        PROVE  stack'[i + 1].service \in Edges(stack'[i].service)
    <3>1. i \in 1 .. n - 1 /\ i + 1 \in 1 .. n - 1 BY <1>2
    <3> QED BY <3>1, <1>1, <1>5 DEF StackIsPath
  <2> QED BY <2>1, <2>2, <1>5, <1>7 DEF StackIsPath
<1>12. VerdictRight' BY <1>1, <1>3 DEF VerdictRight
<1>13. Open'
  <2>1. ASSUME NEW t \in Services
        PROVE  state'[t] = 1 <=> \E i \in 1 .. n - 1 : stack'[i].service = t
    <3>1. CASE t = x
      <4>1. \A i \in 1 .. n - 1 : stack[i].service # x
        BY <1>1, <1>2 DEF StackIsPath, Top
      <4> QED BY <3>1, <4>1, <1>5, <1>6
    <3>2. CASE t # x
      <4>1. state[t] = 1 <=> \E i \in 1 .. n : stack[i].service = t BY <1>1 DEF Open
      <4>2. \A i \in 1 .. n : i # n => i \in 1 .. n - 1 BY <1>2
      <4> QED BY <4>1, <4>2, <3>2, <1>5, <1>6 DEF Top
    <3> QED BY <3>1, <3>2
  <2>2. ASSUME NEW i \in 1 .. n - 1
        PROVE  /\ stack'[i].left \subseteq Edges(stack'[i].service)
               /\ \A t \in Edges(stack'[i].service) \ stack'[i].left :
                    state'[t] = 2 \/ (i < n - 1 /\ t = stack'[i + 1].service)
    <3>1. stack'[i] = stack[i] /\ i \in 1 .. n BY <1>5
    <3>2. stack[i].left \subseteq Edges(stack[i].service) BY <3>1, <1>1 DEF Open
    <3>3. ASSUME NEW t \in Edges(stack[i].service) \ stack[i].left
          PROVE  state'[t] = 2 \/ (i < n - 1 /\ t = stack'[i + 1].service)
      <4>1. state[t] = 2 \/ (i < n /\ t = stack[i + 1].service) BY <3>1, <3>3, <1>1 DEF Open
      <4>2. t \in Services BY <3>1, <3>3, <1>1, <1>7, FramesOfServices
      <4>3. CASE state[t] = 2 BY <4>2, <4>3, <1>6
      <4>4. CASE i < n - 1 /\ t = stack[i + 1].service
        <5>1. i + 1 \in 1 .. n - 1 BY <4>4, <1>2
        <5> QED BY <5>1, <4>4, <1>5
      <4>5. CASE ~(i < n - 1) /\ t = stack[i + 1].service
        <5>1. i + 1 = n BY <4>5, <1>2
        <5> QED BY <5>1, <4>5, <1>6 DEF Top
      <4> QED BY <4>1, <4>3, <4>4, <4>5
    <3> QED BY <3>1, <3>2, <3>3
  <2> QED BY <2>1, <2>2, <1>5, <1>7 DEF Open
<1>14. Finished'
  <2>1. ASSUME NEW t \in Services, state'[t] = 2 PROVE \A u \in Edges(t) : state'[u] = 2
    <3>1. \A u \in Edges(t) : state[u] = 2 BY <2>1, <1>1, <1>6, <1>9 DEF Finished
    <3> QED BY <3>1, <1>6, <1>7
  <2>2. ASSUME NEW loop \in SUBSET Services, loop # {}, \A t \in loop : state'[t] = 2
        PROVE  \E t \in loop : Edges(t) \cap loop = {}
    <3> DEFINE rest == loop \ {x}
    <3>1. \A t \in rest : state[t] = 2 BY <2>2, <1>6
    <3>2. CASE rest = {}
      <4>1. loop = {x} BY <3>2, <2>2
      <4> QED BY <4>1, <1>9
    <3>3. CASE rest # {}
      <4>1. PICK t \in rest : Edges(t) \cap rest = {} BY <3>1, <3>3, <1>1 DEF Finished
      <4>2. x \notin Edges(t) BY <4>1, <3>1, <1>1, <1>8 DEF Finished
      <4> QED BY <4>1, <4>2
    <3> QED BY <3>2, <3>3
  <2> QED BY <2>1, <2>2, <1>7 DEF Finished
<1>15. Met'
  <2>1. \A t \in Services : state'[t] # 0 <=> state[t] # 0 BY <1>6, <1>8
  <2>2. DOMAIN graph \subseteq Services BY <1>1, TableOfServices
  <2> QED BY <2>1, <2>2, <1>1, <1>3 DEF Met
<1> QED BY <1>1, <1>3, <1>10, <1>11, <1>12, <1>13, <1>14, <1>15 DEF IInv

(* When nothing is open and no root is left, every service of the table is   *)
(* finished, and so there is neither a cycle nor, for the registry, an edge  *)
(* to nowhere.                                                               *)
LEMMA AcceptKeeps == ASSUME IInv, Accept PROVE IInv'
<1>1. SearchTypeOK /\ StackIsPath /\ Open /\ Finished /\ Met /\ stack = <<>> /\ roots = {}
  BY DEF IInv, Accept
<1>2. UNCHANGED <<graph, strict, roots, state, stack>> /\ result' = "accepted" BY DEF Accept
<1>3. DOMAIN graph \subseteq Services /\ \A s \in DOMAIN graph : graph[s] \subseteq Services
  BY <1>1 DEF SearchTypeOK, IsGraph
<1>4. \A s \in DOMAIN graph : state[s] = 2
  <2> SUFFICES ASSUME NEW s \in DOMAIN graph PROVE state[s] = 2 OBVIOUS
  <2>1. s \in Services /\ state[s] \in 0 .. 2 BY <1>1, <1>3 DEF SearchTypeOK
  <2>2. state[s] # 0 BY <1>1 DEF Met
  <2>3. state[s] # 1 BY <2>1, <1>1 DEF Open
  <2> QED BY <2>1, <2>2, <2>3
<1>5. ~HasLoop(graph) BY <1>1, <1>3, <1>4 DEF HasLoop, Finished, Edges
<1>6. strict => ~Dangling(graph)
  <2> SUFFICES ASSUME strict, NEW s \in DOMAIN graph, NEW t \in graph[s]
               PROVE  t \in DOMAIN graph
    BY DEF Dangling
  <2>1. state[t] = 2 /\ t \in Services BY <1>1, <1>3, <1>4 DEF Finished, Edges
  <2> QED BY <2>1, <1>1 DEF Met
<1>7. VerdictRight' BY <1>2, <1>5, <1>6 DEF VerdictRight
<1>8. SearchTypeOK' BY <1>1, <1>2 DEF SearchTypeOK, IsGraph
<1>9. StackIsPath' BY <1>1, <1>2 DEF StackIsPath, Edges
<1> QED BY <1>2, <1>7, <1>8, <1>9 DEF IInv

(* Nothing changes.                                                          *)
LEMMA StutterKeeps == ASSUME IInv, UNCHANGED searchVars PROVE IInv'
BY DEF searchVars, IInv, SearchTypeOK, IsGraph, StackIsPath, VerdictRight, Open, Finished, Met, Edges

(* The invariant holds in every reachable state.                             *)
THEOREM SearchInvariant == SearchSpec => []IInv
<1>1. SearchInit => IInv BY Initially
<1>2. IInv /\ [SearchNext]_searchVars => IInv'
  BY RootKeeps, FollowKeeps, LeaveKeeps, AcceptKeeps, StutterKeeps DEF SearchNext
<1> QED BY <1>1, <1>2, PTL DEF SearchSpec

(* Every reachable state is well typed; the registry's search never visits a *)
(* service that does not exist.                                              *)
THEOREM SearchTyped == SearchSpec => []SearchTypeOK
<1>1. IInv => SearchTypeOK BY DEF IInv
<1> QED BY <1>1, SearchInvariant, PTL

(* Both copies of the search decide what the definitions say, for any number *)
(* of services, every graph and every order of the roots and the edges.      *)
THEOREM SearchDecides == SearchSpec => []VerdictRight
<1>1. IInv => VerdictRight BY DEF IInv
<1> QED BY <1>1, SearchInvariant, PTL

(* The recursion never meets an open call again, so it is never deeper than  *)
(* there are services.                                                       *)
THEOREM RecursionIsPath == SearchSpec => []StackIsPath
<1>1. IInv => StackIsPath BY DEF IInv
<1> QED BY <1>1, SearchInvariant, PTL
-----------------------------------------------------------------------------
(* One step of the order in which the search descends.                       *)
Descent ==
  \/ result' # "none"
  \/ Unmet' \subseteq Unmet /\ Unmet' # Unmet
  \/ Unmet' = Unmet /\ Len(stack') < Len(stack)
  \/ Unmet' = Unmet /\ Len(stack') = Len(stack) /\ Left' \subseteq Left /\ Left' # Left

(* Meeting a service for the first time.                                     *)
LEMMA MeetingDescends ==
  ASSUME SearchTypeOK, NEW s \in Services, state[s] = 0, state' = [state EXCEPT ![s] = 1]
  PROVE  Descent
<1>1. Unmet' = Unmet \ {s} /\ s \in Unmet BY DEF Unmet, SearchTypeOK
<1> QED BY <1>1 DEF Descent

(* Every step of the search descends.                                        *)
LEMMA StepDescends == ASSUME IInv, SearchNext PROVE Descent
<1>1. SearchTypeOK /\ (result = "none" => Open) BY DEF IInv
<1>2. CASE VisitRoot
  <2>1. PICK s \in roots : roots' = roots \ {s} /\ Visit(s, stack) BY <1>2 DEF VisitRoot
  <2>2. stack = <<>> /\ result = "none" /\ s \in Services
    BY <1>1, <1>2, TableOfServices DEF VisitRoot, SearchTypeOK
  <2>3. CASE result' = "cycle" BY <2>3 DEF Descent
  <2>4. CASE stack' = stack /\ UNCHANGED <<state, result>>
    BY <2>1, <2>2, <2>4 DEF Descent, Unmet, Left
  <2>5. CASE state[s] = 0 /\ state' = [state EXCEPT ![s] = 1]
    BY <2>2, <2>5, <1>1, MeetingDescends
  <2> QED BY <2>1, <2>3, <2>4, <2>5 DEF Visit
<1>3. CASE Follow
  <2>1. result = "none" /\ stack # <<>> /\ Len(stack) \in 1 .. Len(stack)
    BY <1>1, <1>3 DEF Follow, SearchTypeOK
  <2>2. PICK s \in Top.left : result' = "dangling" \/ Visit(s, Followed(s)) BY <1>3 DEF Follow
  <2>3. s \in Services BY <2>1, <1>1, FramesOfServices DEF Top
  <2>4. CASE result' \in {"dangling", "cycle"} BY <2>4 DEF Descent
  <2>5. CASE stack' = Followed(s) /\ UNCHANGED <<state, result>>
    <3>1. Len(stack') = Len(stack) /\ stack'[Len(stack)].left = Top.left \ {s}
      BY <2>1, <2>5, <1>1, FollowedStack
    <3>2. stack' # <<>> BY <3>1, <2>1
    <3>3. Left = Top.left /\ Left' = Top.left \ {s} BY <3>1, <3>2, <2>1 DEF Left, Top
    <3>4. Unmet' = Unmet BY <2>5 DEF Unmet
    <3> QED BY <3>1, <3>3, <3>4 DEF Descent
  <2>6. CASE state[s] = 0 /\ state' = [state EXCEPT ![s] = 1]
    BY <2>3, <2>6, <1>1, MeetingDescends
  <2> QED BY <2>2, <2>4, <2>5, <2>6 DEF Visit
<1>4. CASE Leave
  <2> DEFINE n == Len(stack)
  <2>1. n \in Nat \ {0} /\ n \in 1 .. n /\ stack \in Stacks /\ Open
    BY <1>1, <1>4 DEF SearchTypeOK, Stacks, Leave
  <2>2. Top.service \in Services /\ state[Top.service] = 1
    BY <2>1, <1>1, FramesOfServices DEF Open, Top
  <2>3. Unmet' = Unmet BY <2>2, <1>1, <1>4 DEF Leave, Unmet, SearchTypeOK
  <2>4. Len(stack') = n - 1
    <3>1. stack' = SubSeq(stack, 1, n - 1) /\ stack # <<>> BY <1>4 DEF Leave
    <3> QED BY <3>1, <2>1, Popped DEF Stacks
  <2> QED BY <2>1, <2>3, <2>4 DEF Descent
<1>5. CASE Accept BY <1>5 DEF Accept, Descent
<1> QED BY <1>2, <1>3, <1>4, <1>5 DEF SearchNext

(* The search ends: no infinite sequence of steps is possible, because with  *)
(* each there are fewer services to meet, or as many and fewer open calls,   *)
(* or as many of both and less left in the innermost loop.                   *)
THEOREM SearchDescends == SearchSpec => Descends
<1>1. IInv /\ [SearchNext]_searchVars => [Descent]_searchVars BY StepDescends
<1>2. [][Descent]_searchVars => Descends BY PTL DEF Descends, Descent
<1> QED BY <1>1, <1>2, SearchInvariant, PTL DEF SearchSpec
============================================================================
