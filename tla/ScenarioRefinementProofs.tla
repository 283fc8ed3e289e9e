----------------------- MODULE ScenarioRefinementProofs -----------------------
(* ScenarioLifecycle implements ScenarioStateMachine: the request steps that *)
(* read, refuse, fail or answer are stuttering steps of the promise, and     *)
(* each commit is one of its moves, whatever happened between the read a     *)
(* commit was decided on and the commit.                                     *)
EXTENDS ScenarioLifecycleProofs

(* The promised facts of one row, and of the table.                          *)
Facts(row) == [state |-> row.state, input |-> row.input, createdBy |-> row.createdBy,
               verifiedBy |-> row.verifiedBy, result |-> row.result]

Ledger == [s \in Scenarios |-> [state |-> rows[s].state, input |-> rows[s].input,
                                createdBy |-> rows[s].createdBy,
                                verifiedBy |-> rows[s].verifiedBy,
                                result |-> rows[s].result]]

FactSet == [state : States \cup {"absent"}, input : Inputs \cup {NoInput},
            createdBy : Actors \cup {NoActor}, verifiedBy : Actors \cup {NoActor},
            result : Inputs \cup {NoInput}]

(* The facts of a well-typed row are well typed. *)
LEMMA FactsTyped ==
  ASSUME NEW row \in Row
  PROVE  Facts(row) \in FactSet
<1>1. /\ row.state \in States \cup {"absent"} /\ row.input \in Inputs \cup {NoInput}
      /\ row.createdBy \in Actors \cup {NoActor} /\ row.verifiedBy \in Actors \cup {NoActor}
      /\ row.result \in Inputs \cup {NoInput}
  BY DEF Row
<1> QED BY <1>1 DEF Facts, FactSet

LEMMA SameFacts ==
  ASSUME NEW x \in FactSet, NEW y \in FactSet,
         x.state = y.state, x.input = y.input, x.createdBy = y.createdBy,
         x.verifiedBy = y.verifiedBy, x.result = y.result
  PROVE  x = y
BY DEF FactSet

LEMMA LedgerFacts ==
  /\ Ledger = [s \in Scenarios |-> Facts(rows[s])]
  /\ Ledger' = [s \in Scenarios |-> Facts(rows'[s])]
BY DEF Ledger, Facts

(* Writing one row changes one entry of the ledger.                          *)
LEMMA LedgerWrite ==
  ASSUME IInv, NEW s \in Scenarios, NEW new, rows' = [rows EXCEPT ![s] = new]
  PROVE  Ledger' = [Ledger EXCEPT ![s] = Facts(new)]
<1>1. rows \in [Scenarios -> Row]
  BY DEF IInv, TypeOK
<1>2. \A t \in Scenarios : rows'[t] = IF t = s THEN new ELSE rows[t]
  BY <1>1
<1>3. Ledger' = [t \in Scenarios |-> Facts(rows'[t])] /\ Ledger = [t \in Scenarios |-> Facts(rows[t])]
  BY LedgerFacts
<1>4. \A t \in Scenarios : Facts(rows'[t]) = IF t = s THEN Facts(new) ELSE Facts(rows[t])
  BY <1>2
<1> HIDE DEF Ledger, Facts
<1> QED BY <1>3, <1>4

LEMMA CreateRefines ==
  ASSUME IInv, NEW r \in Requests, CreateCommit(r)
  PROVE  Promise!Next
<1> DEFINE s == requests[r].scenario
           a == requests[r].actor
           new == requests[r].row
<1>1. s \in Scenarios /\ a \in Actors /\ rows[s] = AbsentRow /\ rows' = [rows EXCEPT ![s] = new]
  BY CreateEffect
<1>2. PICK i \in Inputs :
        /\ ~InputTaken(i)
        /\ new = [AbsentRow EXCEPT !.state = "draft", !.input = i, !.createdBy = a]
  BY CreateEffect
<1>3. Facts(new) = [state |-> "draft", input |-> i, createdBy |-> a,
                    verifiedBy |-> NoActor, result |-> NoInput]
  BY <1>2 DEF AbsentRow, Facts
<1>4. Ledger' = [Ledger EXCEPT ![s] = Facts(new)]
  BY <1>1, LedgerWrite
<1>5. Ledger[s] = Promise!Unfrozen
  BY <1>1 DEF Ledger, AbsentRow, Promise!Unfrozen
<1>6. \A t \in Scenarios : Ledger[t].input # i
  <2> SUFFICES ASSUME NEW t \in Scenarios PROVE rows[t].input # i
    BY DEF Ledger
  <2>1. CASE rows[t].state = "absent"
    <3>1. rows[t] = AbsentRow
      BY <2>1 DEF IInv, RowsSound, RowSound
    <3> QED BY <3>1, SentinelAssumption DEF AbsentRow
  <2>2. CASE rows[t].state # "absent"
    BY <1>2, <2>2 DEF InputTaken, Exists
  <2> QED BY <2>1, <2>2
<1>7. Ledger' = [Ledger EXCEPT ![s] = [Ledger[s] EXCEPT !.state = "draft", !.input = i,
                                                         !.createdBy = a]]
  <2> DEFINE x == [Promise!Unfrozen EXCEPT !.state = "draft", !.input = i, !.createdBy = a]
  <2>1. x = Facts(new)
    <3>1. x \in FactSet /\ Facts(new) \in FactSet
      <4>1. Promise!Unfrozen \in FactSet
        BY DEF FactSet, Promise!Unfrozen
      <4>2. x \in FactSet
        BY <1>1, <4>1 DEF FactSet, States
      <4> QED BY <1>1, <1>3, <4>2 DEF FactSet, States
    <3>2. x.state = "draft" /\ x.input = i /\ x.createdBy = a /\ x.verifiedBy = NoActor
          /\ x.result = NoInput
      BY DEF Promise!Unfrozen
    <3> HIDE DEF x
    <3> QED BY <1>3, <3>1, <3>2, SameFacts
  <2> HIDE DEF Ledger, Facts, new
  <2> QED BY <1>4, <1>5, <2>1
<1>8. Promise!Freeze(s, a, i)
  BY <1>5, <1>6, <1>7 DEF Promise!Freeze, Ledger
<1> QED BY <1>1, <1>8 DEF Promise!Next

LEMMA SimulateRefines ==
  ASSUME IInv, NEW r \in Requests, SimulateCommit(r)
  PROVE  Promise!Next
<1> SUFFICES ASSUME NEW s \in Scenarios, s = requests[r].scenario PROVE Promise!Next
  BY SimulateEffect
<1> DEFINE new == Simulated(rows[s], requests[r].key)
<1>1. s \in Scenarios /\ rows[s].state = "draft" /\ rows' = [rows EXCEPT ![s] = new]
  BY SimulateEffect
<1>2. rows[s] \in Row
  BY <1>1 DEF IInv, TypeOK
<1>3. Facts(new) = [state |-> "simulated", input |-> rows[s].input,
                    createdBy |-> rows[s].createdBy, verifiedBy |-> rows[s].verifiedBy,
                    result |-> rows[s].input]
  BY <1>2 DEF Simulated, Facts, Row
<1>4. Ledger' = [Ledger EXCEPT ![s] = Facts(new)]
  BY <1>1, LedgerWrite
<1>5. Ledger[s] = Facts(rows[s])
  BY <1>1 DEF Ledger, Facts
<1>6. Ledger' = [Ledger EXCEPT ![s] = [Ledger[s] EXCEPT !.state = "simulated",
                                                         !.result = Ledger[s].input]]
  <2> DEFINE x == [Facts(rows[s]) EXCEPT !.state = "simulated", !.result = Facts(rows[s]).input]
  <2>1. x = Facts(new)
    <3>0. Facts(rows[s]) \in FactSet /\ Facts(rows[s]).input \in Inputs \cup {NoInput}
      <4>1. Facts(rows[s]) \in FactSet
        BY <1>2, FactsTyped
      <4> HIDE DEF Facts
      <4> QED BY <4>1 DEF FactSet
    <3>1. x \in FactSet /\ Facts(new) \in FactSet
      <4>1. x \in FactSet
        <5> HIDE DEF Facts
        <5> QED BY <3>0 DEF FactSet, States
      <4>2. Facts(new) \in FactSet
        <5>1. /\ rows[s].input \in Inputs \cup {NoInput}
              /\ rows[s].createdBy \in Actors \cup {NoActor}
              /\ rows[s].verifiedBy \in Actors \cup {NoActor}
          BY <1>2 DEF Row
        <5> HIDE DEF Facts, x
        <5> QED BY <1>3, <5>1 DEF FactSet, States
      <4> QED BY <4>1, <4>2
    <3>2. /\ x.state = "simulated" /\ x.input = rows[s].input
          /\ x.createdBy = rows[s].createdBy /\ x.verifiedBy = rows[s].verifiedBy
          /\ x.result = rows[s].input
      BY DEF Facts
    <3> HIDE DEF x
    <3> QED BY <1>3, <3>1, <3>2, SameFacts
  <2> HIDE DEF Ledger, Facts, new
  <2> QED BY <1>4, <1>5, <2>1
<1>7. Promise!Simulate(s)
  BY <1>1, <1>5, <1>6 DEF Promise!Simulate, Ledger, Facts
<1>8. \E t \in Scenarios : Promise!Simulate(t)
  BY <1>1, <1>7
<1> QED BY <1>8 DEF Promise!Next

LEMMA TransitionRefines ==
  ASSUME IInv, NEW r \in Requests, TransitionCommit(r)
  PROVE  Promise!Next
<1> SUFFICES ASSUME NEW s \in Scenarios, s = requests[r].scenario,
                    NEW a \in Actors, a = requests[r].actor,
                    NEW to \in RequestableStates, to = requests[r].to
             PROVE  Promise!Next
  BY TransitionEffect
<1> DEFINE new == Transitioned(rows[s], a, to)
<1>1. /\ s \in Scenarios /\ a \in Actors /\ to \in RequestableStates
      /\ CanTransition(rows[s].state, to)
      /\ rows' = [rows EXCEPT ![s] = new]
      /\ to = "verified" => rows[s].createdBy # a
  BY TransitionEffect
<1>2. rows[s] \in Row
  BY <1>1 DEF IInv, TypeOK
<1>3. Facts(new) = [state |-> to, input |-> rows[s].input,
                    createdBy |-> rows[s].createdBy,
                    verifiedBy |-> IF to = "verified" THEN a ELSE rows[s].verifiedBy,
                    result |-> rows[s].result]
  BY <1>2 DEF Transitioned, Facts, Row
<1>4. Ledger' = [Ledger EXCEPT ![s] = Facts(new)]
  BY <1>1, LedgerWrite
<1>5. Ledger[s] = Facts(rows[s])
  BY <1>1 DEF Ledger, Facts
<1>6. CASE to = "verified"
  <2>1. rows[s].state = "executing"
    BY <1>1, <1>6 DEF CanTransition
  <2>2. Ledger' = [Ledger EXCEPT ![s] = [Ledger[s] EXCEPT !.state = "verified",
                                                           !.verifiedBy = a]]
    <3> DEFINE x == [Facts(rows[s]) EXCEPT !.state = "verified", !.verifiedBy = a]
    <3>1. x = Facts(new)
      <4>0. Facts(rows[s]) \in FactSet
        BY <1>2, FactsTyped
      <4>1. x \in FactSet /\ Facts(new) \in FactSet
        <5>1. x \in FactSet
          <6> HIDE DEF Facts
          <6> QED BY <1>1, <4>0 DEF FactSet, States
        <5>2. Facts(new) \in FactSet
          <6>1. /\ rows[s].input \in Inputs \cup {NoInput}
                /\ rows[s].createdBy \in Actors \cup {NoActor}
                /\ rows[s].result \in Inputs \cup {NoInput}
            BY <1>2 DEF Row
          <6> HIDE DEF Facts, x
          <6> QED BY <1>1, <1>3, <1>6, <6>1 DEF FactSet, States
        <5> QED BY <5>1, <5>2
      <4>2. /\ x.state = "verified" /\ x.input = rows[s].input
            /\ x.createdBy = rows[s].createdBy /\ x.verifiedBy = a
            /\ x.result = rows[s].result
        BY DEF Facts
      <4> HIDE DEF x
      <4> QED BY <1>3, <1>6, <4>1, <4>2, SameFacts
    <3> HIDE DEF Ledger, Facts, new
    <3> QED BY <1>4, <1>5, <3>1
  <2>3. Promise!Verify(s, a)
    BY <1>1, <1>5, <1>6, <2>1, <2>2 DEF Promise!Verify, Ledger, Facts
  <2>4. \E t \in Scenarios : \E b \in Actors : Promise!Verify(t, b)
    BY <1>1, <2>3
  <2> QED BY <2>4 DEF Promise!Next
<1>7. CASE to # "verified"
  <2>1. <<rows[s].state, to>> \in Promise!Moves /\ to \in Promise!States
    BY <1>1, <1>7 DEF CanTransition, RequestableStates, Promise!Moves, Promise!States
  <2>2. Ledger' = [Ledger EXCEPT ![s] = [Ledger[s] EXCEPT !.state = to]]
    <3> DEFINE x == [Facts(rows[s]) EXCEPT !.state = to]
    <3>1. x = Facts(new)
      <4>0. Facts(rows[s]) \in FactSet
        BY <1>2, FactsTyped
      <4>1. x \in FactSet /\ Facts(new) \in FactSet
        <5>1. x \in FactSet
          <6> HIDE DEF Facts
          <6> QED BY <1>1, <4>0 DEF FactSet, States, RequestableStates
        <5>2. Facts(new) \in FactSet
          <6>1. /\ rows[s].input \in Inputs \cup {NoInput}
                /\ rows[s].createdBy \in Actors \cup {NoActor}
                /\ rows[s].verifiedBy \in Actors \cup {NoActor}
                /\ rows[s].result \in Inputs \cup {NoInput}
            BY <1>2 DEF Row
          <6> HIDE DEF Facts, x
          <6> QED BY <1>1, <1>3, <1>7, <6>1 DEF FactSet, States, RequestableStates
        <5> QED BY <5>1, <5>2
      <4>2. /\ x.state = to /\ x.input = rows[s].input
            /\ x.createdBy = rows[s].createdBy /\ x.verifiedBy = rows[s].verifiedBy
            /\ x.result = rows[s].result
        BY DEF Facts
      <4> HIDE DEF x
      <4> QED BY <1>3, <1>7, <4>1, <4>2, SameFacts
    <3> HIDE DEF Ledger, Facts, new
    <3> QED BY <1>4, <1>5, <3>1
  <2>3. Promise!Move(s, to)
    BY <1>1, <1>5, <2>1, <2>2 DEF Promise!Move, Ledger, Facts
  <2>4. \E t \in Scenarios : \E u \in Promise!States : Promise!Move(t, u)
    BY <1>1, <2>1, <2>3
  <2> QED BY <2>4 DEF Promise!Next
<1> QED BY <1>6, <1>7

LEMMA ReplayStutters ==
  ASSUME IInv, NEW r \in Requests, ReplayCommit(r)
  PROVE  Ledger' = Ledger
<1> DEFINE s == requests[r].scenario
           new == Replayed(rows[s], Passes(requests[r].row))
<1>1. s \in Scenarios /\ rows' = [rows EXCEPT ![s] = new]
  BY ReplayEffect
<1>2. Facts(new) = Facts(rows[s])
  <2>1. \A row \in Row : \A passed : Facts(Replayed(row, passed)) = Facts(row)
    BY DEF Replayed, Row, Facts
  <2> QED BY <1>1, <2>1 DEF IInv, TypeOK
<1>3. Ledger' = [Ledger EXCEPT ![s] = Facts(new)]
  BY <1>1, LedgerWrite
<1>4. Ledger[s] = Facts(rows[s]) /\ Ledger = [t \in Scenarios |-> Facts(rows[t])]
  BY <1>1, LedgerFacts DEF Ledger, Facts
<1> HIDE DEF Ledger, Facts
<1> QED BY <1>2, <1>3, <1>4

(* The service keeps the promise of the state machine.                       *)
THEOREM Refinement == Spec => PromiseKept
<1>1. Init => Promise!Init
  BY DEF Init, Promise!Init, AbsentRow, Promise!Unfrozen
<1>2. IInv /\ [Next]_vars => [Promise!Next]_Ledger
  <2> SUFFICES ASSUME IInv, [Next]_vars PROVE Promise!Next \/ Ledger' = Ledger
    OBVIOUS
  <2>1. CASE \E r \in Requests : CreateCommit(r)
    BY <2>1, CreateRefines
  <2>2. CASE \E r \in Requests : SimulateCommit(r)
    BY <2>2, SimulateRefines
  <2>3. CASE \E r \in Requests : TransitionCommit(r)
    BY <2>3, TransitionRefines
  <2>4. CASE \E r \in Requests : ReplayCommit(r)
    BY <2>4, ReplayStutters
  <2>5. CASE rows' = rows
    BY <2>5 DEF Ledger
  <2> QED BY <2>1, <2>2, <2>3, <2>4, <2>5, OnlyCommitsWrite
<1> QED BY <1>1, <1>2, Invariant, PTL DEF Spec, PromiseKept, Promise!Spec, Ledger
=============================================================================
