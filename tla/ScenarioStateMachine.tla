------------------------ MODULE ScenarioStateMachine ------------------------
(* What a rollover scenario promises to its users, without requests, stale  *)
(* reads or transactions: a frozen input walks the documented states, its   *)
(* result is the one its own input determines, and the person who accepts   *)
(* the execution is not the person who created the scenario.  Verified and  *)
(* rolled-back scenarios never leave their state.                           *)
CONSTANTS Scenarios, Actors, Inputs, NoActor, NoInput

VARIABLE ledger   \* the promised facts of each scenario

States == {"draft", "simulated", "ready", "executing", "verified", "rollback"}

Unfrozen == [state |-> "absent", input |-> NoInput, createdBy |-> NoActor,
             verifiedBy |-> NoActor, result |-> NoInput]

Init == ledger = [s \in Scenarios |-> Unfrozen]

Freeze(s, a, i) ==
  /\ ledger[s] = Unfrozen
  /\ \A t \in Scenarios : ledger[t].input # i
  /\ ledger' = [ledger EXCEPT ![s] = [@ EXCEPT !.state = "draft", !.input = i,
                                               !.createdBy = a]]

Simulate(s) ==
  /\ ledger[s].state = "draft"
  /\ ledger' = [ledger EXCEPT ![s] = [@ EXCEPT !.state = "simulated",
                                               !.result = ledger[s].input]]

(* The moves a person makes, all of them on a scenario that was simulated.  *)
Moves == {<<"simulated", "ready">>, <<"simulated", "draft">>,
          <<"ready", "executing">>, <<"ready", "draft">>,
          <<"executing", "rollback">>}

Move(s, to) ==
  /\ <<ledger[s].state, to>> \in Moves
  /\ ledger' = [ledger EXCEPT ![s] = [@ EXCEPT !.state = to]]

Verify(s, a) ==
  /\ ledger[s].state = "executing"
  /\ a # ledger[s].createdBy
  /\ ledger' = [ledger EXCEPT ![s] = [@ EXCEPT !.state = "verified", !.verifiedBy = a]]

Next == \E s \in Scenarios :
          \/ \E a \in Actors, i \in Inputs : Freeze(s, a, i)
          \/ Simulate(s)
          \/ \E to \in States : Move(s, to)
          \/ \E a \in Actors : Verify(s, a)

Spec == Init /\ [][Next]_ledger
=============================================================================
