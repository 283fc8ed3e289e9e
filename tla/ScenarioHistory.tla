-------------------------- MODULE ScenarioHistory --------------------------
(* ScenarioLifecycle with the history its audit log keeps of simulations:    *)
(* which key simulated which scenario.  The service itself never reads it.   *)
EXTENDS MCScenarioLifecycle

VARIABLE simulations   \* <<scenario, key>> of the "simulate" entries so far

HistoryInit == Init /\ simulations = {}

HistoryNext ==
  /\ Next
  /\ simulations' = simulations \cup
       {<<e.scenario, e.after.key>> : e \in {x \in audit' : x.action = "simulate"}}

HistorySpec == HistoryInit /\ [][HistoryNext]_<<vars, simulations>>

(* "repeated requests with the same key return the stored result"            *)
(* (README.md:54): a key that simulated a scenario keeps returning that      *)
(* scenario's stored result to callers who may run it, unless the database   *)
(* fails, which is answered by a 500 or, in the first read, by a 404.        *)
RepeatedKeyReturnsStored ==
  [][\A m \in reply' :
       m.op = "simulate" /\ <<m.scenario, m.key>> \in simulations
         => m.status \in {"success", "reused", "forbidden", "not found",
                        "internal error"}]_<<vars, simulations>>
=============================================================================
