-------------------------- MODULE MCScenarioFreeze --------------------------
(* Two instances in one run, which bound what clients ask for.  "tables":    *)
(* any two requests at once to one anchor and one chain; the root is valid   *)
(* from 1 to 3, the leaf is older and ends at 2, and one bundle carries an   *)
(* older certificate along that ends at 1.  "freeze": two anchors and two    *)
(* chains, of which one fits on a page, change by one request at a time, and *)
(* from query to query, until a scenario is stored.                          *)
EXTENDS ScenarioFreeze, TLC

CONSTANTS a1, a2, c1, c2, ca, leaf, spent, alice, carol

VARIABLE instance

WindowsGiven ==
  [c \in Certs |-> CASE c = ca -> [from |-> 1, to |-> 3]
                     [] c = leaf -> [from |-> 0, to |-> 2]
                     [] c = spent -> [from |-> 0, to |-> 1]]

Sent(extra) == [signer |-> ca, leaf |-> leaf, path |-> {}, spare |-> extra]

BundlesGiven == {Sent({}), Sent({spent})}

RolesGiven == [a \in Actors |-> IF a = alice THEN "pki_operator" ELSE "auditor"]

RowsOf ==
  [tables |-> ({a1} \X {ca, leaf}) \cup ({c1} \X Bundles),
   freeze |-> {<<a1, ca>>, <<a2, leaf>>, <<c1, Sent({})>>, <<c2, Sent({spent})>>}]

(* The row an import is about to insert, with its key.                       *)
Wanted(q) == <<q.target, IF q.op = "import anchor" THEN q.row.cert ELSE q.row.bundle>>

Within ==
  /\ \A r \in Requests : requests'[r].pc = "commit" /\ requests'[r].op \in {"import anchor", "import chain"} =>
       Wanted(requests'[r]) \in RowsOf[instance]
  /\ instance = "tables" => UNCHANGED freezeVars
  /\ instance = "freeze" => /\ now' <= 1
                            /\ Cardinality({r \in Requests : requests'[r].pc # "idle"}) <= 1
                            /\ \A r \in Requests :
                                 \/ requests'[r].op \in {"none", "import anchor", "import chain"}
                                 \/ requests'[r].op = "revoke" /\ requests'[r].target = a1
                                 \/ requests'[r].op = "transition" /\ requests'[r].target = c1
                            /\ reply' \subseteq {"success", "exists"}
                            /\ freezeVars' # freezeVars => \A r \in Requests : requests[r].pc = "idle"
                            /\ \A f \in Freezers : /\ freezes'[f].input.old \in {a1, "none"}
                                                   /\ Cardinality(freezes'[f].input.wanted) <= 1
                            /\ scenarios # {} => UNCHANGED <<requests, presents, scenarios>>

MCInit ==
  /\ FInit
  /\ instance \in DOMAIN RowsOf

MCNext == FNext /\ Within /\ UNCHANGED instance

MCSpec == MCInit /\ [][MCNext]_<<allVars, instance>>

Interchangeable == Permutations(Requests)
============================================================================
