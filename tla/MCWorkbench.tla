---------------------------- MODULE MCWorkbench ----------------------------
(* Three instances in one run, which bound what users do and when time       *)
(* stops.  "limits": one user fails to sign in again and again while several *)
(* windows of the limiter pass.  "expiry": one user works on while tokens    *)
(* and windows run out.  "session": an operator and a reviewer at two tabs   *)
(* of one browser, within one instant.                                       *)
EXTENDS Workbench, TLC

CONSTANTS olga, rita, here, t1, t2

VARIABLE instance

RolesGiven == [u \in Users |-> IF u = olga THEN "pki_operator" ELSE "security_reviewer"]

LimitsGiven == [s \in Scopes |-> IF s = "login" THEN 2 ELSE 1]

InstanceOf ==
  [limits  |-> [tabs |-> {t1}, names |-> {NoUser}, routes |-> {"login"},
                last |-> Horizon, stops |-> FALSE],
   expiry  |-> [tabs |-> {t1}, names |-> {olga}, routes |-> {"login", "simulate"},
                last |-> 1, stops |-> FALSE],
   session |-> [tabs |-> {t1, t2}, names |-> {NoUser, olga, rita},
                routes |-> {"login", "create_scenario"},
                last |-> 0, stops |-> TRUE]]

Within ==
  LET bounds == InstanceOf[instance] IN
  /\ clock' <= bounds.last /\ (clock' > 0 => process' = "serving")
  /\ process # "down" /\ process' = "down" => bounds.stops
  /\ \A r \in Requests : /\ callers'[r] \in bounds.tabs \cup {NoTab}
                         /\ requests'[r].route \in bounds.routes \cup {"none"}
                         /\ requests'[r].pc = "sent" /\ requests'[r].route = "login" =>
                              requests'[r].name \in bounds.names
  /\ \A t \in Tabs \ bounds.tabs : shown'[t] = shown[t] /\ (t \in aware' => t \in aware)

MCInit == WInit /\ instance \in DOMAIN InstanceOf

MCNext == WNext /\ Within /\ UNCHANGED instance

MCSpec == MCInit /\ [][MCNext]_<<vars, instance>>

FairMCSpec ==
  /\ MCSpec
  /\ \A r \in Requests : WF_vars(Proceed(r) /\ UNCHANGED instance)
============================================================================
