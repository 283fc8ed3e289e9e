----------------------------- MODULE Workbench -----------------------------
(* The browser application's session (frontend/src/stores/auth.ts,           *)
(* api/client.ts, hooks/useAuth.ts, router/ProtectedRoute.tsx) in front of   *)
(* the back end of Gateway.  The tabs of one browser share localStorage;     *)
(* each keeps its own copy, from which it decides what to offer.  A request  *)
(* carries the stored token, whatever the tab shows, and any 401 ends the    *)
(* session, whatever request it answers.                                     *)
EXTENDS Gateway

CONSTANTS Tabs, NoTab,
          Browser     \* the address all tabs call from

ASSUME BrowserAssumption == Browser \in Addresses /\ NoTab \notin Tabs /\ "login" \in Routes

VARIABLES storage,   \* localStorage: access token and user
          shown,     \* the auth store of each tab
          signingIn, \* the store's "loading"
          callers,   \* the tab that waits for the answer to each request
          aware      \* history: tabs that made or read the last change of the storage

browserVars == <<storage, shown, signingIn, callers, aware>>

vars == <<serverVars, browserVars>>

Session == [token : Token \cup {NoToken}, user : Users \cup {NoUser}]

SignedOut == [token |-> NoToken, user |-> NoUser]

(* The permission table of the browser, which does not list "read".          *)
ControlsOf ==
  [admin             |-> {"anchor.write", "chain.write", "dependency.write", "scenario.write",
                          "scenario.run", "scenario.verify", "audit.read"},
   pki_operator      |-> {"anchor.write", "chain.write", "dependency.write", "scenario.write",
                          "scenario.run"},
   service_owner     |-> {"dependency.write", "scenario.write", "scenario.run"},
   security_reviewer |-> {"scenario.verify", "audit.read"},
   auditor           |-> {"audit.read"}]

(* The permissions for which the pages show the control behind a route.      *)
ControlFor ==
  [import_anchor |-> {"anchor.write"},       anchor_lifecycle |-> {"anchor.write"},
   import_chain |-> {"chain.write"},         move_chain |-> {"chain.write"},
   change_service |-> {"dependency.write"},  create_scenario |-> {"scenario.write"},
   simulate |-> {"scenario.run"},            replay |-> {"scenario.run"},
   transition |-> {"scenario.write", "scenario.verify"}, audit |-> {"audit.read"}]

(* Pages are reached with a token and a user only, and load their lists.     *)
Offers(session, route) ==
  /\ session.token # NoToken /\ session.user # NoUser
  /\ route # "login"
  /\ route # "read" => ControlFor[route] \cap ControlsOf[RoleOf[session.user]] # {}

WInit ==
  /\ Init
  /\ storage = SignedOut
  /\ shown = [t \in Tabs |-> SignedOut]
  /\ signingIn = [t \in Tabs |-> FALSE]
  /\ callers = [r \in Requests |-> NoTab]
  /\ aware = Tabs
-----------------------------------------------------------------------------
(* The login form, which the tab leaves while it holds a token.              *)
SignIn(t, r, name) ==
  /\ shown[t].token = NoToken /\ ~signingIn[t]
  /\ Send(r, "login", Browser, name, NoToken)
  /\ signingIn' = [signingIn EXCEPT ![t] = TRUE]
  /\ callers' = [callers EXCEPT ![r] = t]
  /\ UNCHANGED <<storage, shown, aware>>

(* A page load, or a click on a control.                                     *)
Click(t, r, route) ==
  /\ Offers(shown[t], route)
  /\ Send(r, route, Browser, NoUser, storage.token)
  /\ callers' = [callers EXCEPT ![r] = t]
  /\ UNCHANGED <<storage, shown, signingIn, aware>>

(* Mutant: the session is kept in the tab's store only.                      *)
EstablishShown(t, session) ==
  /\ shown' = [shown EXCEPT ![t] = session]
  /\ aware' = {t} /\ UNCHANGED storage

(* Mutant: the stored item is the token alone.                               *)
EstablishToken(t, session) ==
  /\ storage' = session.token
  /\ shown' = [shown EXCEPT ![t] = session]
  /\ aware' = {t}

(* Storage and the tab's store are written in one turn of its event loop.    *)
Establish(t, session) ==
  /\ storage' = session
  /\ shown' = [shown EXCEPT ![t] = session]
  /\ aware' = {t}

End(t) == Establish(t, SignedOut)

(* Mutant: the form is released by a success only.                           *)
ReleasedBySuccess(t, q) == signingIn[t] /\ ~(q.route = "login" /\ q.answer = "ok")

StillSigningIn(t, q) == signingIn[t] /\ q.route # "login"

(* An answer reaches the tab that waits for it.  A 401 is not heard on the   *)
(* page for unknown addresses, which does not use the session (useAuth.ts:7).*)
TakeAnswer(t, r) ==
  LET q == requests[r] IN
  /\ callers[r] = t /\ Receive(r)
  /\ callers' = [callers EXCEPT ![r] = NoTab]
  /\ signingIn' = [signingIn EXCEPT ![t] = StillSigningIn(t, q)]
  /\ \/ q.answer = "unauthorized" /\ End(t)
     \/ /\ q.answer = "ok" /\ q.route = "login"
        /\ Establish(t, [token |-> q.token, user |-> q.token.user])
     \/ /\ ~(q.answer = "ok" /\ q.route = "login")
        /\ UNCHANGED <<storage, shown, aware>>

(* The answer to a page that is gone.                                        *)
LoseAnswer(r) ==
  /\ callers[r] = NoTab /\ Receive(r)
  /\ UNCHANGED browserVars

SignOut(t) ==
  /\ shown[t].token # NoToken /\ End(t)
  /\ UNCHANGED <<serverVars, signingIn, callers>>

(* The tab is opened or reloaded: its store starts from the storage.         *)
Reload(t) ==
  /\ shown' = [shown EXCEPT ![t] = storage]
  /\ aware' = aware \cup {t}
  /\ signingIn' = [signingIn EXCEPT ![t] = FALSE]
  /\ callers' = [r \in Requests |-> IF callers[r] = t THEN NoTab ELSE callers[r]]
  /\ UNCHANGED <<serverVars, storage>>

Answered(r) == LoseAnswer(r) \/ \E t \in Tabs : TakeAnswer(t, r)

(* A request goes on, in the server or back to its tab.                      *)
Proceed(r) == (Serve(r) /\ UNCHANGED browserVars) \/ Answered(r)

WNext ==
  \/ ServerStep /\ UNCHANGED browserVars
  \/ \E r \in Requests :
       \/ Answered(r)
       \/ \E t \in Tabs : \/ \E name \in Users \cup {NoUser} : SignIn(t, r, name)
                          \/ \E route \in Routes : Click(t, r, route)
  \/ \E t \in Tabs : SignOut(t) \/ Reload(t)

WSpec == WInit /\ [][WNext]_vars

(* The scheduler runs goroutines, connections that break are noticed, and    *)
(* answers arrive.  Users, crashes and restarts are left to themselves.      *)
FairWSpec ==
  /\ WSpec
  /\ \A r \in Requests : WF_vars(Proceed(r))
-----------------------------------------------------------------------------
(* Type invariant.                                                           *)
TypeOK ==
  /\ ServerTypeOK
  /\ storage \in Session
  /\ shown \in [Tabs -> Session]
  /\ signingIn \in [Tabs -> BOOLEAN]
  /\ callers \in [Requests -> Tabs \cup {NoTab}]
  /\ aware \subseteq Tabs

(* A tab that made or has read the last change of the stored session offers  *)
(* only what the server permits the owner of the token that would be sent    *)
(* (README.md:36, permissions.test.ts:8).  A tab that another one has signed *)
(* out or in behind its back may offer more, until its next answer.          *)
OfferedIsPermitted ==
  \A t \in aware : \A route \in Routes :
    Offers(shown[t], route) =>
      storage.token # NoToken /\ Permits(RoleOf[storage.token.user], route)

(* Signing in always ends, whatever the limiter, the credentials, a crash of *)
(* the server or a 401 to another request of the tab do meanwhile.           *)
SignInEnds == \A t \in Tabs : []<>~signingIn[t]
=============================================================================
