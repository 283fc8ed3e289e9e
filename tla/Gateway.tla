------------------------------ MODULE Gateway ------------------------------
(* The back end as one process (cmd/server/main.go): it comes up, creating   *)
(* the accounts and the demonstration rows that are missing (database.go),   *)
(* serves, may die at any point and is started again.  While it serves, a    *)
(* request passes the token check, the permission of its route, the rate     *)
(* limiter of its route, where there is one, and its handler                 *)
(* (middleware/auth.go, middleware/rbac.go, router/).  What handlers do is   *)
(* the subject of the other modules; here they only answer.                  *)
(*                                                                           *)
(* The limiter reads the clock before it takes its lock, so requests reach   *)
(* the buckets in any order and with old readings.                           *)
EXTENDS AccessControl, Integers, Sequences

CONSTANTS Users,      \* the accounts of the seed
          RoleOf,
          Addresses,  \* client addresses, which logins are counted by
          Requests,   \* requests in flight at once
          Routes,     \* the routes that are exercised
          LimitOf,    \* admissions per window, for each limited scope
          Minute,     \* the length of a window, in ticks
          MaxStall,   \* ticks that may pass between reading the clock and the lock
          Expiry,     \* life of a token, in ticks
          Horizon,    \* bound: the last instant of the clock
          NoUser, NoToken, Never

Instants == 0 .. Horizon

Route == [anyOf : SUBSET Permissions, scope : STRING]

Unlimited == "none"

(* The routes of router/ and main.go.  All reads but the audit log's are     *)
(* alike, as are the two changes of a service.                               *)
RouteTable ==
  [login            |-> [anyOf |-> {},                                   scope |-> "login"],
   read             |-> [anyOf |-> {"read"},                             scope |-> Unlimited],
   import_anchor    |-> [anyOf |-> {"anchor.write"},                     scope |-> "trust-anchor-import"],
   anchor_lifecycle |-> [anyOf |-> {"anchor.write"},                     scope |-> Unlimited],
   import_chain     |-> [anyOf |-> {"chain.write"},                      scope |-> "certificate-chain-import"],
   move_chain       |-> [anyOf |-> {"chain.write"},                      scope |-> Unlimited],
   change_service   |-> [anyOf |-> {"dependency.write"},                 scope |-> Unlimited],
   create_scenario  |-> [anyOf |-> {"scenario.write"},                   scope |-> Unlimited],
   simulate         |-> [anyOf |-> {"scenario.run"},                     scope |-> "rollover-simulation"],
   transition       |-> [anyOf |-> {"scenario.write", "scenario.verify"}, scope |-> Unlimited],
   replay           |-> [anyOf |-> {"scenario.run"},                     scope |-> "rollover-replay"],
   audit            |-> [anyOf |-> {"audit.read"},                       scope |-> Unlimited]]

Scopes == {RouteTable[route].scope : route \in DOMAIN RouteTable} \ {Unlimited}

ASSUME RoleAssumption == RoleOf \in [Users -> Roles]
ASSUME RouteAssumption == Routes \subseteq DOMAIN RouteTable
ASSUME LimitAssumption == LimitOf \in [Scopes -> Nat \ {0}]
ASSUME ClockAssumption ==
  Minute \in Nat \ {0} /\ MaxStall \in Nat /\ Expiry \in Nat \ {0} /\ Horizon \in Nat
ASSUME SentinelAssumption == /\ NoUser \notin Users /\ Never \notin Int
                             /\ NoToken \notin [user : Users, expires : Nat]

VARIABLES process,   \* what the process is doing: down, one of two parts of the seed, serving
          accounts,  \* rows of the users table
          seeded,    \* tables that hold their demonstration rows
          staged,    \* the same, written by the open transaction of the seed
          clock,
          buckets,   \* the limiters' maps, by scope and caller
          windows,   \* history: what each bucket admitted, window by window
          requests   \* what each request's goroutine, and the client, hold

serverVars == <<process, accounts, seeded, staged, clock, buckets, windows, requests>>

Tables == {"anchors", "chains", "services", "scenario"}

Token == [user : Users, expires : Nat]

Keys == Scopes \X (Users \cup Addresses)

Bucket == [start : Instants \cup {Never}, count : Nat]

NoBucket == [start |-> Never, count |-> 0]

(* When a window admitted its first and its last request, and how many.      *)
Window == [opened : Instants, last : Instants, admitted : Nat]

Answers == {"none", "ok", "handled", "unauthorized", "forbidden", "limited", "unreachable"}

(* "name" is the account that a login's user name and password belong to, if *)
(* any; "token" the bearer token of every other request and, in the answer   *)
(* to a login, the new one.                                                  *)
Request == [pc      : {"idle", "sent", "checked", "queued", "admitted", "answered"},
            route   : Routes \cup {"none"},
            from    : Addresses \cup {"none"},
            name    : Users \cup {NoUser},
            token   : Token \cup {NoToken},
            reading : Instants,
            answer  : Answers]

Idle == [pc |-> "idle", route |-> "none", from |-> "none", name |-> NoUser,
         token |-> NoToken, reading |-> 0, answer |-> "none"]

Init ==
  /\ process = "down" /\ accounts = {} /\ seeded = {} /\ staged = {}
  /\ clock = 0
  /\ buckets = [key \in Keys |-> NoBucket]
  /\ windows = [key \in Keys |-> <<>>]
  /\ requests = [r \in Requests |-> Idle]
-----------------------------------------------------------------------------
(* Coming up.                                                                *)

Configure ==
  /\ process = "down" /\ process' = "accounts"
  /\ UNCHANGED <<accounts, seeded, staged, clock, buckets, windows, requests>>

(* Each missing account is a statement of its own.  The code goes through    *)
(* the list in order; any order will do.                                     *)
SeedAccount(u) ==
  /\ process = "accounts" /\ u \notin accounts
  /\ accounts' = accounts \cup {u}
  /\ UNCHANGED <<process, seeded, staged, clock, buckets, windows, requests>>

(* The demonstration rows are wanted as long as there is no trust anchor.    *)
CountAnchors ==
  /\ process = "accounts" /\ Users \subseteq accounts
  /\ process' = IF "anchors" \in seeded THEN "serving" ELSE "domain"
  /\ UNCHANGED <<accounts, seeded, staged, clock, buckets, windows, requests>>

(* The tables that must be filled before another one.                        *)
FilledBefore(table) == CASE table = "anchors"  -> {}
                         [] table = "chains"   -> {"anchors"}
                         [] table = "services" -> {"anchors", "chains"}
                         [] table = "scenario" -> Tables \ {"scenario"}

(* Mutant: the rows are created outside the transaction.                     *)
SeedTableUnprotected(table) ==
  /\ process = "domain" /\ table \notin staged /\ FilledBefore(table) \subseteq staged
  /\ staged' = staged \cup {table} /\ seeded' = seeded \cup {table}
  /\ UNCHANGED <<process, accounts, clock, buckets, windows, requests>>

SeedTable(table) ==
  /\ process = "domain" /\ table \notin staged /\ FilledBefore(table) \subseteq staged
  /\ staged' = staged \cup {table}
  /\ UNCHANGED <<process, accounts, seeded, clock, buckets, windows, requests>>

SeedCommit ==
  /\ process = "domain" /\ staged = Tables
  /\ seeded' = seeded \cup staged /\ staged' = {}
  /\ process' = "serving"
  /\ UNCHANGED <<accounts, clock, buckets, windows, requests>>

(* What the client is left with.                                             *)
AnswerTo(route, answer) ==
  [Idle EXCEPT !.pc = "answered", !.route = route, !.answer = answer]

(* The process ends, at whatever point: an error while it comes up, a signal *)
(* with or without open requests, a crash.  The buckets and the open         *)
(* transaction are lost, clients see their connections break.                *)
Cut(q) == IF q.pc \in {"idle", "answered"} THEN q ELSE AnswerTo(q.route, "unreachable")

Stop ==
  /\ process # "down" /\ process' = "down"
  /\ staged' = {}
  /\ buckets' = [key \in Keys |-> NoBucket]
  /\ windows' = [key \in Keys |-> <<>>]
  /\ requests' = [r \in Requests |-> Cut(requests[r])]
  /\ UNCHANGED <<accounts, seeded, clock>>
-----------------------------------------------------------------------------
(* Serving.                                                                  *)

UNCHANGEDButRequests == UNCHANGED <<process, accounts, seeded, staged, clock, buckets, windows>>

Advance(r, pc) ==
  /\ requests' = [requests EXCEPT ![r].pc = pc]
  /\ UNCHANGEDButRequests

Answer(r, answer) ==
  /\ requests' = [requests EXCEPT ![r] = AnswerTo(@.route, answer)]
  /\ UNCHANGEDButRequests

(* A client sends a request; nobody listens before the seed is done.         *)
Send(r, route, from, name, token) ==
  /\ requests[r].pc = "idle"
  /\ requests' = [requests EXCEPT ![r] =
       IF process # "serving" THEN AnswerTo(route, "unreachable")
       ELSE [Idle EXCEPT !.pc = "sent", !.route = route, !.from = from,
                         !.name = name, !.token = token]]
  /\ UNCHANGEDButRequests

Receive(r) ==
  /\ requests[r].pc = "answered"
  /\ requests' = [requests EXCEPT ![r] = Idle]
  /\ UNCHANGEDButRequests

Authentic(token) == token # NoToken /\ clock < token.expires

(* A role may use a route if it holds one of its permissions.                *)
Permits(role, route) == \E p \in RouteTable[route].anyOf : HasPermission(role, p)

(* RequireAuth and RequirePermission; the login route has neither.           *)
Check(r) ==
  LET q == requests[r] IN
  /\ q.pc = "sent"
  /\ \/ q.route = "login" /\ Advance(r, "checked")
     \/ q.route # "login" /\ ~Authentic(q.token) /\ Answer(r, "unauthorized")
     \/ /\ q.route # "login" /\ Authentic(q.token)
        /\ \/ ~Permits(RoleOf[q.token.user], q.route) /\ Answer(r, "forbidden")
           \/ Permits(RoleOf[q.token.user], q.route) /\ Advance(r, "checked")

(* The limiter's clock is read, if the route has a limiter.                  *)
ReadClock(r) ==
  LET q == requests[r] IN
  /\ q.pc = "checked"
  /\ \/ RouteTable[q.route].scope = Unlimited /\ Advance(r, "admitted")
     \/ /\ RouteTable[q.route].scope # Unlimited
        /\ requests' = [requests EXCEPT ![r] = [q EXCEPT !.pc = "queued", !.reading = clock]]
        /\ UNCHANGEDButRequests

KeyOf(q) == <<RouteTable[q.route].scope, IF q.route = "login" THEN q.from ELSE q.token.user>>

(* Mutant: windows are compared in whole minutes, rounded up.                *)
OverEarly(bucket, reading) == bucket.start = Never \/ reading - bucket.start >= Minute - 1

Over(bucket, reading) == bucket.start = Never \/ reading - bucket.start >= Minute

(* Count only matters as far as it exceeds the limit, so it stops there.     *)
Counted(bucket, reading, limit) ==
  IF Over(bucket, reading) THEN [start |-> reading, count |-> 1]
  ELSE [bucket EXCEPT !.count = IF @ > limit THEN @ ELSE @ + 1]

Admission(seq, fresh) ==
  IF fresh THEN Append(seq, [opened |-> clock, last |-> clock, admitted |-> 1])
  ELSE [seq EXCEPT ![Len(seq)] = [opened |-> @.opened, last |-> clock, admitted |-> @.admitted + 1]]

(* The critical section.                                                     *)
Enter(r) ==
  LET q == requests[r]
      key == KeyOf(q)
      bucket == Counted(buckets[key], q.reading, LimitOf[key[1]])
      exceeded == bucket.count > LimitOf[key[1]] IN
  /\ q.pc = "queued"
  /\ buckets' = [buckets EXCEPT ![key] = bucket]
  /\ windows' = IF exceeded THEN windows
                ELSE [windows EXCEPT ![key] =
                        Admission(@, Over(buckets[key], q.reading))]
  /\ requests' = [requests EXCEPT ![r] =
       IF exceeded THEN AnswerTo(q.route, "limited")
       ELSE [q EXCEPT !.pc = "admitted", !.reading = 0]]
  /\ UNCHANGED <<process, accounts, seeded, staged, clock>>

(* Authenticator.Login: credentials that are wrong or cannot be looked up; a *)
(* malformed body (400) or a token that cannot be signed (500), answers of   *)
(* no more consequence than any handler's; or a token.                       *)
Login(r) ==
  LET q == requests[r] IN
  /\ q.pc = "admitted" /\ q.route = "login"
  /\ \/ Answer(r, "unauthorized")
     \/ Answer(r, "handled")
     \/ /\ q.name \in accounts
        /\ requests' = [requests EXCEPT ![r] = [AnswerTo("login", "ok") EXCEPT
             !.token = [user |-> q.name, expires |-> clock + Expiry]]]
        /\ UNCHANGEDButRequests

(* Any other handler; what it answers is no matter here.                     *)
Handle(r) ==
  /\ requests[r].pc = "admitted" /\ requests[r].route # "login"
  /\ Answer(r, "handled")

(* A goroutine is not suspended for longer than MaxStall before the lock.    *)
Tick ==
  /\ clock < Horizon /\ clock' = clock + 1
  /\ \A r \in Requests : requests[r].pc = "queued" => clock - requests[r].reading < MaxStall
  /\ UNCHANGED <<process, accounts, seeded, staged, buckets, windows, requests>>

ComeUp == Configure \/ (\E u \in Users : SeedAccount(u)) \/ CountAnchors
          \/ (\E table \in Tables : SeedTable(table)) \/ SeedCommit

Serve(r) == Check(r) \/ ReadClock(r) \/ Enter(r) \/ Login(r) \/ Handle(r)

(* What happens without a client.                                            *)
ServerStep == ComeUp \/ Stop \/ Tick \/ \E r \in Requests : Serve(r)

(* Any client: tokens that were issued some time, or none.                   *)
Next ==
  \/ ServerStep
  \/ \E r \in Requests : \/ Receive(r)
                         \/ \E route \in Routes, from \in Addresses, name \in Users \cup {NoUser},
                               token \in Token \cup {NoToken} :
                              Send(r, route, from, name, token)

Spec == Init /\ [][Next]_serverVars
-----------------------------------------------------------------------------
(* Type invariant of the server.                                             *)
ServerTypeOK ==
  /\ process \in {"down", "accounts", "domain", "serving"}
  /\ accounts \subseteq Users
  /\ seeded \subseteq Tables /\ staged \subseteq Tables
  /\ clock \in Instants
  /\ buckets \in [Keys -> Bucket]
  /\ windows \in [Keys -> Seq(Window)]
  /\ requests \in [Requests -> Request]

(* However often the process died while it came up, once it serves every     *)
(* account and all demonstration rows are there: the test for missing rows   *)
(* (database.go:103) looks at one table for all of them.                     *)
ServesSeeded == process = "serving" => accounts = Users /\ seeded = Tables

(* A limiter admits at most its limit per window, and between the last       *)
(* admission of a window and the first one of the next but one lies more     *)
(* than a minute less the stall: in any such period at most twice the limit  *)
(* is admitted, although readings reach the bucket late and out of order     *)
(* (middleware/auth.go:113-122).                                             *)
BurstBound ==
  \A key \in Keys : \A i \in DOMAIN windows[key] :
    /\ windows[key][i].admitted <= LimitOf[key[1]]
    /\ i + 2 \in DOMAIN windows[key] =>
         windows[key][i + 2].opened - windows[key][i].last > Minute - MaxStall
=============================================================================
