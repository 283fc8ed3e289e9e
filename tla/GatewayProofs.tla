--------------------------- MODULE GatewayProofs ---------------------------
(* What the server promises, for every set of users, requests and routes,    *)
(* every limit and every length of the windows; and that the browser         *)
(* application in front of it is one of its clients.                         *)
EXTENDS Workbench, SequenceTheorems, TLAPS

(* What a request on its way has gone through.                               *)
Carried(q) ==
  /\ q.pc # "idle" => q.route \in Routes
  /\ q.pc \notin {"idle", "answered"} => q.from \in Addresses
  /\ q.pc \in {"checked", "queued", "admitted"} /\ q.route # "login" => q.token \in Token
  /\ q.pc = "queued" => RouteTable[q.route].scope # Unlimited
  /\ q.pc = "queued" => q.reading <= clock /\ clock <= q.reading + MaxStall

ServerInv == ServerTypeOK /\ \A r \in Requests : Carried(requests[r])

LEMMA KeyTyped ==
  ASSUME NEW q \in Request, q.route \in Routes, RouteTable[q.route].scope # Unlimited,
         q.from \in Addresses, q.route # "login" => q.token \in Token
  PROVE  KeyOf(q) \in Keys
<1>1. RouteTable[q.route].scope \in Scopes
  BY RouteAssumption DEF Scopes
<1>2. q.route # "login" => q.token.user \in Users
  BY DEF Token
<1> QED
  BY <1>1, <1>2 DEF KeyOf, Keys

LEMMA LimitTyped == \A key \in Keys : LimitOf[key[1]] \in Nat \ {0}
  BY LimitAssumption DEF Keys

LEMMA IdleTyped == Idle \in Request
<1>1. 0 \in Instants
  BY ClockAssumption DEF Instants
<1> QED
  BY <1>1 DEF Idle, Request, Answers

LEMMA AnswerTyped ==
  ASSUME NEW route \in Routes, NEW answer \in Answers
  PROVE  AnswerTo(route, answer) \in Request /\ AnswerTo(route, answer).route = route
         /\ AnswerTo(route, answer).pc = "answered"
  BY IdleTyped DEF AnswerTo, Idle, Request

(* A change of one request keeps the invariant if the new one is as it       *)
(* should be.                                                                *)
LEMMA OneRequest ==
  ASSUME ServerInv, NEW r \in Requests, NEW q \in Request, Carried(q),
         requests' = [requests EXCEPT ![r] = q], UNCHANGEDButRequests
  PROVE  ServerInv'
<1> USE DEF ServerInv, ServerTypeOK, UNCHANGEDButRequests
<1>1. ServerTypeOK'
  OBVIOUS
<1>2. ASSUME NEW p \in Requests PROVE Carried(requests[p])'
  <2>1. requests'[p] = IF p = r THEN q ELSE requests[p]
    OBVIOUS
  <2>2. Carried(requests[p])
    OBVIOUS
  <2> QED
    BY <2>1, <2>2 DEF Carried
<1> QED
  BY <1>1, <1>2

LEMMA ServerInit == Init => ServerInv
<1> SUFFICES ASSUME Init PROVE ServerInv
  OBVIOUS
<1>1. 0 \in Instants
  BY ClockAssumption DEF Instants
<1>2. requests \in [Requests -> Request]
  BY IdleTyped DEF Init
<1>3. buckets \in [Keys -> Bucket]
  BY DEF Init, Bucket, NoBucket
<1>4. windows \in [Keys -> Seq(Window)]
  BY DEF Init
<1>5. ServerTypeOK
  BY <1>1, <1>2, <1>3, <1>4 DEF Init, ServerTypeOK, Tables
<1>6. \A r \in Requests : Carried(requests[r])
  BY DEF Init, Carried, Idle
<1> QED
  BY <1>5, <1>6 DEF ServerInv

LEMMA ComeUpKeeps == ServerInv /\ ComeUp => ServerInv'
<1> SUFFICES ASSUME ServerInv, ComeUp PROVE ServerInv'
  OBVIOUS
<1>1. /\ UNCHANGED <<clock, buckets, windows, requests>>
      /\ process' \in {"down", "accounts", "domain", "serving"}
      /\ accounts' \subseteq Users
      /\ seeded' \subseteq Tables /\ staged' \subseteq Tables
  BY DEF ServerInv, ServerTypeOK, ComeUp, Configure, SeedAccount, CountAnchors, SeedTable,
         SeedCommit
<1> QED
  BY <1>1 DEF ServerInv, ServerTypeOK, Carried

LEMMA StopKeeps == ServerInv /\ Stop => ServerInv'
<1> SUFFICES ASSUME ServerInv, Stop PROVE ServerInv'
  OBVIOUS
<1> USE DEF ServerInv, ServerTypeOK
<1>1. ASSUME NEW r \in Requests
      PROVE  Cut(requests[r]) \in Request /\ Carried(Cut(requests[r]))
  <2>1. CASE requests[r].pc \in {"idle", "answered"}
    BY <2>1 DEF Cut
  <2>2. CASE requests[r].pc \notin {"idle", "answered"}
    <3>1. requests[r].route \in Routes
      BY <2>2 DEF Carried
    <3>2. Cut(requests[r]) = AnswerTo(requests[r].route, "unreachable")
      BY <2>2 DEF Cut
    <3> QED
      BY <3>1, <3>2, AnswerTyped DEF Answers, Carried
  <2> QED
    BY <2>1, <2>2
<1>2. requests' \in [Requests -> Request]
  BY <1>1 DEF Stop
<1>3. \A r \in Requests : Carried(requests[r])'
  BY <1>1 DEF Stop, Carried
<1>4. buckets' \in [Keys -> Bucket] /\ windows' \in [Keys -> Seq(Window)]
  BY DEF Stop, Bucket, NoBucket
<1>5. UNCHANGED <<accounts, seeded, clock>> /\ process' = "down" /\ staged' = {}
  BY DEF Stop
<1> QED
  BY <1>2, <1>3, <1>4, <1>5

LEMMA TickKeeps == ServerInv /\ Tick => ServerInv'
<1> SUFFICES ASSUME ServerInv, Tick PROVE ServerInv'
  OBVIOUS
<1> USE DEF ServerInv, ServerTypeOK
<1>1. clock' \in Instants /\ clock' = clock + 1 /\ clock \in Int
  BY ClockAssumption DEF Tick, Instants
<1>2. ASSUME NEW r \in Requests PROVE Carried(requests[r])'
  <2>1. requests[r].reading \in Int
    BY DEF Request, Instants
  <2> QED
    BY <1>1, <2>1, ClockAssumption DEF Tick, Carried
<1> QED
  BY <1>1, <1>2 DEF Tick

(* Steps that only change one request.                                       *)
LEMMA AdvanceKeeps ==
  ASSUME ServerInv, NEW r \in Requests, NEW pc \in {"checked", "admitted"},
         requests[r].pc \in {"sent", "checked"}, Advance(r, pc),
         requests[r].route # "login" => requests[r].token \in Token
  PROVE  ServerInv'
<1> DEFINE q == [requests[r] EXCEPT !.pc = pc]
<1>1. requests[r] \in Request /\ Carried(requests[r])
  BY DEF ServerInv, ServerTypeOK
<1>2. q \in Request
  BY <1>1 DEF Request
<1>3. Carried(q)
  BY <1>1 DEF Carried, Request
<1>4. requests' = [requests EXCEPT ![r] = q] /\ UNCHANGEDButRequests
  BY DEF Advance
<1> HIDE DEF q
<1> QED
  BY <1>2, <1>3, <1>4, OneRequest

LEMMA AnswerKeeps ==
  ASSUME ServerInv, NEW r \in Requests, NEW answer \in Answers, requests[r].pc # "idle",
         Answer(r, answer)
  PROVE  ServerInv'
<1> DEFINE q == AnswerTo(requests[r].route, answer)
<1>1. requests[r].route \in Routes
  BY DEF ServerInv, Carried
<1>2. q \in Request /\ Carried(q)
  BY <1>1, AnswerTyped DEF Carried
<1>3. requests' = [requests EXCEPT ![r] = q] /\ UNCHANGEDButRequests
  BY DEF Answer
<1> HIDE DEF q
<1> QED
  BY <1>2, <1>3, OneRequest

LEMMA SendKeeps ==
  ASSUME ServerInv, NEW r \in Requests, NEW route \in Routes, NEW from \in Addresses,
         NEW name \in Users \cup {NoUser}, NEW token \in Token \cup {NoToken},
         Send(r, route, from, name, token)
  PROVE  ServerInv'
<1> DEFINE sent == [Idle EXCEPT !.pc = "sent", !.route = route, !.from = from,
                                !.name = name, !.token = token]
           q == IF process # "serving" THEN AnswerTo(route, "unreachable") ELSE sent
<1>1. sent \in Request /\ Carried(sent)
  BY IdleTyped DEF Idle, Request, Carried
<1>2. AnswerTo(route, "unreachable") \in Request /\ Carried(AnswerTo(route, "unreachable"))
  BY AnswerTyped DEF Answers, Carried
<1>3. requests' = [requests EXCEPT ![r] = q] /\ UNCHANGEDButRequests
  BY DEF Send
<1> HIDE DEF sent
<1>4. q \in Request /\ Carried(q)
  BY <1>1, <1>2
<1> HIDE DEF q
<1> QED
  BY <1>3, <1>4, OneRequest

LEMMA ReceiveKeeps ==
  ASSUME ServerInv, NEW r \in Requests, Receive(r)
  PROVE  ServerInv'
<1>1. Carried(Idle)
  BY DEF Carried, Idle
<1> QED
  BY <1>1, IdleTyped, OneRequest DEF Receive

LEMMA CheckKeeps ==
  ASSUME ServerInv, NEW r \in Requests, Check(r)
  PROVE  ServerInv'
<1>1. requests[r] \in Request /\ requests[r].pc = "sent"
  BY DEF Check, ServerInv, ServerTypeOK
<1>2. \/ Answer(r, "unauthorized") \/ Answer(r, "forbidden")
      \/ /\ Advance(r, "checked")
         /\ requests[r].route # "login" => requests[r].token # NoToken
  BY DEF Check, Authentic
<1>3. requests[r].token \in Token \cup {NoToken}
  BY <1>1 DEF Request
<1> QED
  BY <1>1, <1>2, <1>3, AnswerKeeps, AdvanceKeeps DEF Answers

LEMMA ReadClockKeeps ==
  ASSUME ServerInv, NEW r \in Requests, ReadClock(r)
  PROVE  ServerInv'
<1>1. requests[r] \in Request /\ Carried(requests[r]) /\ requests[r].pc = "checked"
  BY DEF ReadClock, ServerInv, ServerTypeOK
<1>2. CASE Advance(r, "admitted")
  BY <1>1, <1>2, AdvanceKeeps DEF Carried
<1>3. CASE /\ RouteTable[requests[r].route].scope # Unlimited
           /\ requests' = [requests EXCEPT ![r] =
                          [requests[r] EXCEPT !.pc = "queued", !.reading = clock]]
           /\ UNCHANGEDButRequests
  <2> DEFINE q == [requests[r] EXCEPT !.pc = "queued", !.reading = clock]
  <2>1. clock \in Instants /\ clock \in Int
    BY DEF ServerInv, ServerTypeOK, Instants
  <2>2. q \in Request
    BY <1>1, <2>1 DEF Request
  <2>3. q.pc = "queued" /\ q.reading = clock
        /\ q.route = requests[r].route /\ q.from = requests[r].from
        /\ q.token = requests[r].token
    BY <1>1 DEF Request
  <2>4. Carried(q)
    BY <1>1, <1>3, <2>1, <2>3, ClockAssumption DEF Carried
  <2>5. requests' = [requests EXCEPT ![r] = q]
    BY <1>1, <1>3 DEF Request, ServerInv, ServerTypeOK
  <2> HIDE DEF q
  <2> QED
    BY <1>3, <2>2, <2>4, <2>5, OneRequest
<1> QED
  BY <1>2, <1>3 DEF ReadClock

LEMMA LoginKeeps ==
  ASSUME ServerInv, NEW r \in Requests, Login(r)
  PROVE  ServerInv'
<1>1. requests[r] \in Request /\ Carried(requests[r]) /\ requests[r].pc = "admitted"
      /\ requests[r].route = "login"
  BY DEF Login, ServerInv, ServerTypeOK
<1>2. CASE Answer(r, "unauthorized") \/ Answer(r, "handled")
  BY <1>1, <1>2, AnswerKeeps DEF Answers
<1>3. CASE /\ requests[r].name \in accounts /\ UNCHANGEDButRequests
           /\ requests' = [requests EXCEPT ![r] = [AnswerTo("login", "ok") EXCEPT
                !.token = [user |-> requests[r].name, expires |-> clock + Expiry]]]
  <2> DEFINE q == [AnswerTo("login", "ok") EXCEPT
                     !.token = [user |-> requests[r].name, expires |-> clock + Expiry]]
  <2>1. clock \in Nat /\ accounts \subseteq Users
    BY DEF ServerInv, ServerTypeOK, Instants
  <2>2. [user |-> requests[r].name, expires |-> clock + Expiry] \in Token
    BY <1>3, <2>1, ClockAssumption DEF Token
  <2>3. /\ AnswerTo("login", "ok") \in Request
        /\ AnswerTo("login", "ok").route = "login" /\ AnswerTo("login", "ok").pc = "answered"
    BY <1>1, AnswerTyped DEF Answers, Carried
  <2>4. q \in Request /\ q.route = "login" /\ q.pc = "answered"
    BY <2>2, <2>3 DEF Request
  <2>6. Carried(q)
    BY <1>1, <2>4 DEF Carried
  <2>5. requests' = [requests EXCEPT ![r] = q] /\ UNCHANGEDButRequests
    BY <1>3
  <2> HIDE DEF q
  <2> QED
    BY <2>4, <2>5, <2>6, OneRequest
<1> QED
  BY <1>2, <1>3 DEF Login

LEMMA HandleKeeps ==
  ASSUME ServerInv, NEW r \in Requests, Handle(r)
  PROVE  ServerInv'
  BY AnswerKeeps DEF Handle, Answers

(* What the critical section does, with its parts named.                     *)
LEMMA EnterParts ==
  ASSUME ServerInv, NEW r \in Requests, Enter(r)
  PROVE  LET q == requests[r]
             key == KeyOf(q)
             bucket == Counted(buckets[key], q.reading, LimitOf[key[1]])
             exceeded == bucket.count > LimitOf[key[1]] IN
         /\ q \in Request /\ q.pc = "queued" /\ q.route \in Routes
         /\ q.route # "login" => q.token \in Token
         /\ q.from \in Addresses
         /\ q.reading \in Instants /\ q.reading <= clock /\ clock <= q.reading + MaxStall
         /\ key \in Keys
         /\ buckets' = [buckets EXCEPT ![key] = bucket]
         /\ windows' = IF exceeded THEN windows
                       ELSE [windows EXCEPT ![key] =
                               Admission(@, Over(buckets[key], q.reading))]
         /\ requests' = [requests EXCEPT ![r] =
              IF exceeded THEN AnswerTo(q.route, "limited")
              ELSE [q EXCEPT !.pc = "admitted", !.reading = 0]]
         /\ UNCHANGED <<process, accounts, seeded, staged, clock>>
<1>1. /\ requests[r] \in Request /\ Carried(requests[r])
      /\ requests[r].pc = "queued" /\ requests[r].reading \in Instants
  BY DEF Enter, ServerInv, ServerTypeOK, Request
<1>2. KeyOf(requests[r]) \in Keys
  BY <1>1, KeyTyped DEF Carried
<1> QED
  BY <1>1, <1>2 DEF Enter, Carried

(* A bucket stays within its type, and never over its limit by more than     *)
(* one.                                                                      *)
LEMMA CountedTyped ==
  ASSUME NEW bucket \in Bucket, NEW reading \in Instants, NEW limit \in Nat \ {0}
  PROVE  /\ Counted(bucket, reading, limit) \in Bucket
         /\ Over(bucket, reading) => Counted(bucket, reading, limit)
                                      = [start |-> reading, count |-> 1]
         /\ ~Over(bucket, reading) => /\ Counted(bucket, reading, limit).start = bucket.start
                                      /\ Counted(bucket, reading, limit).count > limit
                                         \/ Counted(bucket, reading, limit).count = bucket.count + 1
                                      /\ Counted(bucket, reading, limit).count >= bucket.count
<1>1. CASE Over(bucket, reading)
  BY <1>1 DEF Counted, Bucket
<1>2. CASE ~Over(bucket, reading)
  BY <1>2 DEF Counted, Bucket
<1> QED
  BY <1>1, <1>2

(* What an admission adds to the history of a bucket.                        *)
LEMMA AdmissionTyped ==
  ASSUME clock \in Instants, NEW seq \in Seq(Window), NEW fresh \in BOOLEAN,
         fresh \/ seq # <<>>
  PROVE  LET after == Admission(seq, fresh) IN
         /\ after \in Seq(Window)
         /\ Len(after) = IF fresh THEN Len(seq) + 1 ELSE Len(seq)
         /\ \A i \in 1 .. Len(after) : i # Len(after) => after[i] = seq[i]
         /\ after[Len(after)] =
              IF fresh THEN [opened |-> clock, last |-> clock, admitted |-> 1]
              ELSE [opened |-> seq[Len(seq)].opened, last |-> clock,
                    admitted |-> seq[Len(seq)].admitted + 1]
<1>1. CASE fresh
  BY <1>1 DEF Admission, Window
<1>2. CASE ~fresh
  <2> DEFINE w == [opened |-> seq[Len(seq)].opened, last |-> clock,
                   admitted |-> seq[Len(seq)].admitted + 1]
  <2>1. Len(seq) \in 1 .. Len(seq) /\ seq[Len(seq)] \in Window
    BY <1>2
  <2>2. w \in Window
    BY <2>1 DEF Window
  <2>4. Admission(seq, fresh) = [seq EXCEPT ![Len(seq)] = w]
    BY <1>2 DEF Admission
  <2> HIDE DEF w
  <2>5. /\ [seq EXCEPT ![Len(seq)] = w] \in Seq(Window)
        /\ Len([seq EXCEPT ![Len(seq)] = w]) = Len(seq)
        /\ [seq EXCEPT ![Len(seq)] = w][Len(seq)] = w
        /\ \A i \in 1 .. Len(seq) : i # Len(seq) => [seq EXCEPT ![Len(seq)] = w][i] = seq[i]
    BY <2>1, <2>2, ExceptSeq
  <2> QED
    BY <1>2, <2>4, <2>5 DEF w
<1> QED
  BY <1>1, <1>2

(* A bucket has a start exactly when it has admitted something.              *)
Started == \A key \in Keys : buckets[key].start = Never <=> windows[key] = <<>>

LEMMA EnterKeeps ==
  ASSUME ServerInv, Started, NEW r \in Requests, Enter(r)
  PROVE  ServerInv'
<1> DEFINE q == requests[r]
           key == KeyOf(q)
           limit == LimitOf[key[1]]
           bucket == Counted(buckets[key], q.reading, limit)
           fresh == Over(buckets[key], q.reading)
           next == IF bucket.count > limit THEN AnswerTo(q.route, "limited")
                   ELSE [q EXCEPT !.pc = "admitted", !.reading = 0]
<1>1. /\ q \in Request /\ q.pc = "queued" /\ q.route \in Routes
      /\ q.route # "login" => q.token \in Token
      /\ q.from \in Addresses /\ q.reading \in Instants
      /\ key \in Keys
      /\ buckets' = [buckets EXCEPT ![key] = bucket]
      /\ windows' = IF bucket.count > limit THEN windows
                    ELSE [windows EXCEPT ![key] = Admission(@, fresh)]
      /\ requests' = [requests EXCEPT ![r] = next]
      /\ UNCHANGED <<process, accounts, seeded, staged, clock>>
  BY EnterParts
<1>2. next \in Request /\ Carried(next)
  <2>1. CASE bucket.count > limit
    BY <1>1, <2>1, AnswerTyped DEF Carried, Answers
  <2>2. CASE ~(bucket.count > limit)
    <3>1. 0 \in Instants
      BY ClockAssumption DEF Instants
    <3>2. /\ next \in Request /\ next.pc = "admitted" /\ next.route = q.route
          /\ next.from = q.from /\ next.token = q.token
      BY <1>1, <2>2, <3>1 DEF Request
    <3> QED
      BY <1>1, <3>2 DEF Carried
  <2> QED
    BY <2>1, <2>2
<1>3. buckets[key] \in Bucket /\ windows[key] \in Seq(Window) /\ limit \in Nat \ {0}
  BY <1>1, LimitTyped DEF ServerInv, ServerTypeOK
<1>4. bucket \in Bucket
  BY <1>1, <1>3, CountedTyped
<1>5. fresh \in BOOLEAN
  BY DEF Over
<1>6. Admission(windows[key], fresh) \in Seq(Window)
  <2>1. fresh \/ windows[key] # <<>>
    BY <1>1 DEF Over, Started
  <2>2. clock \in Instants
    BY DEF ServerInv, ServerTypeOK
  <2> HIDE DEF fresh, key
  <2> QED
    BY <1>3, <1>5, <2>1, <2>2, AdmissionTyped
<1> HIDE DEF q, key, limit, bucket, fresh, next
<1>7. ServerTypeOK'
  BY <1>1, <1>2, <1>4, <1>6 DEF ServerInv, ServerTypeOK
<1>8. ASSUME NEW p \in Requests PROVE Carried(requests[p])'
  <2>1. requests'[p] = IF p = r THEN next ELSE requests[p]
    BY <1>1 DEF ServerInv, ServerTypeOK
  <2>2. Carried(requests[p])
    BY DEF ServerInv
  <2> QED
    BY <1>1, <1>2, <2>1, <2>2 DEF Carried
<1> QED
  BY <1>7, <1>8 DEF ServerInv
-----------------------------------------------------------------------------
(* What the start and the count of a bucket tell of its windows w: a window  *)
(* is left only by a reading a minute after its start, and what it admits it *)
(* admits at most MaxStall after a reading.                                  *)
Fits(w, start, count, limit) ==
  /\ start = Never <=> Len(w) = 0
  /\ Len(w) > 0 => w[Len(w)].admitted <= count
  /\ Len(w) > 0 => w[Len(w)].last < start + Minute + MaxStall
  /\ Len(w) > 1 => w[Len(w) - 1].last < start + MaxStall
  /\ \A i \in 1 .. Len(w) : w[i].admitted <= limit
  /\ \A i \in 1 .. Len(w) : i + 2 <= Len(w) => w[i + 2].opened - w[i].last > Minute - MaxStall

Paced(key) == Fits(windows[key], buckets[key].start, buckets[key].count, LimitOf[key[1]])

Pacing == \A key \in Keys : Paced(key)

LEMMA WindowsTyped ==
  ASSUME NEW w \in Seq(Window)
  PROVE  /\ Len(w) \in Nat
         /\ w = <<>> <=> Len(w) = 0
         /\ \A i \in 1 .. Len(w) : /\ w[i] \in Window /\ w[i].opened \in Int
                                   /\ w[i].last \in Int /\ w[i].admitted \in Int
<1>1. \A i \in 1 .. Len(w) : w[i] \in Window
  OBVIOUS
<1> QED
  BY <1>1 DEF Window, Instants

(* A refusal raises the count at most.                                       *)
LEMMA FitsRefused ==
  ASSUME NEW w \in Seq(Window), NEW start \in Int \cup {Never}, NEW count \in Nat, NEW limit \in Nat,
         NEW more \in Nat, more >= count, Fits(w, start, count, limit)
  PROVE  Fits(w, start, more, limit)
<1>1. ASSUME Len(w) > 0 PROVE w[Len(w)].admitted <= more
  <2>1. w[Len(w)].admitted <= count
    BY <1>1 DEF Fits
  <2>2. w[Len(w)].admitted \in Int
    BY <1>1, WindowsTyped
  <2> QED
    BY <2>1, <2>2
<1> QED
  BY <1>1 DEF Fits

LEMMA Apart ==
  ASSUME NEW at \in Int, NEW reading \in Int, NEW start \in Int, NEW last \in Int,
         reading <= at, reading - start >= Minute, last < start + MaxStall
  PROVE  at - last > Minute - MaxStall
  BY ClockAssumption

(* An admission that opens a window.                                         *)
LEMMA FitsOpened ==
  ASSUME NEW w \in Seq(Window), NEW start \in Int \cup {Never}, NEW count \in Nat,
         NEW limit \in Nat \ {0}, Fits(w, start, count, limit),
         NEW reading \in Int, NEW at \in Int, reading <= at, at <= reading + MaxStall,
         start # Never => reading - start >= Minute,
         NEW v \in Seq(Window), Len(v) = Len(w) + 1, \A i \in 1 .. Len(w) : v[i] = w[i],
         v[Len(v)] = [opened |-> at, last |-> at, admitted |-> 1]
  PROVE  Fits(v, reading, 1, limit)
<1> DEFINE n == Len(w)
           m == Len(v)
<1>1. /\ n \in Nat /\ m = n + 1
      /\ Minute \in Nat \ {0} /\ MaxStall \in Nat /\ Never \notin Int
      /\ v[m].opened = at /\ v[m].last = at /\ v[m].admitted = 1
  BY WindowsTyped, ClockAssumption, SentinelAssumption
<1>2. \A i \in 1 .. n : /\ v[i] = w[i] /\ w[i].opened \in Int
                        /\ w[i].last \in Int /\ w[i].admitted \in Int
  BY WindowsTyped
<1>3. n > 0 => start \in Int /\ reading - start >= Minute
  BY <1>1 DEF Fits
<1> HIDE DEF n, m
<1>4. v[m].last < reading + Minute + MaxStall
  <2>1. at < reading + Minute + MaxStall
    BY ClockAssumption
  <2> QED
    BY <1>1, <2>1
<1>5. ASSUME m > 1 PROVE v[m - 1].last < reading + MaxStall
  <2>1. n \in 1 .. n /\ m - 1 = n
    BY <1>1, <1>5
  <2>2. w[n].last < start + Minute + MaxStall
    BY <1>1, <2>1 DEF Fits, n
  <2>3. v[n] = w[n] /\ w[n].last \in Int
    BY <1>2, <2>1
  <2> QED
    BY <1>1, <1>3, <2>1, <2>2, <2>3
<1>6. ASSUME NEW i \in 1 .. m PROVE v[i].admitted <= limit
  <2>1. CASE i = m
    BY <1>1, <2>1
  <2>2. CASE i # m
    <3>1. i \in 1 .. n
      BY <1>1, <2>2
    <3>2. w[i].admitted <= limit
      BY <3>1 DEF Fits, n
    <3> QED
      BY <1>2, <3>1, <3>2
  <2> QED
    BY <2>1, <2>2
<1>7. ASSUME NEW i \in 1 .. m, i + 2 <= m PROVE v[i + 2].opened - v[i].last > Minute - MaxStall
  <2>1. i \in 1 .. n
    BY <1>1, <1>7
  <2>2. v[i] = w[i] /\ w[i].last \in Int
    BY <1>2, <2>1
  <2>3. CASE i + 2 = m
    <3>1. n > 1 /\ i = n - 1
      BY <1>1, <2>1, <2>3
    <3>2. w[i].last < start + MaxStall
      BY <3>1 DEF Fits, n
    <3>3. v[i + 2].opened = at
      BY <1>1, <2>3
    <3>4. start \in Int /\ reading - start >= Minute
      BY <1>1, <1>3, <3>1
    <3>5. at - w[i].last > Minute - MaxStall
      BY <2>2, <3>2, <3>4, Apart
    <3> QED
      BY <2>2, <3>3, <3>5
  <2>4. CASE i + 2 # m
    <3>1. i + 2 \in 1 .. n /\ i + 2 <= n
      BY <1>1, <1>7, <2>1, <2>4
    <3>2. w[i + 2].opened - w[i].last > Minute - MaxStall
      BY <2>1, <3>1 DEF Fits, n
    <3>3. v[i + 2] = w[i + 2]
      BY <1>2, <3>1
    <3> QED
      BY <2>2, <3>2, <3>3
  <2> QED
    BY <2>3, <2>4
<1>8. reading # Never /\ m # 0 /\ v[m].admitted <= 1
  BY <1>1
<1> QED
  BY <1>4, <1>5, <1>6, <1>7, <1>8 DEF Fits, m

(* An admission in the window.                                               *)
LEMMA FitsExtended ==
  ASSUME NEW w \in Seq(Window), NEW start \in Int, NEW count \in Nat,
         NEW limit \in Nat \ {0}, Fits(w, start, count, limit), count + 1 <= limit,
         NEW reading \in Int, NEW at \in Int, at <= reading + MaxStall,
         reading - start < Minute,
         NEW v \in Seq(Window), Len(v) = Len(w),
         \A i \in 1 .. Len(w) : i # Len(w) => v[i] = w[i],
         v[Len(w)] = [opened |-> w[Len(w)].opened, last |-> at,
                      admitted |-> w[Len(w)].admitted + 1]
  PROVE  Fits(v, start, count + 1, limit)
<1> DEFINE n == Len(w)
<1>1. /\ n \in Nat /\ Len(v) = n
      /\ Minute \in Nat \ {0} /\ MaxStall \in Nat /\ Never \notin Int
      /\ v[n].opened = w[n].opened /\ v[n].last = at /\ v[n].admitted = w[n].admitted + 1
  BY WindowsTyped, ClockAssumption, SentinelAssumption
<1>2. n > 0
  BY <1>1 DEF Fits
<1>3. \A i \in 1 .. n : w[i].opened \in Int /\ w[i].last \in Int /\ w[i].admitted \in Int
  BY WindowsTyped
<1>4. w[n].admitted <= count /\ w[n].admitted \in Int
  BY <1>1, <1>2, <1>3 DEF Fits
<1>5. \A i \in 1 .. n : v[i].opened = w[i].opened /\ (i # n => v[i] = w[i])
  BY <1>1
<1>6. \A i \in 1 .. n : w[i].admitted <= limit
  BY DEF Fits
<1>7. \A i \in 1 .. n : i + 2 <= n => w[i + 2].opened - w[i].last > Minute - MaxStall
  BY DEF Fits
<1>8. ASSUME n > 1 PROVE v[n - 1].last < start + MaxStall
  <2>1. w[n - 1].last < start + MaxStall
    BY <1>8 DEF Fits
  <2>2. n - 1 \in 1 .. n /\ n - 1 # n
    BY <1>1, <1>8
  <2> QED
    BY <1>5, <2>1, <2>2
<1> HIDE DEF n
<1>9. v[n].admitted <= count + 1 /\ v[n].admitted <= limit
  BY <1>1, <1>4
<1>10. v[n].last < start + Minute + MaxStall
  BY <1>1
<1>11. ASSUME NEW i \in 1 .. n PROVE v[i].admitted <= limit
  BY <1>5, <1>6, <1>9
<1>12. ASSUME NEW i \in 1 .. n, i + 2 <= n PROVE v[i + 2].opened - v[i].last > Minute - MaxStall
  <2>0. n \in Nat /\ i \in 1 .. n /\ i + 2 <= n
    BY <1>1, <1>12
  <2>1. i + 2 \in 1 .. n /\ i # n
    BY <2>0
  <2>2. v[i] = w[i] /\ v[i + 2].opened = w[i + 2].opened
    BY <1>5, <2>1
  <2> QED
    BY <1>7, <1>12, <2>2
<1>13. start # Never /\ n # 0
  BY <1>1, <1>2
<1> QED
  BY <1>1, <1>8, <1>9, <1>10, <1>11, <1>12, <1>13 DEF Fits, n

LEMMA PacingStarted == ServerTypeOK /\ Pacing => Started
  BY WindowsTyped DEF Pacing, Paced, Fits, Started, ServerTypeOK

LEMMA PacingBounds == ServerTypeOK /\ Pacing => BurstBound
<1> SUFFICES ASSUME ServerTypeOK, Pacing, NEW key \in Keys, NEW i \in DOMAIN windows[key]
             PROVE  /\ windows[key][i].admitted <= LimitOf[key[1]]
                    /\ i + 2 \in DOMAIN windows[key] =>
                         windows[key][i + 2].opened - windows[key][i].last > Minute - MaxStall
  BY DEF BurstBound
<1>1. windows[key] \in Seq(Window)
  BY DEF ServerTypeOK
<1>2. DOMAIN windows[key] = 1 .. Len(windows[key]) /\ Len(windows[key]) \in Nat
  BY <1>1
<1>3. Fits(windows[key], buckets[key].start, buckets[key].count, LimitOf[key[1]])
  BY DEF Pacing, Paced
<1>4. windows[key][i].admitted <= LimitOf[key[1]]
  BY <1>2, <1>3 DEF Fits
<1>5. ASSUME i + 2 \in DOMAIN windows[key]
      PROVE  windows[key][i + 2].opened - windows[key][i].last > Minute - MaxStall
  <2>1. i \in 1 .. Len(windows[key]) /\ i + 2 <= Len(windows[key])
    BY <1>2, <1>5
  <2> QED
    BY <1>3, <2>1 DEF Fits
<1> QED
  BY <1>4, <1>5

LEMMA EmptyPaced ==
  ASSUME NEW key \in Keys, buckets[key] = NoBucket, windows[key] = <<>>
  PROVE  Paced(key)
  BY DEF Paced, Fits, NoBucket

LEMMA EnterPaces ==
  ASSUME ServerInv, Pacing, NEW r \in Requests, Enter(r)
  PROVE  Pacing'
<1> DEFINE q == requests[r]
           key == KeyOf(q)
           limit == LimitOf[key[1]]
           bucket == Counted(buckets[key], q.reading, limit)
           fresh == Over(buckets[key], q.reading)
<1>1. /\ q.reading \in Instants /\ q.reading <= clock /\ clock <= q.reading + MaxStall
      /\ key \in Keys
      /\ buckets' = [buckets EXCEPT ![key] = bucket]
      /\ windows' = IF bucket.count > limit THEN windows
                    ELSE [windows EXCEPT ![key] = Admission(@, fresh)]
  BY EnterParts
<1>2. /\ buckets[key] \in Bucket /\ windows[key] \in Seq(Window) /\ limit \in Nat \ {0}
      /\ clock \in Instants
  BY <1>1, LimitTyped DEF ServerInv, ServerTypeOK
<1>3. /\ fresh => bucket = [start |-> q.reading, count |-> 1]
      /\ ~fresh => /\ bucket.start = buckets[key].start
                   /\ bucket.count > limit \/ bucket.count = buckets[key].count + 1
                   /\ bucket.count >= buckets[key].count
      /\ bucket \in Bucket /\ fresh \in BOOLEAN
  BY <1>1, <1>2, CountedTyped DEF Over
<1>4. fresh <=> buckets[key].start = Never \/ q.reading - buckets[key].start >= Minute
  BY DEF Over
<1>5. limit = LimitOf[key[1]]
  OBVIOUS
<1> HIDE DEF q, key, limit, bucket, fresh
<1>6. ASSUME NEW k \in Keys, k # key PROVE Paced(k)'
  <2>1. buckets'[k] = buckets[k] /\ windows'[k] = windows[k]
    BY <1>1, <1>6 DEF ServerInv, ServerTypeOK
  <2>2. Paced(k)
    BY DEF Pacing
  <2> QED
    BY <2>1, <2>2 DEF Paced
<1>7. ASSUME NEW k \in Keys, k = key PROVE Paced(k)'
  <2>1. Fits(windows[k], buckets[k].start, buckets[k].count, limit)
    BY <1>5, <1>7 DEF Pacing, Paced
  <2>2. SUFFICES Fits(windows'[k], bucket.start, bucket.count, limit)
    BY <1>1, <1>5, <1>7 DEF Paced, ServerInv, ServerTypeOK
  <2>3. /\ windows[k] \in Seq(Window) /\ buckets[k].start \in Int \cup {Never}
        /\ buckets[k].count \in Nat /\ bucket.count \in Nat
        /\ clock \in Int /\ q.reading \in Int
    BY <1>1, <1>2, <1>3, <1>7 DEF Bucket, Instants
  <2>4. CASE bucket.count > limit
    <3>1. ~fresh
      BY <1>2, <1>3, <2>4
    <3>2. windows'[k] = windows[k] /\ bucket.start = buckets[k].start
          /\ bucket.count >= buckets[k].count
      BY <1>1, <1>3, <1>7, <2>4, <3>1
    <3> QED
      BY <1>2, <2>1, <2>3, <3>2, FitsRefused
  <2>5. CASE ~(bucket.count > limit)
    <3>1. windows'[k] = Admission(windows[k], fresh)
      BY <1>1, <1>7, <2>5 DEF ServerInv, ServerTypeOK
    <3>2. fresh \/ windows[k] # <<>>
      BY <1>4, <1>7, <2>1, <2>3, WindowsTyped DEF Fits
    <3>3. /\ windows'[k] \in Seq(Window)
          /\ Len(windows'[k]) = IF fresh THEN Len(windows[k]) + 1 ELSE Len(windows[k])
          /\ \A i \in 1 .. Len(windows'[k]) :
               i # Len(windows'[k]) => windows'[k][i] = windows[k][i]
          /\ windows'[k][Len(windows'[k])] =
               IF fresh THEN [opened |-> clock, last |-> clock, admitted |-> 1]
               ELSE [opened |-> windows[k][Len(windows[k])].opened, last |-> clock,
                     admitted |-> windows[k][Len(windows[k])].admitted + 1]
      BY <1>2, <1>3, <2>3, <3>1, <3>2, AdmissionTyped
    <3>4. Len(windows[k]) \in Nat
      BY <2>3
    <3>5. CASE fresh
      <4>1. bucket.start = q.reading /\ bucket.count = 1
        BY <1>3, <3>5
      <4>2. buckets[k].start # Never => q.reading - buckets[k].start >= Minute
        BY <1>4, <1>7, <3>5
      <4>3. \A i \in 1 .. Len(windows[k]) : windows'[k][i] = windows[k][i]
        BY <3>3, <3>4, <3>5
      <4>4. /\ windows'[k] \in Seq(Window) /\ Len(windows'[k]) = Len(windows[k]) + 1
            /\ windows'[k][Len(windows'[k])] = [opened |-> clock, last |-> clock, admitted |-> 1]
        BY <3>3, <3>5
      <4>5. Fits(windows'[k], q.reading, 1, limit)
        <5>1. limit \in Nat \ {0} /\ q.reading <= clock /\ clock <= q.reading + MaxStall
          BY <1>1, <1>2
        <5> QED
          BY <2>1, <2>3, <4>2, <4>3, <4>4, <5>1, FitsOpened
      <4> QED
        BY <4>1, <4>5
    <3>6. CASE ~fresh
      <4>1. /\ bucket.start = buckets[k].start /\ bucket.count = buckets[k].count + 1
            /\ buckets[k].start \in Int /\ q.reading - buckets[k].start < Minute
        BY <1>3, <1>4, <1>7, <2>3, <2>5, <3>6, ClockAssumption
      <4>2. buckets[k].count + 1 <= limit
        BY <1>2, <2>3, <2>5, <4>1
      <4>3. /\ windows'[k] \in Seq(Window) /\ Len(windows'[k]) = Len(windows[k])
            /\ \A i \in 1 .. Len(windows[k]) :
                 i # Len(windows[k]) => windows'[k][i] = windows[k][i]
            /\ windows'[k][Len(windows[k])] =
                 [opened |-> windows[k][Len(windows[k])].opened, last |-> clock,
                  admitted |-> windows[k][Len(windows[k])].admitted + 1]
        BY <3>3, <3>6
      <4>4. Fits(windows'[k], buckets[k].start, buckets[k].count + 1, limit)
        <5>1. limit \in Nat \ {0} /\ clock <= q.reading + MaxStall
          BY <1>1, <1>2
        <5> QED
          BY <2>1, <2>3, <4>1, <4>2, <4>3, <5>1, FitsExtended
      <4> QED
        BY <4>1, <4>4
    <3> QED
      BY <3>5, <3>6
  <2> QED
    BY <2>4, <2>5
<1> QED
  BY <1>6, <1>7 DEF Pacing
-----------------------------------------------------------------------------
(* Coming up: an anchor is only ever committed with all other rows, and the  *)
(* accounts are complete before anything else happens.                       *)
Seeding ==
  /\ "anchors" \in seeded => seeded = Tables
  /\ process \in {"domain", "serving"} => accounts = Users
  /\ process = "serving" => seeded = Tables

GatewayInv == ServerInv /\ Seeding /\ Pacing

LEMMA GatewayInit == Init => GatewayInv
<1> SUFFICES ASSUME Init PROVE GatewayInv
  OBVIOUS
<1>1. Seeding
  BY DEF Init, Seeding
<1>2. ASSUME NEW key \in Keys PROVE Paced(key)
  BY EmptyPaced DEF Init
<1> QED
  BY <1>1, <1>2, ServerInit DEF GatewayInv, Pacing

LEMMA SeedingKept ==
  ASSUME ServerInv, Seeding, ComeUp \/ Stop \/ UNCHANGED <<process, accounts, seeded>>
  PROVE  Seeding'
<1>1. accounts \subseteq Users /\ seeded \subseteq Tables
  BY DEF ServerInv, ServerTypeOK
<1>2. CASE ComeUp
  BY <1>1, <1>2 DEF Seeding, ComeUp, Configure, SeedAccount, CountAnchors, SeedTable, SeedCommit
<1>3. CASE Stop
  BY <1>3 DEF Seeding, Stop
<1>4. CASE UNCHANGED <<process, accounts, seeded>>
  BY <1>4 DEF Seeding
<1> QED
  BY <1>2, <1>3, <1>4

LEMMA PacingKept ==
  ASSUME Pacing, UNCHANGED <<buckets, windows>>
  PROVE  Pacing'
  BY DEF Pacing, Paced

LEMMA ServerStepKeeps == GatewayInv /\ ServerStep => GatewayInv'
<1> SUFFICES ASSUME GatewayInv, ServerStep PROVE GatewayInv'
  OBVIOUS
<1> USE DEF GatewayInv
<1>1. CASE ComeUp
  <2>1. UNCHANGED <<buckets, windows>>
    BY <1>1 DEF ComeUp, Configure, SeedAccount, CountAnchors, SeedTable, SeedCommit
  <2> QED
    BY <1>1, <2>1, ComeUpKeeps, SeedingKept, PacingKept
<1>2. CASE Stop
  <2>1. ASSUME NEW key \in Keys PROVE Paced(key)'
    BY <1>2 DEF Stop, Paced, Fits, NoBucket
  <2> QED
    BY <1>2, <2>1, StopKeeps, SeedingKept DEF Pacing
<1>3. CASE Tick
  <2>1. UNCHANGED <<process, accounts, seeded, buckets, windows>>
    BY <1>3 DEF Tick
  <2> QED
    BY <1>3, <2>1, TickKeeps, SeedingKept, PacingKept
<1>4. ASSUME NEW r \in Requests, Check(r) \/ ReadClock(r) \/ Login(r) \/ Handle(r)
      PROVE  GatewayInv'
  <2>1. UNCHANGEDButRequests
    BY <1>4 DEF Check, ReadClock, Login, Handle, Advance, Answer
  <2>2. ServerInv'
    BY <1>4, CheckKeeps, ReadClockKeeps, LoginKeeps, HandleKeeps
  <2> QED
    BY <2>1, <2>2, SeedingKept, PacingKept DEF UNCHANGEDButRequests
<1>5. ASSUME NEW r \in Requests, Enter(r) PROVE GatewayInv'
  <2>1. UNCHANGED <<process, accounts, seeded>>
    BY <1>5 DEF Enter
  <2>2. Started
    BY PacingStarted DEF ServerInv
  <2> QED
    BY <1>5, <2>1, <2>2, EnterKeeps, EnterPaces, SeedingKept
<1> QED
  BY <1>1, <1>2, <1>3, <1>4, <1>5 DEF ServerStep, Serve

LEMMA GatewayStep == GatewayInv /\ [Next]_serverVars => GatewayInv'
<1> SUFFICES ASSUME GatewayInv, [Next]_serverVars PROVE GatewayInv'
  OBVIOUS
<1>1. CASE ServerStep
  BY <1>1, ServerStepKeeps
<1>2. ASSUME NEW r \in Requests, Receive(r) PROVE GatewayInv'
  <2>1. UNCHANGEDButRequests
    BY <1>2 DEF Receive
  <2> QED
    BY <1>2, <2>1, ReceiveKeeps, SeedingKept, PacingKept DEF UNCHANGEDButRequests, GatewayInv
<1>3. ASSUME NEW r \in Requests, NEW route \in Routes, NEW from \in Addresses,
             NEW name \in Users \cup {NoUser}, NEW token \in Token \cup {NoToken},
             Send(r, route, from, name, token)
      PROVE  GatewayInv'
  <2>1. UNCHANGEDButRequests
    BY <1>3 DEF Send
  <2> QED
    BY <1>3, <2>1, SendKeeps, SeedingKept, PacingKept DEF UNCHANGEDButRequests, GatewayInv
<1>4. CASE UNCHANGED serverVars
  <2>1. UNCHANGED <<process, accounts, seeded, staged, clock, buckets, windows, requests>>
    BY <1>4 DEF serverVars
  <2>2. ServerInv'
    BY <2>1 DEF GatewayInv, ServerInv, ServerTypeOK, Carried
  <2> QED
    BY <2>1, <2>2, SeedingKept, PacingKept DEF GatewayInv
<1> QED
  BY <1>1, <1>2, <1>3, <1>4 DEF Next

THEOREM GatewayInvariant == Spec => []GatewayInv
  BY GatewayInit, GatewayStep, PTL DEF Spec

(* The state of the server is well typed.                                    *)
THEOREM ServerTyped == Spec => []ServerTypeOK
<1>1. GatewayInv => ServerTypeOK
  BY DEF GatewayInv, ServerInv
<1> QED
  BY <1>1, GatewayInvariant, PTL

(* However often it dies while it comes up, the server serves with all its   *)
(* accounts and demonstration rows: one count of one table is enough because *)
(* all rows are committed together.                                          *)
THEOREM AlwaysServesSeeded == Spec => []ServesSeeded
<1>1. GatewayInv => ServesSeeded
  BY DEF GatewayInv, Seeding, ServesSeeded
<1> QED
  BY <1>1, GatewayInvariant, PTL

(* No interleaving of goroutines, and no late or reordered reading of the    *)
(* clock within MaxStall, makes a limiter admit more than its limit per      *)
(* window or more than twice the limit around the end of a window.           *)
THEOREM BurstAlwaysBounded == Spec => []BurstBound
<1>1. GatewayInv => BurstBound
  BY PacingBounds DEF GatewayInv, ServerInv
<1> QED
  BY <1>1, GatewayInvariant, PTL
-----------------------------------------------------------------------------
(* What the browser keeps: a session is a token with its owner, whether      *)
(* stored or shown, and an aware tab shows what is stored.                   *)
Kept ==
  /\ storage \in Session
  /\ shown \in [Tabs -> Session]
  /\ signingIn \in [Tabs -> BOOLEAN]
  /\ callers \in [Requests -> Tabs \cup {NoTab}]
  /\ aware \subseteq Tabs
  /\ storage.token # NoToken => storage.user = storage.token.user
  /\ \A t \in aware : shown[t] = storage

(* The answer to a login carries a token.                                    *)
TokenGiven == \A r \in Requests : requests[r].answer = "ok" => requests[r].token \in Token

WorkbenchInv == GatewayInv /\ Kept /\ TokenGiven

LEMMA WorkbenchInit == WInit => WorkbenchInv
<1> SUFFICES ASSUME WInit PROVE WorkbenchInv
  OBVIOUS
<1>1. GatewayInv
  BY GatewayInit DEF WInit
<1>2. TokenGiven
  BY DEF WInit, Init, Idle, TokenGiven
<1>3. SignedOut \in Session /\ SignedOut.token = NoToken
  BY DEF SignedOut, Session
<1>4. Kept
  BY <1>3 DEF WInit, Kept
<1> QED
  BY <1>1, <1>2, <1>4 DEF WorkbenchInv

(* What a step of the browser is to the server.                              *)
LEMMA BrowserIsClient ==
  ASSUME WorkbenchInv, [WNext]_vars
  PROVE  \/ ServerStep /\ UNCHANGED browserVars
         \/ \E r \in Requests :
              \/ Receive(r)
              \/ \E route \in Routes, name \in Users \cup {NoUser},
                    token \in Token \cup {NoToken} : Send(r, route, Browser, name, token)
         \/ UNCHANGED serverVars
<1>1. storage.token \in Token \cup {NoToken} /\ "login" \in Routes
  BY BrowserAssumption DEF WorkbenchInv, Kept, Session
<1>2. CASE ServerStep /\ UNCHANGED browserVars
  BY <1>2
<1>3. ASSUME NEW r \in Requests, Answered(r) PROVE Receive(r)
  BY <1>3 DEF Answered, LoseAnswer, TakeAnswer
<1>4. ASSUME NEW r \in Requests, NEW t \in Tabs, NEW name \in Users \cup {NoUser},
             SignIn(t, r, name)
      PROVE  Send(r, "login", Browser, name, NoToken)
  BY <1>4 DEF SignIn
<1>5. ASSUME NEW r \in Requests, NEW t \in Tabs, NEW route \in Routes, Click(t, r, route)
      PROVE  Send(r, route, Browser, NoUser, storage.token)
  BY <1>5 DEF Click
<1>6. ASSUME NEW t \in Tabs, SignOut(t) \/ Reload(t) PROVE UNCHANGED serverVars
  BY <1>6 DEF SignOut, Reload
<1>7. CASE UNCHANGED vars
  BY <1>7 DEF vars
<1>8. CASE WNext
  <2>1. ASSUME NEW r \in Requests, NEW t \in Tabs,
               \/ \E name \in Users \cup {NoUser} : SignIn(t, r, name)
               \/ \E route \in Routes : Click(t, r, route)
        PROVE  \E route \in Routes, name \in Users \cup {NoUser},
                 token \in Token \cup {NoToken} : Send(r, route, Browser, name, token)
    BY <1>1, <1>4, <1>5, <2>1
  <2> QED
    BY <1>2, <1>3, <1>6, <1>8, <2>1 DEF WNext
<1> QED
  BY <1>7, <1>8

LEMMA WorkbenchIsGatewayStep == WorkbenchInv /\ [WNext]_vars => [Next]_serverVars
  BY BrowserIsClient, BrowserAssumption DEF Next

LEMMA TokenGivenKept ==
  ASSUME WorkbenchInv, [Next]_serverVars
  PROVE  TokenGiven'
<1> USE DEF TokenGiven
<1>1. ASSUME NEW p \in Requests
      PROVE  requests[p] \in Request /\ (requests[p].answer = "ok" => requests[p].token \in Token)
  BY DEF WorkbenchInv, GatewayInv, ServerInv, ServerTypeOK
<1>2. \A route : \A answer : AnswerTo(route, answer).answer = answer
  BY DEF AnswerTo, Idle
<1>3. ASSUME NEW r \in Requests, NEW route \in Routes, NEW from \in Addresses,
             NEW name \in Users \cup {NoUser}, NEW token \in Token \cup {NoToken},
             Send(r, route, from, name, token)
      PROVE  TokenGiven'
  BY <1>1, <1>2, <1>3 DEF Send, Idle
<1>4. ASSUME NEW r \in Requests, Receive(r) PROVE TokenGiven'
  BY <1>1, <1>4 DEF Receive, Idle
<1>5. CASE UNCHANGED requests
  BY <1>1, <1>5
<1>6. CASE Stop
  BY <1>1, <1>2, <1>6 DEF Stop, Cut
<1>7. ASSUME NEW r \in Requests, NEW answer \in Answers, Answer(r, answer), answer # "ok"
      PROVE  TokenGiven'
  BY <1>1, <1>2, <1>7 DEF Answer
<1>8. ASSUME NEW r \in Requests, NEW pc \in {"checked", "admitted"}, Advance(r, pc)
      PROVE  TokenGiven'
  BY <1>1, <1>8 DEF Advance, Request
<1>9. ASSUME NEW r \in Requests, Check(r) PROVE TokenGiven'
  BY <1>7, <1>8, <1>9 DEF Check, Answers
<1>10. ASSUME NEW r \in Requests, ReadClock(r) PROVE TokenGiven'
  <2>1. CASE Advance(r, "admitted")
    BY <1>8, <2>1
  <2>2. CASE requests' = [requests EXCEPT ![r] =
                          [requests[r] EXCEPT !.pc = "queued", !.reading = clock]]
    BY <1>1, <2>2 DEF Request
  <2> QED
    BY <1>10, <2>1, <2>2 DEF ReadClock
<1>11. ASSUME NEW r \in Requests, Enter(r) PROVE TokenGiven'
  <2>1. PICK refused \in BOOLEAN :
          requests' = [requests EXCEPT ![r] =
            IF refused THEN AnswerTo(requests[r].route, "limited")
            ELSE [requests[r] EXCEPT !.pc = "admitted", !.reading = 0]]
    BY <1>11 DEF Enter
  <2> QED
    BY <1>1, <1>2, <2>1 DEF Request
<1>12. ASSUME NEW r \in Requests, Login(r) PROVE TokenGiven'
  <2>1. CASE Answer(r, "unauthorized") \/ Answer(r, "handled")
    BY <1>7, <2>1 DEF Answers
  <2>2. CASE /\ requests[r].name \in accounts
             /\ requests' = [requests EXCEPT ![r] = [AnswerTo("login", "ok") EXCEPT
                  !.token = [user |-> requests[r].name, expires |-> clock + Expiry]]]
    <3>1. [user |-> requests[r].name, expires |-> clock + Expiry] \in Token
      BY <2>2, ClockAssumption
         DEF Token, WorkbenchInv, GatewayInv, ServerInv, ServerTypeOK, Instants
    <3> QED
      BY <1>1, <2>2, <3>1 DEF AnswerTo, Idle
  <2> QED
    BY <1>12, <2>1, <2>2 DEF Login
<1>13. ASSUME NEW r \in Requests, Handle(r) PROVE TokenGiven'
  BY <1>7, <1>13 DEF Handle, Answers
<1>14. CASE ComeUp \/ Tick
  BY <1>5, <1>14 DEF ComeUp, Configure, SeedAccount, CountAnchors, SeedTable, SeedCommit, Tick
<1>15. CASE UNCHANGED serverVars
  BY <1>5, <1>15 DEF serverVars
<1> QED
  BY <1>3, <1>4, <1>6, <1>9, <1>10, <1>11, <1>12, <1>13, <1>14, <1>15
     DEF Next, ServerStep, Serve

(* The stored session changes together with what the tab shows.              *)
LEMMA EstablishKeeps ==
  ASSUME Kept, NEW t \in Tabs, NEW session \in Session, Establish(t, session),
         session.token # NoToken => session.user = session.token.user,
         signingIn' \in [Tabs -> BOOLEAN], callers' \in [Requests -> Tabs \cup {NoTab}]
  PROVE  Kept'
  BY DEF Kept, Establish

LEMMA KeptKept == WorkbenchInv /\ [WNext]_vars => Kept'
<1> SUFFICES ASSUME WorkbenchInv, [WNext]_vars PROVE Kept'
  OBVIOUS
<1>1. Kept /\ TokenGiven
  BY DEF WorkbenchInv
<1>2. SignedOut \in Session /\ SignedOut.token = NoToken
  BY DEF SignedOut, Session
<1>3. CASE UNCHANGED browserVars
  BY <1>1, <1>3 DEF Kept, browserVars
<1>4. ASSUME NEW r \in Requests, NEW t \in Tabs, NEW name \in Users \cup {NoUser},
             SignIn(t, r, name)
      PROVE  Kept'
  BY <1>1, <1>4 DEF SignIn, Kept
<1>5. ASSUME NEW r \in Requests, NEW t \in Tabs, NEW route \in Routes, Click(t, r, route)
      PROVE  Kept'
  BY <1>1, <1>5 DEF Click, Kept
<1>6. ASSUME NEW r \in Requests, NEW t \in Tabs, TakeAnswer(t, r)
      PROVE  Kept'
  <2> DEFINE q == requests[r]
  <2>1. callers' \in [Requests -> Tabs \cup {NoTab}] /\ signingIn' \in [Tabs -> BOOLEAN]
    BY <1>1, <1>6 DEF TakeAnswer, Kept, StillSigningIn
  <2>2. CASE End(t)
    BY <1>1, <1>2, <2>1, <2>2, EstablishKeeps DEF End
  <2>3. CASE q.answer = "ok" /\ Establish(t, [token |-> q.token, user |-> q.token.user])
    <3>1. q.token \in Token /\ q.token.user \in Users
      BY <1>1, <2>3 DEF TokenGiven, Token
    <3> DEFINE session == [token |-> q.token, user |-> q.token.user]
    <3>2. session \in Session /\ session.user = session.token.user
      BY <3>1 DEF Session
    <3> HIDE DEF session
    <3> QED
      BY <1>1, <2>1, <2>3, <3>2, EstablishKeeps DEF session
  <2>4. CASE UNCHANGED <<storage, shown, aware>>
    BY <1>1, <2>1, <2>4 DEF Kept
  <2> QED
    BY <1>6, <2>2, <2>3, <2>4 DEF TakeAnswer
<1>7. ASSUME NEW t \in Tabs, SignOut(t) PROVE Kept'
  BY <1>1, <1>2, <1>7, EstablishKeeps DEF SignOut, End, Kept
<1>8. ASSUME NEW t \in Tabs, Reload(t) PROVE Kept'
  BY <1>1, <1>8 DEF Reload, Kept
<1>9. ASSUME NEW r \in Requests, LoseAnswer(r) PROVE Kept'
  BY <1>3, <1>9 DEF LoseAnswer
<1>10. CASE UNCHANGED vars
  BY <1>3, <1>10 DEF vars
<1> QED
  BY <1>3, <1>4, <1>5, <1>6, <1>7, <1>8, <1>9, <1>10 DEF WNext, Answered

LEMMA WorkbenchStep == WorkbenchInv /\ [WNext]_vars => WorkbenchInv'
  BY WorkbenchIsGatewayStep, GatewayStep, TokenGivenKept, KeptKept DEF WorkbenchInv

THEOREM WorkbenchInvariant == WSpec => []WorkbenchInv
  BY WorkbenchInit, WorkbenchStep, PTL DEF WSpec

(* The browser application is a client of the server as Gateway has it: all  *)
(* that is proved of the server holds with the application in front.         *)
THEOREM WorkbenchIsClient == WSpec => Spec
<1>1. WInit => Init
  BY DEF WInit
<1> QED
  BY <1>1, WorkbenchIsGatewayStep, WorkbenchInvariant, PTL DEF WSpec, Spec

(* With the browser in front, a server that serves has the whole seed, and   *)
(* the tabs of its users together get no larger burst through the limiter.   *)
THEOREM WorkbenchServesSeeded == WSpec => []ServesSeeded
BY WorkbenchIsClient, AlwaysServesSeeded

THEOREM WorkbenchBurstBounded == WSpec => []BurstBound
BY WorkbenchIsClient, BurstAlwaysBounded

(* Browser and server are well typed.                                        *)
THEOREM WorkbenchTyped == WSpec => []TypeOK
<1>1. WorkbenchInv => TypeOK
  BY DEF WorkbenchInv, GatewayInv, ServerInv, Kept, TypeOK
<1> QED
  BY <1>1, WorkbenchInvariant, PTL

(* The browser's table grants no role what the server's does not.            *)
LEMMA ControlsPermitted == \A role \in Roles : ControlsOf[role] \subseteq PermissionsOf[role]
  BY DEF Roles, ControlsOf, PermissionsOf, Permissions

(* A page shows a control for permissions that its route accepts.            *)
LEMMA ControlsLead ==
  \A route \in DOMAIN RouteTable \ {"login", "read"} :
    ControlFor[route] \subseteq RouteTable[route].anyOf
  BY DEF RouteTable, ControlFor

LEMMA ReadPermitted == \A role \in Roles : Permits(role, "read")
  BY DEF Roles, Permits, RouteTable, HasPermission, PermissionsOf, Permissions

LEMMA OfferPermitted ==
  ASSUME NEW session \in Session, NEW route \in Routes, Offers(session, route)
  PROVE  session.token # NoToken /\ Permits(RoleOf[session.user], route)
<1>1. session.user \in Users /\ RoleOf[session.user] \in Roles /\ route \in DOMAIN RouteTable
  BY RoleAssumption, RouteAssumption DEF Offers, Session
<1>2. CASE route = "read"
  BY <1>1, <1>2, ReadPermitted DEF Offers
<1>3. CASE route # "read"
  BY <1>1, <1>3, ControlsPermitted, ControlsLead DEF Offers, Permits, HasPermission
<1> QED
  BY <1>2, <1>3

(* A tab that knows the stored session offers only what its owner may do.    *)
THEOREM OfferedAlwaysPermitted == WSpec => []OfferedIsPermitted
<1>1. WorkbenchInv => OfferedIsPermitted
  <2> SUFFICES ASSUME WorkbenchInv, NEW t \in aware, NEW route \in Routes,
                      Offers(shown[t], route)
               PROVE  storage.token # NoToken /\ Permits(RoleOf[storage.token.user], route)
    BY DEF OfferedIsPermitted
  <2>1. shown[t] = storage /\ storage \in Session
        /\ (storage.token # NoToken => storage.user = storage.token.user)
    BY DEF WorkbenchInv, Kept
  <2>2. storage.token # NoToken /\ Permits(RoleOf[storage.user], route)
    BY <2>1, OfferPermitted
  <2> QED
    BY <2>1, <2>2
<1> QED
  BY <1>1, WorkbenchInvariant, PTL
=============================================================================
