------------------------- MODULE OrderRequestsProofs -------------------------
(***************************************************************************)
(* Proofs about OrderRequests for every InitialVersion and every number of *)
(* requests, recipients and dates.                                         *)
(***************************************************************************)
EXTENDS OrderRequests, TLAPS

\* A document shows no more than the stream of its order.
ShownIsStored == \A o \in Requests : shown[o] <= events[o]

\* A stream has at most its first event, and that only if a new aggregate
\* passed the validator.
FirstEventOnly ==
    \A o \in Requests : events[o] <= 1 /\ (events[o] = 1 => InitialVersion < 0)

\* The version of the aggregate in hand: a new one and one read back have both
\* applied one event, and one about to be saved has raised its own besides.
VersionInHand ==
    \A r \in Requests :
        /\ stage[r] = "build" => call[r].kind = "add"
        /\ stage[r] = "load" => call[r].kind # "add"
        /\ stage[r] = "may change" => call[r].kind # "add"
        /\ stage[r] = "validate" => version[r] = InitialVersion + 1
        /\ stage[r] = "recheck" => call[r].kind = "add"
        /\ call[r].kind = "add" /\ stage[r] \in {"validate", "recheck", "save"} =>
              target[r] = r
        /\ call[r].kind = "add" /\ stage[r] \in {"recheck", "save"} =>
              version[r] = InitialVersion + 1 /\ LooksNew(version[r])
        /\ call[r].kind # "add" /\ stage[r] \in {"validate", "save"} =>
              events[target[r]] = 1
        /\ call[r].kind # "add" /\ stage[r] = "save" =>
              version[r] = InitialVersion + 2

NothingAmended == \A r \in Requests : answer[r] # "amended"

\* The inductive invariant: the length of the streams is bounded because of
\* the versions that reach SaveAsync.
IInv ==
    /\ TypeOK
    /\ ShownIsStored
    /\ FirstEventOnly
    /\ VersionInHand
    /\ NothingAmended

\* Request r moves to stage s and leaves the target t, the version v and the
\* answer a behind; no stream grows.
Moves(r, s, t, v, a) ==
    /\ UNCHANGED <<call, events, shown>>
    /\ seen' \in [Requests -> SUBSET Requests]
    /\ stage' = [stage EXCEPT ![r] = s]
    /\ target' = [target EXCEPT ![r] = t]
    /\ version' = [version EXCEPT ![r] = v]
    /\ answer' = [answer EXCEPT ![r] = a]

\* They agree with the stage.
Agrees(r, s, t, v, a) ==
    /\ s \in Stages /\ t \in Requests \cup {NoOrder} /\ v \in Int /\ a \in Answers
    /\ a # "amended"
    /\ s \in {"may change", "load", "validate", "recheck", "save"} => t \in Requests
    /\ s = "build" => call[r].kind = "add"
    /\ s \in {"may change", "load"} => call[r].kind # "add"
    /\ s = "validate" => v = InitialVersion + 1
    /\ s = "recheck" => call[r].kind = "add"
    /\ call[r].kind = "add" /\ s \in {"validate", "recheck", "save"} => t = r
    /\ call[r].kind = "add" /\ s \in {"recheck", "save"} =>
          v = InitialVersion + 1 /\ LooksNew(v)
    /\ call[r].kind # "add" /\ s \in {"validate", "save"} => events[t] = 1
    /\ call[r].kind # "add" /\ s = "save" => v = InitialVersion + 2

\* A request that moves so keeps the inductive invariant.
LEMMA RequestMoves ==
    ASSUME IInv, NEW r \in Requests, NEW s, NEW t, NEW v, NEW a,
           Moves(r, s, t, v, a), Agrees(r, s, t, v, a)
    PROVE  IInv'
<1> USE DEF Moves, Agrees
<1>0. TypeOK
  BY DEF IInv
<1>1. TypeOK'
  <2>1. stage' \in [Requests -> Stages]
    BY <1>0 DEF TypeOK
  <2>2. target' \in [Requests -> Requests \cup {NoOrder}]
    BY <1>0 DEF TypeOK
  <2>3. version' \in [Requests -> Int]
    BY <1>0 DEF TypeOK
  <2>4. answer' \in [Requests -> Answers]
    BY <1>0 DEF TypeOK
  <2>5. \A q \in Requests : stage'[q] \in {"may change", "load", "validate", "recheck", "save"}
                                => target'[q] \in Requests
    <3>1. stage'[r] = s /\ target'[r] = t
      BY <1>0 DEF TypeOK
    <3>2. \A q \in Requests \ {r} : stage'[q] = stage[q] /\ target'[q] = target[q]
      BY <1>0 DEF TypeOK
    <3>3. \A q \in Requests : stage[q] \in {"may change", "load", "validate", "recheck", "save"}
                             => target[q] \in Requests
      BY <1>0 DEF TypeOK
    <3>4. s \in {"may change", "load", "validate", "recheck", "save"} => t \in Requests
      OBVIOUS
    <3> HIDE DEF Moves, Agrees
    <3> QED
      BY <3>1, <3>2, <3>3, <3>4
  <2> QED
    BY <1>0, <2>1, <2>2, <2>3, <2>4, <2>5 DEF TypeOK
<1>2. ShownIsStored' /\ FirstEventOnly'
  BY DEF IInv, ShownIsStored, FirstEventOnly
<1>3. /\ stage'[r] = s /\ target'[r] = t /\ version'[r] = v /\ answer'[r] = a
      /\ \A q \in Requests \ {r} :
             /\ stage'[q] = stage[q] /\ target'[q] = target[q]
             /\ version'[q] = version[q] /\ answer'[q] = answer[q]
  BY <1>0 DEF TypeOK
<1>4. NothingAmended'
  BY <1>3 DEF IInv, NothingAmended
<1>5. VersionInHand'
  <2> SUFFICES ASSUME NEW q \in Requests
               PROVE  VersionInHand!(q)'
    BY DEF VersionInHand
  <2>1. CASE q = r
    BY <1>3, <2>1
  <2>2. CASE q # r
    <3>1. VersionInHand!(q)
      BY DEF IInv, VersionInHand
    <3>2. /\ call' = call /\ events' = events
          /\ stage'[q] = stage[q] /\ target'[q] = target[q] /\ version'[q] = version[q]
      BY <1>3, <2>2
    <3> HIDE DEF Moves, Agrees
    <3> QED
      BY <3>1, <3>2 DEF LooksNew
  <2> QED
    BY <2>1, <2>2
<1> QED
  BY <1>1, <1>2, <1>4, <1>5 DEF IInv

\* Orders on the read side have exactly their first event.
LEMMA FoundIsStored ==
    ASSUME IInv, NEW u, NEW d, NEW o \in OrdersForRecipient(u, d)
    PROVE  o \in Requests /\ events[o] = 1
<1>1. o \in Requests /\ shown[o] > 0
  BY DEF OrdersForRecipient
<1>2. shown[o] <= events[o] /\ events[o] <= 1 /\ events[o] \in Nat /\ shown[o] \in Nat
  BY <1>1 DEF IInv, ShownIsStored, FirstEventOnly, TypeOK
<1> QED
  BY <1>1, <1>2

\* SaveAsync refuses every update, and takes a new aggregate on an empty
\* stream only if aggregates start below 0.
LEMMA OnlyNewIsTaken ==
    ASSUME IInv, NEW r \in Requests, stage[r] = "save", StreamTakes(r)
    PROVE  /\ call[r].kind = "add"
           /\ target[r] = r
           /\ events[r] = 0
           /\ InitialVersion < 0
<1> DEFINE e == events[target[r]]
<1>1. target[r] \in Requests
  BY DEF IInv, TypeOK
<1>2. e \in Nat /\ e <= 1 /\ (e = 1 => InitialVersion < 0)
  BY <1>1 DEF IInv, TypeOK, FirstEventOnly
<1>3. e - 1 = IF version[r] - 2 < 0 THEN -1 ELSE version[r] - 2
  <2>1. version[r] \in Int
    BY DEF IInv, TypeOK
  <2>2. version[r] - 1 - 1 = version[r] - 2
    BY <2>1
  <2>3. e - 1 = IF version[r] - 1 - 1 < 0 THEN -1 ELSE version[r] - 1 - 1
    BY DEF StreamTakes, Accepts, ExpectedVersion, OriginalVersion, NoStream
  <2> HIDE DEF e
  <2> QED
    BY <2>2, <2>3
<1>4. CASE call[r].kind # "add"
  <2>1. e = 1 /\ version[r] = InitialVersion + 2
    BY <1>4 DEF IInv, VersionInHand
  <2> HIDE DEF e
  <2> QED
    BY <1>2, <1>3, <2>1, InitialVersionAssumption
<1>5. CASE call[r].kind = "add"
  <2>1. /\ target[r] = r
        /\ version[r] = InitialVersion + 1
        /\ ~(version[r] > 0)
    BY <1>5 DEF IInv, VersionInHand, LooksNew
  <2>2. e = 0 /\ InitialVersion < 0
    <3> HIDE DEF e
    <3> QED
      BY <1>2, <1>3, <2>1, InitialVersionAssumption
  <2> QED
    BY <1>5, <2>1, <2>2
<1> QED
  BY <1>1, <1>4, <1>5

\* Every step keeps the inductive invariant.
LEMMA NextIInv == IInv /\ [Next]_vars => IInv'
<1> SUFFICES ASSUME IInv, [Next]_vars
             PROVE  IInv'
  OBVIOUS
<1>0. /\ TypeOK
      /\ InitialVersion \in Int
      /\ events \in [Requests -> Nat]
      /\ shown \in [Requests -> Nat]
  BY InitialVersionAssumption DEF IInv, TypeOK
\* The variables that a step of r leaves alone.
<1>k. ASSUME NEW r \in Requests
      PROVE  /\ target = [target EXCEPT ![r] = target[r]]
             /\ version = [version EXCEPT ![r] = version[r]]
             /\ answer = [answer EXCEPT ![r] = answer[r]]
             /\ target[r] \in Requests \cup {NoOrder}
             /\ version[r] \in Int
             /\ answer[r] \in Answers
             /\ answer[r] # "amended"
             /\ seen \in [Requests -> SUBSET Requests]
  BY <1>0 DEF TypeOK, IInv, NothingAmended
<1>1. CASE UNCHANGED vars
  BY <1>1 DEF vars, request, IInv, TypeOK, ShownIsStored, FirstEventOnly,
              VersionInHand, NothingAmended, LooksNew
<1>2. ASSUME NEW r \in Requests, Receive(r)
      PROVE  IInv'
  <2>1. seen' \in [Requests -> SUBSET Requests]
    <3>1. seen' = [seen EXCEPT ![r] = {o \in Requests : shown[o] > 0}]
      BY <1>2 DEF Receive
    <3>2. {o \in Requests : shown[o] > 0} \in SUBSET Requests
      OBVIOUS
    <3> QED
      BY <1>k, <3>1, <3>2
  <2>2. /\ UNCHANGED <<call, version, events, shown>>
        /\ \/ \E s \in {"may add", "lookup"} : GoTo(r, s) /\ target' = target
           \/ \E o \in Requests : /\ call[r].kind # "add"
                                  /\ target' = [target EXCEPT ![r] = o]
                                  /\ Answer(r, "failed") \/ GoTo(r, "load")
    BY <1>2 DEF Receive
  <2>3. ASSUME NEW s \in {"may add", "lookup"}, GoTo(r, s), target' = target
        PROVE  IInv'
    <3>1. Moves(r, s, target[r], version[r], answer[r])
      BY <1>k, <2>1, <2>2, <2>3 DEF Moves, GoTo
    <3>2. Agrees(r, s, target[r], version[r], answer[r])
      BY <1>k DEF Agrees, Stages
    <3> QED
      BY <3>1, <3>2, RequestMoves
  <2>4. ASSUME NEW o \in Requests, target' = [target EXCEPT ![r] = o], Answer(r, "failed")
        PROVE  IInv'
    <3>1. Moves(r, "answered", o, version[r], "failed")
      BY <1>k, <2>1, <2>2, <2>4 DEF Moves, Answer
    <3>2. Agrees(r, "answered", o, version[r], "failed")
      BY <1>k DEF Agrees, Stages, Answers
    <3> QED
      BY <3>1, <3>2, RequestMoves
  <2>5. ASSUME NEW o \in Requests, target' = [target EXCEPT ![r] = o], GoTo(r, "load"),
               call[r].kind # "add"
        PROVE  IInv'
    <3>1. Moves(r, "load", o, version[r], answer[r])
      BY <1>k, <2>1, <2>2, <2>5 DEF Moves, GoTo
    <3>2. Agrees(r, "load", o, version[r], answer[r])
      BY <1>k, <2>5 DEF Agrees, Stages
    <3> QED
      BY <3>1, <3>2, RequestMoves
  <2> QED
    BY <2>2, <2>3, <2>4, <2>5
<1>3. ASSUME NEW r \in Requests, Lookup(r)
      PROVE  IInv'
  <2>1. \A o \in OrdersForRecipient(call[r].user, call[r].date) :
            o \in Requests /\ events[o] = 1
    BY FoundIsStored
  <2>2. /\ UNCHANGED <<call, version, events, shown, seen>>
        /\ \/ GoTo(r, "build") /\ target' = target /\ call[r].kind = "add"
           \/ Answer(r, "not found") /\ target' = target
           \/ \E o \in Requests : Answer(r, "existing") /\ target' = [target EXCEPT ![r] = o]
           \/ \E o \in Requests : /\ events[o] = 1 /\ call[r].kind # "add"
                                  /\ GoTo(r, "may change")
                                  /\ target' = [target EXCEPT ![r] = o]
    BY <1>3, <2>1 DEF Lookup
  <2>3. CASE GoTo(r, "build") /\ target' = target /\ call[r].kind = "add"
    <3>1. Moves(r, "build", target[r], version[r], answer[r])
      BY <1>k, <2>2, <2>3 DEF Moves, GoTo
    <3>2. Agrees(r, "build", target[r], version[r], answer[r])
      BY <1>k, <2>3 DEF Agrees, Stages
    <3> QED
      BY <3>1, <3>2, RequestMoves
  <2>4. CASE Answer(r, "not found") /\ target' = target
    <3>1. Moves(r, "answered", target[r], version[r], "not found")
      BY <1>k, <2>2, <2>4 DEF Moves, Answer
    <3>2. Agrees(r, "answered", target[r], version[r], "not found")
      BY <1>k DEF Agrees, Stages, Answers
    <3> QED
      BY <3>1, <3>2, RequestMoves
  <2>5. ASSUME NEW o \in Requests, Answer(r, "existing"), target' = [target EXCEPT ![r] = o]
        PROVE  IInv'
    <3>1. Moves(r, "answered", o, version[r], "existing")
      BY <1>k, <2>2, <2>5 DEF Moves, Answer
    <3>2. Agrees(r, "answered", o, version[r], "existing")
      BY <1>k, <2>5 DEF Agrees, Stages, Answers
    <3> QED
      BY <3>1, <3>2, RequestMoves
  <2>6. ASSUME NEW o \in Requests, events[o] = 1, call[r].kind # "add",
               GoTo(r, "may change"), target' = [target EXCEPT ![r] = o]
        PROVE  IInv'
    <3>1. Moves(r, "may change", o, version[r], answer[r])
      BY <1>k, <2>2, <2>6 DEF Moves, GoTo
    <3>2. Agrees(r, "may change", o, version[r], answer[r])
      BY <1>0, <1>k, <2>6 DEF Agrees, Stages
    <3> QED
      BY <3>1, <3>2, RequestMoves
  <2> QED
    BY <2>2, <2>3, <2>4, <2>5, <2>6
<1>4. ASSUME NEW r \in Requests, Build(r)
      PROVE  IInv'
  <2>1. r \in Requests \cup {NoOrder} /\ InitialVersion + 1 \in Int
    BY <1>0
  <2>2. PICK v \in Int : v = InitialVersion + 1
    BY <2>1
  <2>3. call[r].kind = "add"
    BY <1>4 DEF Build, IInv, VersionInHand
  <2>4. /\ UNCHANGED <<call, events, shown, seen>>
        /\ stage' = [stage EXCEPT ![r] = "validate"]
        /\ target' = [target EXCEPT ![r] = r]
        /\ version' = [version EXCEPT ![r] = v]
        /\ answer' = answer
    BY <1>4, <2>2 DEF Build, GoTo
  <2>5. Moves(r, "validate", r, v, answer[r])
    BY <1>k, <2>4 DEF Moves
  <2>6. Agrees(r, "validate", r, v, answer[r])
    BY <1>k, <2>1, <2>2, <2>3 DEF Agrees, Stages
  <2> QED
    BY <2>5, <2>6, RequestMoves
<1>5. ASSUME NEW r \in Requests, Load(r)
      PROVE  IInv'
  <2>0. stage[r] = "load" /\ call[r].kind # "add" /\ events[target[r]] > 0
    BY <1>0, <1>5 DEF Load, IInv, VersionInHand
  <2>2. target[r] \in Requests
    BY <1>0, <2>0 DEF TypeOK
  <2>1. call[r].kind # "add" /\ events[target[r]] = 1
    <3>1. events[target[r]] <= 1 /\ events[target[r]] \in Nat
      BY <1>0, <2>2 DEF IInv, FirstEventOnly
    <3> QED
      BY <2>0, <3>1
  <2>3. PICK v \in Int : v = InitialVersion + 1
    BY <1>0
  <2>4. version' = [version EXCEPT ![r] = v]
    BY <1>5, <2>1, <2>3 DEF Load
  <2>5. /\ UNCHANGED <<call, events, shown, seen>>
        /\ stage' = [stage EXCEPT ![r] = "validate"]
        /\ target' = target /\ answer' = answer
    BY <1>5 DEF Load, GoTo
  <2> QED
    <3>1. Moves(r, "validate", target[r], v, answer[r])
      BY <1>k, <2>4, <2>5 DEF Moves
    <3>2. Agrees(r, "validate", target[r], v, answer[r])
      BY <1>k, <2>1, <2>2, <2>3 DEF Agrees, Stages
    <3> QED
      BY <3>1, <3>2, RequestMoves
<1>6. ASSUME NEW r \in Requests, ValidateAdd(r)
      PROVE  IInv'
  <2>1. /\ call[r].kind = "add" /\ target[r] = r /\ version[r] = InitialVersion + 1
    BY <1>6 DEF ValidateAdd, IInv, VersionInHand
  <2>2. /\ UNCHANGED <<call, target, version, events, shown, seen>>
        /\ \/ \E a \in {"refused", "failed"} : Answer(r, a)
           \/ GoTo(r, "recheck") /\ LooksNew(version[r])
    BY <1>6 DEF ValidateAdd
  <2>3. ASSUME NEW a \in {"refused", "failed"}, Answer(r, a)
        PROVE  IInv'
    <3>1. Moves(r, "answered", target[r], version[r], a)
      BY <1>k, <2>2, <2>3 DEF Moves, Answer
    <3>2. Agrees(r, "answered", target[r], version[r], a)
      BY <1>k, <2>3 DEF Agrees, Stages, Answers
    <3> QED
      BY <3>1, <3>2, RequestMoves
  <2>4. CASE GoTo(r, "recheck") /\ LooksNew(version[r])
    <3>1. Moves(r, "recheck", target[r], version[r], answer[r])
      BY <1>k, <2>2, <2>4 DEF Moves, GoTo
    <3>2. Agrees(r, "recheck", target[r], version[r], answer[r])
      BY <1>k, <2>1, <2>4 DEF Agrees, Stages
    <3> QED
      BY <3>1, <3>2, RequestMoves
  <2> QED
    BY <2>2, <2>3, <2>4
<1>6a. ASSUME NEW r \in Requests, ValidateRecipient(r)
       PROVE  IInv'
  <2>1. /\ call[r].kind = "add" /\ target[r] = r /\ version[r] = InitialVersion + 1
        /\ LooksNew(version[r])
    BY <1>6a DEF ValidateRecipient, IInv, VersionInHand
  <2>2. /\ UNCHANGED <<call, target, version, events, shown, seen>>
        /\ Answer(r, "refused") \/ GoTo(r, "save")
    BY <1>6a DEF ValidateRecipient
  <2>3. CASE Answer(r, "refused")
    <3>1. Moves(r, "answered", target[r], version[r], "refused")
      BY <1>k, <2>2, <2>3 DEF Moves, Answer
    <3>2. Agrees(r, "answered", target[r], version[r], "refused")
      BY <1>k, <2>3 DEF Agrees, Stages, Answers
    <3> QED
      BY <3>1, <3>2, RequestMoves
  <2>4. CASE GoTo(r, "save")
    <3>1. Moves(r, "save", target[r], version[r], answer[r])
      BY <1>k, <2>2, <2>4 DEF Moves, GoTo
    <3>2. Agrees(r, "save", target[r], version[r], answer[r])
      BY <1>k, <2>1, <2>4 DEF Agrees, Stages
    <3> QED
      BY <3>1, <3>2, RequestMoves
  <2> QED
    BY <2>2, <2>3, <2>4
<1>7. ASSUME NEW r \in Requests, ValidateUpdate(r)
      PROVE  IInv'
  <2>1. /\ stage[r] = "validate" /\ call[r].kind # "add"
        /\ version[r] = InitialVersion + 1
        /\ events[target[r]] = 1
    BY <1>7 DEF ValidateUpdate, IInv, VersionInHand
  <2>2. target[r] \in Requests
    BY <1>0, <2>1 DEF TypeOK
  <2>3. UNCHANGED <<call, target, events, shown, seen>>
    BY <1>7 DEF ValidateUpdate
  <2>4. CASE Answer(r, "refused") /\ version' = version
    <3>1. Moves(r, "answered", target[r], version[r], "refused")
      BY <1>k, <2>3, <2>4 DEF Moves, Answer
    <3>2. Agrees(r, "answered", target[r], version[r], "refused")
      BY <1>k DEF Agrees, Stages, Answers
    <3> QED
      BY <3>1, <3>2, RequestMoves
  <2>5. CASE GoTo(r, "save") /\ version' = [version EXCEPT ![r] = @ + 1]
    <3>1. PICK v \in Int : v = InitialVersion + 2
      BY <1>0
    <3>2. version[r] + 1 = v
      BY <1>0, <2>1, <3>1
    <3>3. version' = [version EXCEPT ![r] = v]
      BY <2>5, <3>2
    <3> QED
      <4>1. Moves(r, "save", target[r], v, answer[r])
        BY <1>k, <2>3, <2>5, <3>3 DEF Moves, GoTo
      <4>2. Agrees(r, "save", target[r], v, answer[r])
        BY <1>k, <2>1, <2>2, <3>1 DEF Agrees, Stages
      <4> QED
        BY <4>1, <4>2, RequestMoves
  <2> QED
    BY <1>7, <2>4, <2>5 DEF ValidateUpdate
<1>8. ASSUME NEW r \in Requests, SaveFails(r)
      PROVE  IInv'
  <2>1. UNCHANGED <<call, target, version, events, shown, seen>>
    BY <1>8 DEF SaveFails
  <2> QED
    <3>1. Moves(r, "answered", target[r], version[r], "failed")
      BY <1>8, <1>k, <2>1 DEF SaveFails, Moves, Answer
    <3>2. Agrees(r, "answered", target[r], version[r], "failed")
      BY <1>k DEF Agrees, Stages, Answers
    <3> QED
      BY <3>1, <3>2, RequestMoves
<1>9. ASSUME NEW r \in Requests, SaveAccepted(r)
      PROVE  IInv'
  <2>1. /\ call[r].kind = "add" /\ target[r] = r /\ events[r] = 0
        /\ InitialVersion < 0
    BY <1>9, OnlyNewIsTaken DEF SaveAccepted
  <2>2. /\ events' = [events EXCEPT ![r] = 1]
        /\ UNCHANGED <<call, target, version, shown, seen>>
        /\ stage' = [stage EXCEPT ![r] = "answered"]
        /\ \E a \in {"created", "failed"} : answer' = [answer EXCEPT ![r] = a]
    BY <1>9, <2>1 DEF SaveAccepted, Answer
  <2>3. /\ events' \in [Requests -> Nat]
        /\ stage' \in [Requests -> Stages]
        /\ answer' \in [Requests -> Answers]
        /\ \A q \in Requests : stage'[q] = stage[q] \/ stage'[q] = "answered"
    BY <1>0, <2>2 DEF TypeOK, Stages, Answers
  <2>4. TypeOK'
    BY <1>0, <2>2, <2>3 DEF TypeOK
  <2>5. ShownIsStored' /\ FirstEventOnly'
    <3>1. \A q \in Requests : events'[q] = IF q = r THEN 1 ELSE events[q]
      BY <1>0, <2>2 DEF TypeOK
    <3>2. shown[r] <= 0 /\ shown[r] \in Nat
      BY <1>0, <2>1 DEF IInv, ShownIsStored, TypeOK
    <3>3. ShownIsStored'
      BY <2>2, <3>1, <3>2 DEF IInv, ShownIsStored
    <3> QED
      BY <2>1, <3>1, <3>3 DEF IInv, FirstEventOnly
  <2>6. NothingAmended'
    BY <1>0, <2>2 DEF IInv, NothingAmended, TypeOK
  <2>7. VersionInHand'
    <3>1. ASSUME NEW q \in Requests, call[q].kind # "add",
                 stage[q] \in {"validate", "save"}
          PROVE  events'[target[q]] = 1
      <4>1. events[target[q]] = 1 /\ target[q] \in Requests
        BY <1>0, <3>1 DEF IInv, VersionInHand, TypeOK
      <4> QED
        BY <1>0, <2>2, <4>1 DEF TypeOK
    <3> SUFFICES ASSUME NEW q \in Requests
                 PROVE  VersionInHand!(q)'
      BY DEF VersionInHand
    <3>2. VersionInHand!(q)
      BY DEF IInv, VersionInHand
    <3>3. CASE stage'[q] = "answered"
      BY <3>3
    <3>4. CASE stage'[q] = stage[q]
      <4>1. call' = call /\ target' = target /\ version' = version
        BY <2>2
      <4>2. call[q].kind # "add" /\ stage[q] \in {"validate", "save"} => events'[target[q]] = 1
        BY <3>1
      <4> QED
        BY <3>2, <3>4, <4>1, <4>2 DEF LooksNew
    <3> QED
      BY <2>3, <3>3, <3>4
  <2> QED
    BY <2>4, <2>5, <2>6, <2>7 DEF IInv
<1>10. ASSUME NEW o \in Requests, Project(o)
       PROVE  IInv'
  <2>1. /\ shown' = [shown EXCEPT ![o] = shown[o] + 1]
        /\ shown[o] < events[o]
        /\ UNCHANGED <<request, events>>
    BY <1>10 DEF Project
  <2>2. shown' \in [Requests -> Nat]
    BY <1>0, <2>1
  <2>3. ShownIsStored'
    BY <1>0, <2>1 DEF IInv, ShownIsStored
  <2>4. TypeOK'
    BY <1>0, <2>1, <2>2 DEF TypeOK, request
  <2> QED
    BY <2>1, <2>3, <2>4 DEF request, IInv, FirstEventOnly, VersionInHand,
                            NothingAmended, LooksNew
<1>11. ASSUME NEW r \in Requests, AuthorizeAdd(r)
      PROVE  IInv'
  <2>1. /\ UNCHANGED <<call, target, version, events, shown, seen>>
        /\ \/ \E a \in {"challenged", "failed"} : Answer(r, a)
           \/ GoTo(r, "lookup")
    BY <1>11 DEF AuthorizeAdd, IInv, TypeOK, VersionInHand
  <2>2. ASSUME NEW a \in {"challenged", "failed"}, Answer(r, a)
        PROVE  IInv'
    <3>1. Moves(r, "answered", target[r], version[r], a)
      BY <1>k, <2>1, <2>2 DEF Moves, Answer
    <3>2. Agrees(r, "answered", target[r], version[r], a)
      BY <1>k, <2>2 DEF Agrees, Stages, Answers
    <3> QED
      BY <3>1, <3>2, RequestMoves
  <2>3. CASE GoTo(r, "lookup")
    <3>1. Moves(r, "lookup", target[r], version[r], answer[r])
      BY <1>k, <2>1, <2>3 DEF Moves, GoTo
    <3>2. Agrees(r, "lookup", target[r], version[r], answer[r])
      BY <1>k, <2>3 DEF Agrees, Stages
    <3> QED
      BY <3>1, <3>2, RequestMoves
  <2> QED
    BY <2>1, <2>2, <2>3
<1>12. ASSUME NEW r \in Requests, AuthorizeUpdate(r)
      PROVE  IInv'
  <2>1. /\ UNCHANGED <<call, target, version, events, shown, seen>>
        /\ \/ \E a \in {"challenged", "failed"} : Answer(r, a)
           \/ GoTo(r, "load") /\ call[r].kind # "add" /\ target[r] \in Requests
    BY <1>12 DEF AuthorizeUpdate, IInv, TypeOK, VersionInHand
  <2>2. ASSUME NEW a \in {"challenged", "failed"}, Answer(r, a)
        PROVE  IInv'
    <3>1. Moves(r, "answered", target[r], version[r], a)
      BY <1>k, <2>1, <2>2 DEF Moves, Answer
    <3>2. Agrees(r, "answered", target[r], version[r], a)
      BY <1>k, <2>2 DEF Agrees, Stages, Answers
    <3> QED
      BY <3>1, <3>2, RequestMoves
  <2>3. CASE GoTo(r, "load") /\ call[r].kind # "add" /\ target[r] \in Requests
    <3>1. Moves(r, "load", target[r], version[r], answer[r])
      BY <1>k, <2>1, <2>3 DEF Moves, GoTo
    <3>2. Agrees(r, "load", target[r], version[r], answer[r])
      BY <1>k, <2>3 DEF Agrees, Stages
    <3> QED
      BY <3>1, <3>2, RequestMoves
  <2> QED
    BY <2>1, <2>2, <2>3
<1>13. ASSUME NEW r \in Requests, LoadFails(r)
       PROVE  IInv'
  <2>1. UNCHANGED <<call, target, version, events, shown, seen>>
    BY <1>13 DEF LoadFails
  <2>2. Moves(r, "answered", target[r], version[r], "failed")
    BY <1>13, <1>k, <2>1 DEF LoadFails, Moves, Answer
  <2>3. Agrees(r, "answered", target[r], version[r], "failed")
    BY <1>k DEF Agrees, Stages, Answers
  <2> QED
    BY <2>2, <2>3, RequestMoves
<1> QED
  BY <1>1, <1>2, <1>3, <1>4, <1>5, <1>6, <1>6a, <1>7, <1>8, <1>9, <1>10, <1>11,
     <1>12, <1>13
     DEF Next, RequestStep

-----------------------------------------------------------------------------
(* Theorems *)

\* The inductive invariant holds of every reachable state.
THEOREM Invariance == Spec => []IInv
<1>1. Init => IInv
  <2> SUFFICES ASSUME Init
               PROVE  IInv
    OBVIOUS
  <2>1. TypeOK
    BY InitialVersionAssumption DEF Init, TypeOK, Stages, Answers
  <2> QED
    BY <2>1 DEF Init, IInv, ShownIsStored, FirstEventOnly, VersionInHand, NothingAmended
<1> QED
  BY <1>1, NextIInv, PTL DEF Spec

\* Requests, aggregates and streams keep their types.
THEOREM TypeCorrect == Spec => []TypeOK
<1>1. IInv => TypeOK
  BY DEF IInv
<1> QED
  BY <1>1, Invariance, PTL

\* No value of InitialVersion lets orders be both placed and changed: with every
\* one of them a stream never gets past its first event.
THEOREM NoOrderIsAmended == Spec => []OrdersStayAsPlaced
<1>1. IInv => OrdersStayAsPlaced
  BY DEF IInv, FirstEventOnly, NothingAmended, OrdersStayAsPlaced
<1> QED
  BY <1>1, Invariance, PTL

-----------------------------------------------------------------------------
(* What callers are told, and when a second order is placed *)

\* A request is answered when its thread has ended, and only then.
AnswersLast == \A r \in Requests : stage[r] = "answered" <=> answer[r] # "none"

\* An order is placed by the last thing its request does.
PlacedLast == \A s \in Requests : events[s] > 0 => stage[s] = "answered"

SeenIsShown == \A s \in Requests : \A r \in seen[s] : r \in Requests /\ shown[r] > 0

\* A request past its lookup, on the way to placing an order.
Placing(s) == call[s].kind = "add" /\ stage[s] \in {"build", "validate", "recheck", "save"}

\* A request that came in when an order for its recipient and date was shown
\* is not on the way to placing another, and has not placed one.
SeenStopsAdding ==
    \A r, s \in Requests :
        r # s /\ r \in seen[s] /\ SameDelivery(r, s) => events[s] = 0 /\ ~Placing(s)

\* ToldOrderIsStored, and that what a caller is told of is an order.
ToldIsWanted ==
    \A r \in Requests : answer[r] \in {"created", "existing"} =>
        /\ target[r] \in Requests
        /\ events[target[r]] > 0
        /\ SameDelivery(target[r], r)

\* The second inductive invariant, relative to the first.
Answering ==
    /\ ToldIsWanted
    /\ AnswersLast
    /\ PlacedLast
    /\ SeenIsShown
    /\ SeenStopsAdding

\* A step of r leaves the other requests and their orders alone.
OnlyMoves(r) ==
    /\ stage[r] # "answered"
    /\ UNCHANGED <<call, shown>>
    /\ events'[r] >= events[r]
    /\ \A q \in Requests \ {r} :
           /\ stage'[q] = stage[q] /\ target'[q] = target[q]
           /\ answer'[q] = answer[q] /\ seen'[q] = seen[q]
           /\ events'[q] = events[q]

\* What it does to r.
MovesOn(r) ==
    /\ stage'[r] = "answered" <=> answer'[r] # "none"
    /\ answer'[r] \in {"created", "existing"} =>
          /\ target'[r] \in Requests
          /\ events'[target'[r]] > 0
          /\ SameDelivery(target'[r], r)
    /\ events'[r] # events[r] => stage'[r] = "answered" /\ Placing(r)
    /\ \/ seen'[r] = seen[r]
       \/ /\ seen'[r] = {o \in Requests : shown[o] > 0}
          /\ ~Placing(r)' /\ events'[r] = events[r]
    /\ Placing(r)' => \/ Placing(r)
                      \/ /\ OrdersForRecipient(call[r].user, call[r].date) = {}
                         /\ seen'[r] = seen[r]

\* An order the lookup finds is stored, for the recipient and the date looked for.
LEMMA FoundIsWanted ==
    ASSUME IInv, NEW r \in Requests,
           NEW o \in OrdersForRecipient(call[r].user, call[r].date)
    PROVE  o \in Requests /\ events[o] > 0 /\ SameDelivery(o, r)
<1>1. o \in Requests /\ events[o] = 1
  BY FoundIsStored
<1>2. /\ call[o].user = call[r].user
      /\ call[o].date >= call[r].date /\ call[o].date < call[r].date + 1
  BY DEF OrdersForRecipient
<1>3. call[o].date \in Nat /\ call[r].date \in Nat
  BY <1>1, RequestsAssumption DEF IInv, TypeOK, Call
<1> QED
  BY <1>1, <1>2, <1>3 DEF SameDelivery

LEMMA StepShape ==
    ASSUME IInv, AnswersLast, NEW r \in Requests, RequestStep(r)
    PROVE  OnlyMoves(r) /\ MovesOn(r)
<1>1. /\ stage \in [Requests -> Stages]
      /\ target \in [Requests -> Requests \cup {NoOrder}]
      /\ answer \in [Requests -> Answers]
      /\ events \in [Requests -> Nat]
      /\ seen \in [Requests -> SUBSET Requests]
      /\ stage[r] # "answered" => answer[r] = "none"
      /\ events[r] >= events[r]
  <2>1. TypeOK
    BY DEF IInv
  <2>2. events[r] >= events[r]
    <3>1. events[r] \in Nat
      BY <2>1 DEF TypeOK
    <3> QED
      BY <3>1
  <2>3. stage[r] # "answered" => answer[r] = "none"
    BY DEF AnswersLast
  <2> QED
    BY <2>1, <2>2, <2>3 DEF TypeOK
<1>2. CASE Receive(r)
  <2>1. /\ stage[r] = "none"
        /\ UNCHANGED <<call, events, shown>>
        /\ seen' = [seen EXCEPT ![r] = {o \in Requests : shown[o] > 0}]
    BY <1>2 DEF Receive
  <2>2. /\ \/ /\ stage'[r] \in {"may add", "lookup", "load"}
              /\ answer'[r] = "none"
           \/ stage'[r] = "answered" /\ answer'[r] = "failed"
        /\ \A q \in Requests \ {r} :
              stage'[q] = stage[q] /\ target'[q] = target[q] /\ answer'[q] = answer[q]
    BY <1>1, <1>2 DEF Receive, GoTo, Answer
  <2>3. OnlyMoves(r)
    BY <1>1, <2>1, <2>2 DEF OnlyMoves
  <2>4. MovesOn(r)
    BY <1>1, <2>1, <2>2 DEF MovesOn, Placing
  <2> QED
    BY <2>3, <2>4
<1>3. CASE AuthorizeAdd(r) \/ AuthorizeUpdate(r) \/ LoadFails(r) \/ SaveFails(r)
  <2>1. /\ stage[r] # "answered"
        /\ UNCHANGED <<call, target, events, shown, seen>>
        /\ \/ \E a \in {"challenged", "failed"} : Answer(r, a)
           \/ \E s \in {"lookup", "load"} : GoTo(r, s)
    BY <1>3 DEF AuthorizeAdd, AuthorizeUpdate, LoadFails, SaveFails
  <2>2. /\ \/ stage'[r] \in {"lookup", "load"} /\ answer'[r] = "none"
           \/ stage'[r] = "answered" /\ answer'[r] \in {"challenged", "failed"}
        /\ \A q \in Requests \ {r} : stage'[q] = stage[q] /\ answer'[q] = answer[q]
    BY <1>1, <2>1 DEF GoTo, Answer
  <2> QED
    BY <1>1, <2>1, <2>2 DEF OnlyMoves, MovesOn, Placing
<1>4. CASE Lookup(r)
  <2> DEFINE found == OrdersForRecipient(call[r].user, call[r].date)
  <2>1. /\ stage[r] = "lookup"
        /\ UNCHANGED <<call, version, events, shown, seen>>
        /\ \/ GoTo(r, "build") /\ target' = target /\ found = {}
           \/ Answer(r, "not found") /\ target' = target
           \/ \E o \in found : /\ Answer(r, "existing") \/ GoTo(r, "may change")
                              /\ target' = [target EXCEPT ![r] = o]
    BY <1>4 DEF Lookup
  <2>2. \A o \in found : o \in Requests /\ events[o] > 0 /\ SameDelivery(o, r)
    BY FoundIsWanted
  <2>3. /\ \/ stage'[r] = "build" /\ answer'[r] = "none" /\ found = {}
           \/ stage'[r] = "may change" /\ answer'[r] = "none"
           \/ stage'[r] = "answered" /\ answer'[r] = "not found"
           \/ /\ stage'[r] = "answered" /\ answer'[r] = "existing"
              /\ target'[r] \in found
        /\ \A q \in Requests \ {r} :
              stage'[q] = stage[q] /\ target'[q] = target[q] /\ answer'[q] = answer[q]
    <3> HIDE DEF found
    <3> QED
      BY <1>1, <2>1 DEF GoTo, Answer
  <2>4. OnlyMoves(r)
    BY <1>1, <2>1, <2>3 DEF OnlyMoves
  <2>5. answer'[r] = "existing" => target'[r] \in Requests /\ events'[target'[r]] > 0
    BY <2>1, <2>2, <2>3
  <2>6. answer'[r] = "existing" => SameDelivery(target'[r], r)
    BY <2>2, <2>3
  <2>7. MovesOn(r)
    BY <2>1, <2>3, <2>5, <2>6 DEF MovesOn, Placing
  <2> QED
    BY <2>4, <2>7
<1>5. CASE Build(r)
  BY <1>1, <1>5 DEF Build, GoTo, OnlyMoves, MovesOn, Placing, IInv, VersionInHand
<1>6. CASE Load(r)
  BY <1>1, <1>6 DEF Load, GoTo, OnlyMoves, MovesOn, Placing, IInv, VersionInHand
<1>7. CASE ValidateAdd(r)
  BY <1>1, <1>7 DEF ValidateAdd, GoTo, Answer, OnlyMoves, MovesOn, Placing
<1>7a. CASE ValidateRecipient(r)
  BY <1>1, <1>7a DEF ValidateRecipient, GoTo, Answer, OnlyMoves, MovesOn, Placing
<1>8. CASE ValidateUpdate(r)
  BY <1>1, <1>8 DEF ValidateUpdate, GoTo, Answer, OnlyMoves, MovesOn, Placing
<1>9. CASE SaveAccepted(r)
  <2>1. call[r].kind = "add" /\ target[r] = r /\ events[r] = 0
    BY <1>9, OnlyNewIsTaken DEF SaveAccepted
  <2>2. events'[r] = 1 /\ \A q \in Requests \ {r} : events'[q] = events[q]
    BY <1>1, <1>9, <2>1 DEF SaveAccepted
  <2>3. OnlyMoves(r)
    BY <1>1, <1>9, <2>1, <2>2 DEF SaveAccepted, Answer, OnlyMoves
  <2>4. MovesOn(r)
    BY <1>1, <1>9, <2>1, <2>2 DEF SaveAccepted, Answer, MovesOn, Placing, SameDelivery
  <2> QED
    BY <2>3, <2>4
<1> QED
  BY <1>2, <1>3, <1>4, <1>5, <1>6, <1>7, <1>7a, <1>8, <1>9 DEF RequestStep

\* Every step keeps the second invariant.
LEMMA NextAnswering == IInv /\ Answering /\ [Next]_vars => Answering'
<1> SUFFICES ASSUME IInv, Answering, [Next]_vars
             PROVE  Answering'
  OBVIOUS
<1>0. /\ events \in [Requests -> Nat]
      /\ shown \in [Requests -> Nat]
  BY DEF IInv, TypeOK
<1>1. CASE UNCHANGED vars
  BY <1>1 DEF vars, request, Answering, ToldIsWanted, AnswersLast, PlacedLast,
              SeenIsShown, SeenStopsAdding, Placing, SameDelivery
<1>2. ASSUME NEW r \in Requests, RequestStep(r)
      PROVE  Answering'
  <2>1. OnlyMoves(r) /\ MovesOn(r)
    BY <1>2, StepShape DEF Answering
  <2>2. AnswersLast'
    BY <2>1 DEF OnlyMoves, MovesOn, Answering, AnswersLast
  <2>3. PlacedLast'
    <3> SUFFICES ASSUME NEW s \in Requests, events'[s] > 0
                 PROVE  stage'[s] = "answered"
      BY DEF PlacedLast
    <3>1. CASE s = r
      <4>1. events'[r] # events[r]
        BY <2>1, <3>1 DEF OnlyMoves, Answering, PlacedLast
      <4> QED
        BY <2>1, <3>1, <4>1 DEF MovesOn
    <3>2. CASE s # r
      BY <2>1, <3>2 DEF OnlyMoves, Answering, PlacedLast
    <3> QED
      BY <3>1, <3>2
  <2>4. SeenIsShown'
    <3> SUFFICES ASSUME NEW s \in Requests, NEW o \in seen'[s]
                 PROVE  o \in Requests /\ shown'[o] > 0
      BY DEF SeenIsShown
    <3>1. shown' = shown
      BY <2>1 DEF OnlyMoves
    <3>2. seen'[s] = seen[s] \/ seen'[s] = {q \in Requests : shown[q] > 0}
      BY <2>1 DEF OnlyMoves, MovesOn
    <3> QED
      BY <3>1, <3>2 DEF Answering, SeenIsShown
  <2>5. ToldIsWanted'
    <3> SUFFICES ASSUME NEW q \in Requests, answer'[q] \in {"created", "existing"}
                 PROVE  /\ target'[q] \in Requests
                        /\ events'[target'[q]] > 0
                        /\ SameDelivery(target'[q], q)
      <4>1. call' = call
        BY <2>1 DEF OnlyMoves
      <4> QED
        BY <4>1 DEF ToldIsWanted, SameDelivery
    <3>1. CASE q = r
      BY <2>1, <3>1 DEF MovesOn
    <3>2. CASE q # r
      <4>1. target'[q] = target[q] /\ answer'[q] = answer[q]
        BY <2>1, <3>2 DEF OnlyMoves
      <4>2. /\ target[q] \in Requests
            /\ events[target[q]] > 0
            /\ SameDelivery(target[q], q)
        BY <4>1 DEF Answering, ToldIsWanted
      <4>3. events'[target[q]] > 0
        <5>1. CASE target[q] = r
          <6>1. events[r] \in Nat /\ events[r] > 0 /\ events'[r] >= events[r]
            BY <1>0, <2>1, <4>2, <5>1 DEF OnlyMoves
          <6>2. events'[r] = events[r]
            BY <2>1, <6>1 DEF OnlyMoves, Answering, PlacedLast
          <6> QED
            BY <5>1, <6>1, <6>2
        <5>2. CASE target[q] # r
          BY <2>1, <4>2, <5>2 DEF OnlyMoves
        <5> QED
          BY <5>1, <5>2
      <4> QED
        BY <4>1, <4>2, <4>3
    <3> QED
      BY <3>1, <3>2
  <2>6. SeenStopsAdding'
    <3> SUFFICES ASSUME NEW o \in Requests, NEW s \in Requests, o # s,
                        o \in seen'[s], SameDelivery(o, s)'
                 PROVE  events'[s] = 0 /\ ~Placing(s)'
      BY DEF SeenStopsAdding
    <3>1. call' = call /\ shown' = shown /\ SameDelivery(o, s)
      BY <2>1 DEF OnlyMoves, SameDelivery
    <3>2. CASE s # r
      BY <2>1, <3>1, <3>2 DEF OnlyMoves, Answering, SeenStopsAdding, Placing
    <3>3. CASE s = r /\ o \in seen[r]
      <4>1. events[r] = 0 /\ ~Placing(r)
        BY <3>1, <3>3 DEF Answering, SeenStopsAdding
      <4>2. events'[r] = 0
        BY <2>1, <4>1 DEF MovesOn
      <4>3. o \in OrdersForRecipient(call[r].user, call[r].date)
        <5>1. shown[o] > 0
          BY <3>3 DEF Answering, SeenIsShown
        <5>2. call[o].user = call[r].user /\ call[o].date = call[r].date
          BY <3>1, <3>3 DEF SameDelivery
        <5>3. call[r].date \in Nat
          BY RequestsAssumption DEF IInv, TypeOK, Call
        <5> QED
          BY <5>1, <5>2, <5>3 DEF OrdersForRecipient
      <4>4. ~Placing(r)'
        BY <2>1, <4>1, <4>3 DEF MovesOn
      <4> QED
        BY <3>3, <4>2, <4>4
    <3>4. CASE s = r /\ o \notin seen[r]
      <4>1. ~Placing(r)'
        BY <2>1, <3>4 DEF MovesOn
      <4>2. ~(events[r] > 0)
        BY <2>1 DEF OnlyMoves, Answering, PlacedLast
      <4>3. events'[r] = events[r]
        BY <2>1, <3>4 DEF MovesOn
      <4>4. events[r] = 0
        BY <1>0, <4>2
      <4> QED
        BY <3>4, <4>1, <4>3, <4>4
    <3> QED
      BY <3>2, <3>3, <3>4
  <2> QED
    BY <2>2, <2>3, <2>4, <2>5, <2>6 DEF Answering
<1>3. ASSUME NEW o \in Requests, Project(o)
      PROVE  Answering'
  <2>1. /\ UNCHANGED <<request, events>>
        /\ \A q \in Requests : shown[q] > 0 => shown'[q] > 0
    BY <1>0, <1>3 DEF Project
  <2> QED
    BY <2>1 DEF request, Answering, ToldIsWanted, AnswersLast, PlacedLast,
                SeenIsShown, SeenStopsAdding, Placing, SameDelivery
<1> QED
  BY <1>1, <1>2, <1>3 DEF Next

\* In every reachable state an answer is the last thing a request does, and what it
\* saw shown still is.
THEOREM AnsweringHolds == Spec => []Answering
<1>1. Init => Answering
  BY DEF Init, Answering, ToldIsWanted, AnswersLast, PlacedLast, SeenIsShown,
         SeenStopsAdding
<1> QED
  BY <1>1, NextAnswering, Invariance, PTL DEF Spec

\* However many requests overlap, a caller is told of stored orders only, and of
\* orders for the recipient and date the caller named.
THEOREM ToldOrdersAreStored == Spec => []ToldOrderIsStored
<1>1. Answering => ToldOrderIsStored
  BY DEF Answering, ToldIsWanted, ToldOrderIsStored, SameDelivery
<1> QED
  BY <1>1, AnsweringHolds, PTL

\* However many requests overlap, a second order for a recipient and date comes
\* only from a request that came in before the first was shown.
THEOREM OnlyOverlapDuplicates == Spec => []DuplicatesOverlap
<1>1. Answering => DuplicatesOverlap
  BY DEF Answering, SeenStopsAdding, DuplicatesOverlap, SameDelivery
<1> QED
  BY <1>1, AnsweringHolds, PTL

-----------------------------------------------------------------------------
(* The store that callers see *)

\* A step of r tells its caller of its target, or nobody of anything.
LEMMA ToldGrows ==
    ASSUME NEW r \in Requests, OnlyMoves(r), answer[r] = "none"
    PROVE  Told' = IF answer'[r] \in {"created", "existing"} THEN Told \cup {target'[r]}
                   ELSE Told
<1> DEFINE Q == {q \in Requests : answer[q] \in {"created", "existing"}}
           R == {q \in Requests : answer'[q] \in {"created", "existing"}}
<1>1. r \notin Q /\ \A q \in Q : q \in R /\ target'[q] = target[q]
  BY DEF OnlyMoves
<1>2. \A q \in R : q = r \/ (q \in Q /\ target'[q] = target[q])
  BY DEF OnlyMoves
<1>3. r \in R <=> answer'[r] \in {"created", "existing"}
  OBVIOUS
<1>4. Told = {target[q] : q \in Q} /\ Told' = {target'[q] : q \in R}
  BY DEF Told
<1> HIDE DEF Q, R
<1>5. CASE r \in R
  <2>1. Told' = Told \cup {target'[r]}
    BY <1>1, <1>2, <1>4, <1>5
  <2> QED
    BY <1>3, <1>5, <2>1
<1>6. CASE r \notin R
  <2>1. Told' = Told
    BY <1>1, <1>2, <1>4, <1>6
  <2> QED
    BY <1>3, <1>6, <2>1
<1> QED
  BY <1>5, <1>6

\* An accepted save creates the order of its request.
LEMMA SaveCreates ==
    ASSUME IInv, Answering, NEW r \in Requests, SaveAccepted(r)
    PROVE  OrderStore!Create(r)
<1>1. /\ call[r].kind = "add" /\ target[r] = r /\ events[r] = 0
      /\ stage[r] = "save" /\ answer[r] = "none"
      /\ events \in [Requests -> Nat] /\ call \in [Requests -> Call]
  BY OnlyNewIsTaken DEF SaveAccepted, IInv, TypeOK, Answering, AnswersLast
<1>2. OnlyMoves(r)
  BY StepShape DEF RequestStep, Answering
<1>3. events' = [events EXCEPT ![r] = 1]
  BY <1>1 DEF SaveAccepted
<1>4. call' = call /\ shown' = shown /\ target' = target
  BY DEF SaveAccepted
<1>5. Told' \in {Told, Told \cup {r}}
  BY <1>1, <1>2, <1>4, ToldGrows
<1>6. \A o \in Requests : [user |-> call[o].user, date |-> call[o].date]
                              \in [user : Recipients, date : Dates]
  BY <1>1 DEF Call
<1> QED
  BY <1>1, <1>3, <1>4, <1>5, <1>6 DEF OrderStore!Create

\* Every other step of a request tells a caller of an order that is shown, or
\* changes nothing in the store.
LEMMA OthersTell ==
    ASSUME IInv, Answering, NEW r \in Requests, RequestStep(r), ~SaveAccepted(r)
    PROVE  \/ \E o \in Requests : OrderStore!Tell(o)
           \/ UNCHANGED OrderStore!vars
<1>1. OnlyMoves(r) /\ answer[r] = "none" /\ answer \in [Requests -> Answers]
  <2>1. OnlyMoves(r)
    BY StepShape DEF Answering
  <2> QED
    BY <2>1 DEF OnlyMoves, Answering, AnswersLast, IInv, TypeOK
<1>2. call' = call /\ shown' = shown /\ events' = events
  BY DEF RequestStep, Receive, AuthorizeAdd, Lookup, AuthorizeUpdate, Build, Load, LoadFails,
         ValidateAdd, ValidateRecipient, ValidateUpdate, SaveFails
<1>3. CASE answer'[r] \notin {"created", "existing"}
  <2>1. Told' = Told
    BY <1>1, <1>3, ToldGrows
  <2> QED
    BY <1>2, <2>1 DEF OrderStore!vars
<1>4. CASE answer'[r] \in {"created", "existing"}
  <2>1. Lookup(r)
    BY <1>1, <1>4 DEF RequestStep, Receive, AuthorizeAdd, AuthorizeUpdate, Build, Load,
       LoadFails, ValidateAdd, ValidateRecipient, ValidateUpdate, SaveFails, GoTo, Answer
  <2>2. target'[r] \in OrdersForRecipient(call[r].user, call[r].date)
    BY <1>1, <1>4, <2>1 DEF Lookup, GoTo, Answer, IInv, TypeOK
  <2>3. target'[r] \in {o \in Requests : shown[o] > 0}
    BY <2>2 DEF OrdersForRecipient
  <2>4. Told' = Told \cup {target'[r]}
    BY <1>1, <1>4, ToldGrows
  <2>5. OrderStore!Tell(target'[r])
    BY <1>2, <2>3, <2>4 DEF OrderStore!Tell
  <2> QED
    BY <2>3, <2>5
<1> QED
  BY <1>3, <1>4

\* Whatever version aggregates start at and however many requests overlap, what
\* callers of the order service see is a store whose orders are written once.
THEOREM ImplementsWriteOnceStore == Spec => OrdersAreWrittenOnce
<1>1. Init => OrderStore!Init
  <2> SUFFICES ASSUME Init PROVE OrderStore!Init
    OBVIOUS
  <2>1. {o \in Requests : shown[o] > 0} = {} /\ Told = {}
    BY DEF Init, Told
  <2>2. \A o \in Requests : [user |-> call[o].user, date |-> call[o].date]
                                \in [user : Recipients, date : Dates]
    BY DEF Init, Call
  <2> QED
    BY <2>1, <2>2 DEF Init, OrderStore!Init
<1>2. IInv /\ Answering /\ [Next]_vars => [OrderStore!Next]_(OrderStore!vars)
  <2> SUFFICES ASSUME IInv, Answering, [Next]_vars
               PROVE  [OrderStore!Next]_(OrderStore!vars)
    OBVIOUS
  <2>1. CASE UNCHANGED vars
    BY <2>1 DEF vars, request, OrderStore!vars, Told
  <2>2. ASSUME NEW r \in Requests, RequestStep(r)
        PROVE  [OrderStore!Next]_(OrderStore!vars)
    <3>1. CASE SaveAccepted(r)
      BY <3>1, SaveCreates DEF OrderStore!Next
    <3>2. CASE ~SaveAccepted(r)
      BY <2>2, <3>2, OthersTell DEF OrderStore!Next
    <3> QED
      BY <3>1, <3>2
  <2>3. ASSUME NEW o \in Requests, Project(o)
        PROVE  [OrderStore!Next]_(OrderStore!vars)
    <3>1. events \in [Requests -> Nat] /\ shown \in [Requests -> Nat]
      BY DEF IInv, TypeOK
    <3>2. events[o] > 0 /\ shown' = [shown EXCEPT ![o] = @ + 1]
      BY <2>3, <3>1 DEF Project
    <3>3. {q \in Requests : shown'[q] > 0} = {q \in Requests : shown[q] > 0} \cup {o}
      BY <3>1, <3>2
    <3>4. UNCHANGED <<events, call, Told>>
      BY <2>3 DEF Project, request, Told
    <3>5. OrderStore!Show(o)
      BY <3>2, <3>3, <3>4 DEF OrderStore!Show
    <3> QED
      BY <3>5 DEF OrderStore!Next
  <2> QED
    BY <2>1, <2>2, <2>3 DEF Next
<1> QED
  BY <1>1, <1>2, Invariance, AnsweringHolds, PTL DEF Spec, OrdersAreWrittenOnce, OrderStore!Spec
=============================================================================
