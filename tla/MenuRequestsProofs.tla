-------------------------- MODULE MenuRequestsProofs --------------------------
(***************************************************************************)
(* Proofs about MenuRequests for every InitialVersion, every menu and      *)
(* every number of requests.                                               *)
(***************************************************************************)
EXTENDS MenuRequests, TLAPS

-----------------------------------------------------------------------------
(* Apply *)

\* Status, date and day updates of an aggregate are aggregates again.
LEMMA AggregateUpdates ==
    ASSUME NEW a \in Aggregate
    PROVE  /\ \A s \in {"Available", "Withdrawn"} : [a EXCEPT !.status = s] \in Aggregate
           /\ \A d \in SUBSET Dates : [a EXCEPT !.withdrawn = d] \in Aggregate
           /\ \A d \in SUBSET Weekdays : [a EXCEPT !.openDays = d] \in Aggregate
           /\ \A d \in Dates : [a EXCEPT !.openBeyond = d] \in Aggregate
           /\ \A m \in Meals \cup {NoMeal} : [a EXCEPT !.meal = m] \in Aggregate
           /\ \A m \in Meals \cup {NoMeal} :
                 [a EXCEPT !.status = "Available", !.meal = m] \in Aggregate
           /\ \A b \in BOOLEAN : [a EXCEPT !.noBread = b] \in Aggregate
           /\ \A b \in BOOLEAN : [a EXCEPT !.noOptions = b] \in Aggregate
           /\ a.withdrawn \in SUBSET Dates
           /\ a.openDays \in SUBSET Weekdays
BY DEF Aggregate

\* What a command raises names what the command names.
LEMMA RaisedNames ==
    ASSUME NEW class \in Classes, NEW c \in Commands(class)
    PROVE  /\ Raised(c).op \in Ops[class]
           /\ Raised(c).op \in ForDate \cup {"AmendOpenOrderDate"} => Raised(c).on \in Dates
           /\ Raised(c).op \in {"OpenDay", "CloseDay"} => Raised(c).on \in NamedDays
           /\ Raised(c).meal \in Meals \cup {NoMeal}
<1>1. PICK op \in Ops[class] : c \in [op : {op}, on : Names(op), meal : Gives(class, op)]
  BY DEF Commands
<1>2. c.op = op /\ c.on \in Names(op) /\ c.meal \in Meals \cup {NoMeal}
  BY <1>1 DEF Gives
<1>3. Raised(c).op = op /\ Raised(c).on = c.on
  BY <1>1, <1>2 DEF Raised
<1>4. Raised(c).meal \in Meals \cup {NoMeal}
  BY <1>1, <1>2 DEF Raised
<1> QED
  BY <1>1, <1>2, <1>3, <1>4 DEF Names, ForDate

\* Apply turns aggregates into aggregates.
LEMMA ApplyType ==
    ASSUME NEW class \in Classes, NEW a \in Aggregate, NEW c \in Commands(class)
    PROVE  Apply(class, a, Raised(c)) \in Aggregate
<1> DEFINE e == Raised(c)
<1>1. /\ e.op \in ForDate => e.on \in Dates
      /\ e.op = "AmendOpenOrderDate" => e.on \in Dates
      /\ e.op \in {"OpenDay", "CloseDay"} => e.on \in Weekdays
      /\ e.meal \in Meals \cup {NoMeal}
      /\ e.op \in Ops[class]
  BY RaisedNames, MenuAssumption
<1> HIDE DEF e
<1>2. /\ e.op \in ForDate => /\ a.withdrawn \cup {e.on} \in SUBSET Dates
                             /\ a.withdrawn \ {e.on} \in SUBSET Dates
      /\ e.op \in {"OpenDay", "CloseDay"} => /\ a.openDays \cup {e.on} \in SUBSET Weekdays
                                             /\ a.openDays \ {e.on} \in SUBSET Weekdays
  BY <1>1, AggregateUpdates
<1>3. ApplyStatus(a, e) \in Aggregate
  BY AggregateUpdates DEF ApplyStatus
<1>4. ApplyBread(a, e) \in Aggregate
  BY <1>2, <1>3, AggregateUpdates DEF ApplyBread, ForDate
<1>5. ApplyFilling(a, e) \in Aggregate
  BY <1>1, <1>2, <1>3, AggregateUpdates DEF ApplyFilling, ForDate
<1>6. class = "Calendar" => ApplyCalendar(a, e) \in Aggregate
  <2>1. 1..5 \in SUBSET Weekdays
    BY DEF Weekdays
  <2>2. class = "Calendar" =>
            e.op \in {"Create", "ActivateForDate", "WithdrawForDate", "OpenDay",
                      "CloseDay", "AmendOpenOrderDate"}
    BY <1>1 DEF Ops, CalendarOps, ForDate
  <2> QED
    BY <1>1, <1>2, <2>1, <2>2, AggregateUpdates DEF ApplyCalendar, DayIndex, ForDate
<1> QED
  BY <1>4, <1>5, <1>6 DEF Apply, ApplyMenuOption, ApplyLunchProvider, ApplyMenuCategory,
                          Classes, e

-----------------------------------------------------------------------------
(* The inductive invariant *)

\* What the stage and the answer of a request say about the aggregate it holds
\* and about its item's stream.
Good(r) ==
    /\ stage[r] = "load" => ~Creates(r)
    /\ stage[r] = "validate" => version[r] = InitialVersion + 1
    /\ Creates(r) /\ stage[r] \in {"validate", "save"} =>
          /\ version[r] = InitialVersion + 1
          /\ hand[r] = Apply(Class(r), NewAggregate, Raised(call[r].command))
    /\ Creates(r) /\ stage[r] = "save" => LooksNew(version[r])
    /\ ~Creates(r) /\ stage[r] \in {"validate", "save"} => events[call[r].item] = 1
    /\ ~Creates(r) /\ stage[r] = "save" => version[r] = InitialVersion + 2
    /\ answer[r] = "ok" =>
          /\ stage[r] = "answered"
          /\ Creates(r)
          /\ events[call[r].item] = 1
          /\ stored[call[r].item] = hand[r]

\* A stream has at most its first event, and that only if a new aggregate
\* passed the validator.
ShortStream(i) ==
    /\ events[i] <= 1
    /\ events[i] = 1 => InitialVersion < 0
    /\ events[i] = 0 => stored[i] = NewAggregate

\* Two requests that both were told they created an item created different ones.
NoTwoCreators ==
    \A r \in Requests : answer[r] = "ok" =>
        \A s \in Requests \ {r} :
            call[s].item = call[r].item => answer[s] # "ok"

IInv ==
    /\ TypeOK
    /\ \A r \in Requests : Good(r)
    /\ \A i \in Items : ShortStream(i)
    /\ NoTwoCreators

\* Calls are about an item and one of its class's commands.
LEMMA CallType ==
    ASSUME TypeOK, NEW r \in Requests
    PROVE  /\ call[r].item \in Items
           /\ Class(r) \in Classes
           /\ call[r].command \in Commands(Class(r))
<1>1. call[r] \in Call
  BY DEF TypeOK
<1>2. PICK i \in Items : call[r] \in [item : {i}, command : Commands(ClassOf[i])]
  BY <1>1 DEF Call
<1>3. call[r].item = i /\ call[r].command \in Commands(ClassOf[i])
  BY <1>2
<1> QED
  BY <1>3, ItemsAssumption DEF Class

LEMMA NewAggregateType == NewAggregate \in Aggregate
BY DEF NewAggregate, Aggregate

\* Request r moves to stage s and leaves the answer a, the aggregate h and the
\* version v behind; no stream changes.
Moves(r, s, a, h, v) ==
    /\ UNCHANGED <<call, events, stored, shown, beyond>>
    /\ stage' = [stage EXCEPT ![r] = s]
    /\ answer' = [answer EXCEPT ![r] = a]
    /\ hand' = [hand EXCEPT ![r] = h]
    /\ version' = [version EXCEPT ![r] = v]

\* They agree with the stage.
Agrees(r, s, a, h, v) ==
    /\ s \in Stages /\ a \in Answers \ {"ok"} /\ h \in Aggregate /\ v \in Int
    /\ s = "load" => ~Creates(r)
    /\ s = "validate" => v = InitialVersion + 1
    /\ Creates(r) /\ s \in {"validate", "save"} =>
          /\ v = InitialVersion + 1
          /\ h = Apply(Class(r), NewAggregate, Raised(call[r].command))
    /\ Creates(r) /\ s = "save" => LooksNew(v)
    /\ ~Creates(r) /\ s \in {"validate", "save"} => events[call[r].item] = 1
    /\ ~Creates(r) /\ s = "save" => v = InitialVersion + 2

\* A request that moves so keeps the inductive invariant.
LEMMA RequestMoves ==
    ASSUME IInv, NEW r \in Requests, NEW s, NEW a, NEW h, NEW v,
           Moves(r, s, a, h, v), Agrees(r, s, a, h, v)
    PROVE  IInv'
<1>0. TypeOK
  BY DEF IInv
<1>1. TypeOK'
  <2>1. stage' \in [Requests -> Stages]
    BY <1>0 DEF TypeOK, Moves, Agrees
  <2>2. hand' \in [Requests -> Aggregate]
    BY <1>0 DEF TypeOK, Moves, Agrees
  <2>3. version' \in [Requests -> Int]
    BY <1>0 DEF TypeOK, Moves, Agrees
  <2>4. answer' \in [Requests -> Answers]
    BY <1>0 DEF TypeOK, Moves, Agrees
  <2> QED
    BY <1>0, <2>1, <2>2, <2>3, <2>4 DEF TypeOK, Moves
<1>2. /\ stage'[r] = s /\ answer'[r] = a /\ hand'[r] = h /\ version'[r] = v
      /\ \A q \in Requests \ {r} :
             /\ stage'[q] = stage[q] /\ answer'[q] = answer[q]
             /\ hand'[q] = hand[q] /\ version'[q] = version[q]
  BY <1>0 DEF TypeOK, Moves
<1>3. call' = call /\ events' = events /\ stored' = stored /\ a # "ok"
  BY DEF Moves, Agrees
<1>4. ASSUME NEW q \in Requests PROVE Good(q)'
  <2>1. CASE q = r
    BY <1>2, <1>3, <2>1 DEF Good, Agrees, Creates, Class, LooksNew
  <2>2. CASE q # r
    <3>1. Good(q)
      BY DEF IInv
    <3>2. /\ stage'[q] = stage[q] /\ answer'[q] = answer[q]
          /\ hand'[q] = hand[q] /\ version'[q] = version[q]
      BY <1>2, <2>2
    <3> QED
      BY <1>3, <3>1, <3>2 DEF Good, Creates, Class, LooksNew
  <2> QED
    BY <2>1, <2>2
<1>5. \A i \in Items : ShortStream(i)'
  BY <1>3 DEF IInv, ShortStream
<1>6. NoTwoCreators'
  BY <1>2, <1>3 DEF IInv, NoTwoCreators
<1> QED
  BY <1>1, <1>4, <1>5, <1>6 DEF IInv

\* SaveAsync refuses every change of an item, and takes a creation on an empty
\* stream only, if aggregates start below 0.
LEMMA OnlyNewIsTaken ==
    ASSUME IInv, NEW r \in Requests, stage[r] = "save", StreamTakes(r)
    PROVE  /\ Creates(r)
           /\ events[call[r].item] = 0
           /\ InitialVersion < 0
<1> DEFINE e == events[call[r].item]
<1>1. call[r].item \in Items
  BY CallType DEF IInv
<1>2. e \in Nat /\ e <= 1 /\ (e = 1 => InitialVersion < 0)
  BY <1>1 DEF IInv, ShortStream, TypeOK
<1>3. InitialVersion \in Int /\ version[r] \in Int
  BY InitialVersionAssumption DEF IInv, TypeOK
<1>4. e - 1 = IF version[r] - 2 < 0 THEN -1 ELSE version[r] - 2
  BY <1>2, <1>3 DEF StreamTakes, Accepts, ExpectedVersion, OriginalVersion, NoStream
<1>5. ~Creates(r) => e = 1 /\ version[r] = InitialVersion + 2
  BY DEF IInv, Good
<1>6. Creates(r) => version[r] = InitialVersion + 1 /\ ~(version[r] > 0)
  BY DEF IInv, Good, LooksNew
<1> HIDE DEF e
<1>7. Creates(r)
  BY <1>2, <1>3, <1>4, <1>5
<1>8. e = 0 /\ InitialVersion < 0
  BY <1>2, <1>3, <1>4, <1>6, <1>7
<1> QED
  BY <1>7, <1>8 DEF e

-----------------------------------------------------------------------------
(* The invariant is inductive *)

LEMMA InitIInv == Init => IInv
<1> SUFFICES ASSUME Init PROVE IInv
  OBVIOUS
<1>1. TypeOK
  <2>1. InitialVersion \in Int
    BY InitialVersionAssumption
  <2> QED
    BY <2>1, NewAggregateType DEF Init, TypeOK, Stages, Answers
<1>2. \A r \in Requests : Good(r)
  BY DEF Init, Good
<1>3. \A i \in Items : ShortStream(i)
  BY DEF Init, ShortStream
<1>4. NoTwoCreators
  BY DEF Init, NoTwoCreators
<1> QED
  BY <1>1, <1>2, <1>3, <1>4 DEF IInv

\* An item's creation goes to an empty stream, where it is the first event.
LEMMA SaveKeepsIInv ==
    ASSUME IInv, NEW r \in Requests, SaveAccepted(r)
    PROVE  IInv'
<1> DEFINE i == call[r].item
<1>0. /\ TypeOK /\ i \in Items /\ Good(r) /\ stage[r] = "save"
      /\ Class(r) \in Classes /\ call[r].command \in Commands(Class(r))
  BY CallType DEF IInv, SaveAccepted
<1>1. Creates(r) /\ events[i] = 0 /\ InitialVersion < 0
  BY OnlyNewIsTaken DEF SaveAccepted
<1>2. /\ stored[i] = NewAggregate
      /\ hand[r] = Apply(Class(r), NewAggregate, Raised(call[r].command))
      /\ hand[r] \in Aggregate
  BY <1>0, <1>1, ApplyType, NewAggregateType DEF IInv, ShortStream, Good
<1>3. /\ events' = [events EXCEPT ![i] = 1]
      /\ stored' = [stored EXCEPT ![i] = hand[r]]
      /\ UNCHANGED <<call, hand, version, shown, beyond>>
      /\ stage' = [stage EXCEPT ![r] = "answered"]
  <2>1. events[i] + 1 = 1
    BY <1>1
  <2>2. ClassOf[i] = Class(r)
    BY DEF Class
  <2>3. Apply(ClassOf[i], stored[i], Raised(call[r].command)) = hand[r]
    BY <1>2, <2>2
  <2> QED
    BY <2>1, <2>3 DEF SaveAccepted, Answer
<1>4. PICK a \in {"ok", "failed"} : answer' = [answer EXCEPT ![r] = a]
  BY DEF SaveAccepted, Answer
<1>5. /\ events'[i] = 1 /\ stored'[i] = hand[r]
      /\ stage'[r] = "answered" /\ answer'[r] = a
      /\ \A j \in Items \ {i} : events'[j] = events[j] /\ stored'[j] = stored[j]
      /\ \A q \in Requests \ {r} : stage'[q] = stage[q] /\ answer'[q] = answer[q]
  BY <1>0, <1>3, <1>4 DEF TypeOK
<1>6. TypeOK'
  <2>1. events' \in [Items -> Nat]
    BY <1>0, <1>3 DEF TypeOK
  <2>2. stored' \in [Items -> Aggregate]
    BY <1>0, <1>2, <1>3 DEF TypeOK
  <2>3. stage' \in [Requests -> Stages]
    BY <1>0, <1>3 DEF TypeOK, Stages
  <2>4. answer' \in [Requests -> Answers]
    BY <1>0, <1>4 DEF TypeOK, Answers
  <2> QED
    BY <1>0, <1>3, <2>1, <2>2, <2>3, <2>4 DEF TypeOK
<1>7. ASSUME NEW q \in Requests PROVE Good(q)'
  <2>0. call[q].item \in Items /\ Good(q)
    BY <1>0, CallType DEF IInv
  <2>1. call' = call /\ hand' = hand /\ version' = version
    BY <1>3
  <2>2. CASE q = r
    BY <1>1, <1>5, <2>1, <2>2 DEF Good, Creates
  <2>3. CASE q # r
    <3>1. stage'[q] = stage[q] /\ answer'[q] = answer[q]
      BY <1>5, <2>3
    <3>2. CASE call[q].item = i
      <4>1. answer[q] # "ok"
        BY <1>1, <2>0, <3>2 DEF Good
      <4> HIDE DEF i
      <4> QED
        BY <1>5, <2>0, <2>1, <3>1, <3>2, <4>1 DEF Good, Creates, Class, LooksNew
    <3>3. CASE call[q].item # i
      <4>1. /\ events'[call[q].item] = events[call[q].item]
            /\ stored'[call[q].item] = stored[call[q].item]
        BY <1>5, <2>0, <3>3
      <4> QED
        BY <2>0, <2>1, <3>1, <4>1 DEF Good, Creates, Class, LooksNew
    <3> QED
      BY <3>2, <3>3
  <2> QED
    BY <2>2, <2>3
<1>8. ASSUME NEW j \in Items PROVE ShortStream(j)'
  <2>1. ShortStream(j)
    BY DEF IInv
  <2>2. CASE j = i
    BY <1>1, <1>5, <2>2 DEF ShortStream
  <2>3. CASE j # i
    BY <1>5, <2>1, <2>3 DEF ShortStream
  <2> QED
    BY <2>2, <2>3
<1>9. NoTwoCreators'
  <2>1. \A q \in Requests : call[q].item = i => answer[q] # "ok"
    BY <1>1 DEF IInv, Good
  <2>2. call' = call
    BY <1>3
  <2>3. NoTwoCreators
    BY DEF IInv
  <2> SUFFICES ASSUME NEW q \in Requests, answer'[q] = "ok",
                      NEW s \in Requests \ {q}, call[s].item = call[q].item,
                      answer'[s] = "ok"
               PROVE  FALSE
    BY <2>2 DEF NoTwoCreators
  <2>4. q # r
    BY <1>5, <2>1
  <2>5. s # r
    BY <1>5, <2>1
  <2> QED
    BY <1>5, <2>3, <2>4, <2>5 DEF NoTwoCreators
<1> QED
  BY <1>6, <1>7, <1>8, <1>9 DEF IInv

LEMMA NextIInv == IInv /\ [Next]_vars => IInv'
<1> SUFFICES ASSUME IInv, [Next]_vars PROVE IInv'
  OBVIOUS
<1>0. TypeOK
  BY DEF IInv
<1>1. ASSUME NEW r \in Requests, RequestStep(r) PROVE IInv'
  <2> DEFINE i == call[r].item
  <2>0. /\ i \in Items /\ Good(r) /\ ShortStream(i) /\ version[r] \in Int
        /\ hand[r] \in Aggregate /\ answer[r] \in Answers /\ events[i] \in Nat
        /\ Class(r) \in Classes /\ call[r].command \in Commands(Class(r))
        /\ stored[i] \in Aggregate
        /\ InitialVersion \in Int
    BY <1>0, CallType, InitialVersionAssumption DEF IInv, TypeOK
  <2>1. stage[r] # "answered" => answer[r] \in Answers \ {"ok"}
    BY <2>0 DEF Good
  <2>2. /\ hand' = hand => hand' = [hand EXCEPT ![r] = hand[r]]
        /\ version' = version => version' = [version EXCEPT ![r] = version[r]]
        /\ answer' = answer => answer' = [answer EXCEPT ![r] = answer[r]]
    BY <1>0 DEF TypeOK
  <2>3. ASSUME NEW s, NEW a, NEW h, NEW v, Moves(r, s, a, h, v), Agrees(r, s, a, h, v)
        PROVE  IInv'
    BY <2>3, RequestMoves
  \* Whatever fails or is refused leaves an answer other than ok.
  <2>4. ASSUME NEW a \in {"failed", "refused"}, Answer(r, a),
               UNCHANGED <<call, hand, version, events, stored, shown, beyond>>
        PROVE  IInv'
    <3>1. Moves(r, "answered", a, hand[r], version[r])
      BY <2>2, <2>4 DEF Moves, Answer
    <3>2. Agrees(r, "answered", a, hand[r], version[r])
      BY <2>0 DEF Agrees, Stages, Answers
    <3> QED
      BY <2>3, <3>1, <3>2
  <2>5. CASE Receive(r)
    <3>1. CASE Answer(r, "failed") /\ UNCHANGED <<hand, version>>
      BY <2>4, <2>5, <3>1 DEF Receive
    <3>2. CASE Creates(r) /\ GoTo(r, "validate") /\ Raise(r, NewAggregate, InitialVersion)
      <4> DEFINE h == Apply(Class(r), NewAggregate, Raised(call[r].command))
      <4>1. h \in Aggregate
        BY <2>0, ApplyType, NewAggregateType
      <4>2. Moves(r, "validate", answer[r], h, InitialVersion + 1)
        BY <2>2, <2>5, <3>2 DEF Receive, Moves, GoTo, Raise, Hold
      <4>3. answer[r] \in Answers \ {"ok"}
        BY <2>1, <2>5 DEF Receive
      <4>4. Agrees(r, "validate", answer[r], h, InitialVersion + 1)
        BY <2>0, <3>2, <4>1, <4>3 DEF Agrees, Stages
      <4> QED
        BY <2>3, <4>2, <4>4
    <3>3. CASE ~Creates(r) /\ GoTo(r, "load") /\ UNCHANGED <<hand, version>>
      <4>1. Moves(r, "load", answer[r], hand[r], version[r])
        BY <2>2, <2>5, <3>3 DEF Receive, Moves, GoTo
      <4>2. Agrees(r, "load", answer[r], hand[r], version[r])
        BY <2>0, <2>1, <2>5, <3>3 DEF Receive, Agrees, Stages
      <4> QED
        BY <2>3, <4>1, <4>2
    <3> QED
      BY <2>5, <3>1, <3>2, <3>3 DEF Receive
  <2>6. CASE Load(r)
    <3>1. events[i] = 1
      BY <2>0, <2>6 DEF Load, ShortStream
    <3>2. Moves(r, "validate", answer[r], stored[i], InitialVersion + 1)
      BY <2>2, <2>6, <3>1 DEF Load, Moves, GoTo, Hold
    <3>3. ~Creates(r) /\ answer[r] \in Answers \ {"ok"}
      BY <2>0, <2>1, <2>6 DEF Load, Good
    <3>4. Agrees(r, "validate", answer[r], stored[i], InitialVersion + 1)
      BY <2>0, <3>1, <3>3 DEF Agrees, Stages
    <3> QED
      BY <2>3, <3>2, <3>4
  <2>7. CASE LoadFails(r)
    BY <2>4, <2>7 DEF LoadFails
  <2>8. CASE ValidateCreate(r)
    <3>1. CASE Answer(r, "refused")
      BY <2>4, <2>8, <3>1 DEF ValidateCreate
    <3>2. CASE LooksNew(version[r]) /\ call[r].item \notin shown /\ GoTo(r, "save")
      <4>1. Moves(r, "save", answer[r], hand[r], version[r])
        BY <2>2, <2>8, <3>2 DEF ValidateCreate, Moves, GoTo
      <4>2. Agrees(r, "save", answer[r], hand[r], version[r])
        BY <2>0, <2>1, <2>8, <3>2 DEF ValidateCreate, Agrees, Good, Stages
      <4> QED
        BY <2>3, <4>1, <4>2
    <3> QED
      BY <2>8, <3>1, <3>2 DEF ValidateCreate
  <2>9. CASE ValidateChange(r)
    <3>1. CASE ~HasValidator(r) /\ Answer(r, "failed") /\ UNCHANGED <<hand, version>>
      BY <2>4, <2>9, <3>1 DEF ValidateChange
    <3>2. CASE Answer(r, "refused") /\ UNCHANGED <<hand, version>>
      BY <2>4, <2>9, <3>2 DEF ValidateChange
    <3>3. CASE Raise(r, hand[r], version[r]) /\ GoTo(r, "save")
      <4> DEFINE h == Apply(Class(r), hand[r], Raised(call[r].command))
      <4>1. h \in Aggregate
        BY <2>0, ApplyType
      <4>2. Moves(r, "save", answer[r], h, version[r] + 1)
        BY <2>2, <2>9, <3>3 DEF ValidateChange, Moves, GoTo, Raise, Hold
      <4>3. /\ ~Creates(r) /\ answer[r] \in Answers \ {"ok"}
            /\ version[r] + 1 = InitialVersion + 2
            /\ events[i] = 1
        BY <2>0, <2>1, <2>9 DEF ValidateChange, Good
      <4>4. Agrees(r, "save", answer[r], h, version[r] + 1)
        BY <2>0, <4>1, <4>3 DEF Agrees, Stages
      <4> QED
        BY <2>3, <4>2, <4>4
    <3> QED
      BY <2>9, <3>1, <3>2, <3>3 DEF ValidateChange
  <2>10. CASE SaveAccepted(r)
    BY <2>10, SaveKeepsIInv
  <2>11. CASE SaveFails(r)
    BY <2>4, <2>11 DEF SaveFails
  <2> QED
    BY <1>1, <2>5, <2>6, <2>7, <2>8, <2>9, <2>10, <2>11 DEF RequestStep
<1>2. ASSUME UNCHANGED <<call, stage, hand, version, answer, events, stored>>,
             shown' \in SUBSET Items, beyond' \in [Items -> Dates \cup {0}]
      PROVE  IInv'
  <2>1. TypeOK'
    BY <1>0, <1>2 DEF TypeOK
  <2>2. \A r \in Requests : Good(r)'
    BY <1>2 DEF IInv, Good, Creates, Class, LooksNew
  <2>3. (\A i \in Items : ShortStream(i)') /\ NoTwoCreators'
    BY <1>2 DEF IInv, ShortStream, NoTwoCreators
  <2> QED
    BY <2>1, <2>2, <2>3 DEF IInv
<1>3. ASSUME NEW i \in Items, Project(i) PROVE IInv'
  <2>1. shown' \in SUBSET Items /\ beyond' \in [Items -> Dates \cup {0}]
    BY <1>0, <1>3 DEF Project, TypeOK
  <2> QED
    BY <1>2, <1>3, <2>1 DEF Project, request
<1>4. CASE UNCHANGED vars
  BY <1>0, <1>2, <1>4 DEF vars, request, TypeOK
<1> QED
  BY <1>1, <1>3, <1>4 DEF Next

LEMMA Inductive == Spec => []IInv
BY InitIInv, NextIInv, PTL DEF Spec

-----------------------------------------------------------------------------
(* Theorems *)

\* The variables of the menu's command side keep their types: Apply turns
\* aggregates of each class into aggregates, with every command.
THEOREM TypeCorrect == Spec => []TypeOK
<1>1. IInv => TypeOK
  BY DEF IInv
<1> QED
  BY <1>1, Inductive, PTL

\* Whatever version AggregateRoot starts at, no item of the menu changes after
\* its creation: a validator refuses the creation or SaveAsync every change.
THEOREM MenuNeverChanges == Spec => []MenuStaysAsCreated
<1>1. IInv => MenuStaysAsCreated
  BY DEF IInv, Good, ShortStream, MenuStaysAsCreated
<1> QED
  BY <1>1, Inductive, PTL

\* However many requests create an item, overlapping or repeated, one at most
\* is told so, and what it created is what the stream holds.
THEOREM OneCreatorOnly == Spec => []OneCreator
<1>1. IInv => OneCreator
  BY DEF IInv, Good, NoTwoCreators, OneCreator
<1> QED
  BY <1>1, Inductive, PTL

\* Apply of an event about a date moves the date in or out of WithdrawnDates,
\* into it for fillings and calendars that are withdrawn and for the others that
\* are activated.
LEMMA DateMoves ==
    ASSUME NEW class \in Classes, NEW c \in Commands(class), c.op \in ForDate,
           NEW a \in Aggregate
    PROVE  c.on \in Apply(class, a, Raised(c)).withdrawn
           <=> (c.op = "WithdrawForDate" <=> class \in {"Filling", "Calendar"})
<1>1. Raised(c) = c
  BY DEF Raised, ForDate
<1>2. class # "MenuCategory"
  <2>1. c.op \in Ops[class]
    BY <1>1, RaisedNames
  <2> QED
    BY <2>1 DEF Ops, MenuCategoryOps, ForDate
<1>3. \A d \in SUBSET Dates : [a EXCEPT !.withdrawn = d].withdrawn = d
  BY DEF Aggregate
<1>4. c.on \in Dates /\ a.withdrawn \in SUBSET Dates
  BY <1>1, RaisedNames, AggregateUpdates
<1>5. a.withdrawn \cup {c.on} \in SUBSET Dates /\ a.withdrawn \ {c.on} \in SUBSET Dates
  BY <1>4
<1>6. CASE class \in {"Bread", "MenuOption", "LunchProvider"}
  <2>1. Apply(class, a, c) = ApplyBread(a, c)
    BY <1>6 DEF Apply, ApplyMenuOption, ApplyLunchProvider
  <2>2. ApplyBread(a, c).withdrawn = IF c.op = "ActivateForDate" THEN a.withdrawn \cup {c.on}
                                     ELSE a.withdrawn \ {c.on}
    BY <1>3, <1>5 DEF ApplyBread, ForDate
  <2> QED
    BY <1>1, <1>6, <2>1, <2>2 DEF ForDate
<1>7. CASE class \in {"Filling", "Calendar"}
  <2>1. Apply(class, a, c).withdrawn = IF c.op = "WithdrawForDate" THEN a.withdrawn \cup {c.on}
                                       ELSE a.withdrawn \ {c.on}
    BY <1>3, <1>5, <1>7 DEF Apply, ApplyFilling, ApplyCalendar, ForDate
  <2> QED
    BY <1>1, <1>7, <2>1 DEF ForDate
<1> QED
  BY <1>2, <1>6, <1>7 DEF Classes

\* What a command about a date is about to save, its validator has just let its
\* aggregate apply.
LEMMA ReachesSaveMoved ==
    ASSUME TypeOK, [Next]_vars, NEW q \in Requests, stage'[q] = "save", stage[q] # "save",
           call[q].command.op \in ForDate
    PROVE  hand'[q] = Apply(Class(q), hand[q], Raised(call[q].command))
<1>1. PICK r \in Requests : RequestStep(r)
  BY DEF Next, Project, vars, request
<1>2. q = r
  BY <1>1 DEF TypeOK, RequestStep, Receive, Load, LoadFails, ValidateCreate, ValidateChange,
              SaveAccepted, SaveFails, GoTo, Answer
<1>3. ~Creates(r)
  BY <1>2 DEF Creates, ForDate
<1>4. ValidateChange(r)
  BY <1>1, <1>2, <1>3 DEF TypeOK, RequestStep, Receive, Load, LoadFails, ValidateCreate,
              SaveAccepted, SaveFails, GoTo, Answer
<1>5. Raise(r, hand[r], version[r])
  BY <1>2, <1>4 DEF ValidateChange, Answer, TypeOK
<1> QED
  BY <1>2, <1>5 DEF Raise, Hold, TypeOK

\* While a request is about to save, nothing changes the aggregate it holds.
LEMMA HeldInSave ==
    ASSUME TypeOK, [Next]_vars, NEW q \in Requests, stage[q] = "save"
    PROVE  hand'[q] = hand[q]
<1>1. ASSUME NEW r \in Requests, RequestStep(r), r # q PROVE hand'[q] = hand[q]
  BY <1>1 DEF TypeOK, RequestStep, Receive, Load, LoadFails, ValidateCreate, ValidateChange,
              SaveAccepted, SaveFails, Raise, Hold
<1>2. ASSUME RequestStep(q) PROVE hand'[q] = hand[q]
  BY <1>2 DEF RequestStep, Receive, Load, LoadFails, ValidateCreate, ValidateChange,
              SaveAccepted, SaveFails
<1> QED
  BY <1>1, <1>2 DEF Next, Project, vars, request

\* In a filling or a calendar a withdrawal withdraws its date and an activation
\* gives it back, whatever commands came before.
THEOREM FillingDatesMoveAsNamed == Spec => []DatesOfFillingsAsNamed
<1>1. Init => DatesOfFillingsAsNamed
  BY DEF Init, DatesOfFillingsAsNamed, DateIsAsNamed
<1>2. TypeOK /\ DatesOfFillingsAsNamed /\ [Next]_vars => DatesOfFillingsAsNamed'
  <2> SUFFICES ASSUME TypeOK, DatesOfFillingsAsNamed, [Next]_vars, NEW q \in Requests,
                      Class(q)' \in {"Filling", "Calendar"},
                      stage'[q] = "save", call'[q].command.op \in ForDate
               PROVE  call'[q].command.on \in hand'[q].withdrawn
                      <=> call'[q].command.op = "WithdrawForDate"
    BY DEF DatesOfFillingsAsNamed, DateIsAsNamed
  <2>1. call' = call
    BY DEF Next, Project, vars, request, RequestStep, Receive, Load, LoadFails,
           ValidateCreate, ValidateChange, SaveAccepted, SaveFails
  <2>2. Class(q)' = Class(q)
    BY <2>1 DEF Class
  <2>3. CASE stage[q] = "save"
    BY <2>1, <2>2, <2>3, HeldInSave DEF DatesOfFillingsAsNamed, DateIsAsNamed
  <2>4. CASE stage[q] # "save"
    <3>1. hand'[q] = Apply(Class(q), hand[q], Raised(call[q].command))
      BY <2>1, <2>4, ReachesSaveMoved
    <3>2. /\ hand[q] \in Aggregate /\ Class(q) \in Classes
          /\ call[q].command \in Commands(Class(q))
      BY CallType DEF TypeOK
    <3> QED
      BY <2>1, <2>2, <3>1, <3>2, DateMoves
  <2> QED
    BY <2>3, <2>4
<1> QED
  BY <1>1, <1>2, TypeCorrect, PTL DEF Spec

-----------------------------------------------------------------------------
(* The store that callers see *)

\* An accepted save creates the item of its request.
LEMMA SaveCreates ==
    ASSUME IInv, NEW r \in Requests, SaveAccepted(r)
    PROVE  MenuStore!Create(call[r].item)
<1> DEFINE i == call[r].item
<1>1. /\ i \in Items /\ events[i] = 0
      /\ events \in [Items -> Nat] /\ stored \in [Items -> Aggregate]
      /\ answer \in [Requests -> Answers]
  BY CallType, OnlyNewIsTaken DEF SaveAccepted, IInv, TypeOK
<1>2. stored' \in [Items -> Aggregate]
  BY SaveKeepsIInv DEF IInv, TypeOK
<1>3. /\ events' = [events EXCEPT ![i] = 1]
      /\ \A j \in Items \ {i} : stored'[j] = stored[j]
      /\ shown' = shown /\ call' = call
  BY <1>1 DEF SaveAccepted
<1>4. PICK a \in {"ok", "failed"} : answer' = [answer EXCEPT ![r] = a]
  BY DEF SaveAccepted, Answer
<1>5. answer[r] # "ok"
  BY DEF SaveAccepted, IInv, Good
<1>6. Told' \in {Told, Told \cup {i}}
  <2> DEFINE Q == {q \in Requests : answer[q] = "ok"}
             R == {q \in Requests : answer'[q] = "ok"}
  <2>1. R = Q \/ R = Q \cup {r}
    BY <1>1, <1>4, <1>5
  <2>2. Told = {call[q].item : q \in Q} /\ Told' = {call[q].item : q \in R}
    BY <1>3 DEF Told
  <2> HIDE DEF Q, R
  <2> QED
    BY <2>1, <2>2
<1> QED
  BY <1>1, <1>2, <1>3, <1>6 DEF MenuStore!Create

\* Every other step of a request changes nothing in the store.
LEMMA OthersStutter ==
    ASSUME IInv, NEW r \in Requests, RequestStep(r), ~SaveAccepted(r)
    PROVE  UNCHANGED MenuStore!vars
<1>1. UNCHANGED <<call, events, stored, shown>>
  BY DEF RequestStep, Receive, Load, LoadFails, ValidateCreate, ValidateChange, SaveFails
<1>2. answer \in [Requests -> Answers] /\ answer[r] # "ok"
  BY DEF IInv, TypeOK, Good, RequestStep, Receive, Load, LoadFails, ValidateCreate,
         ValidateChange, SaveFails
<1>3. \A q \in Requests : answer'[q] = "ok" <=> answer[q] = "ok"
  BY <1>2 DEF RequestStep, Receive, Load, LoadFails, ValidateCreate, ValidateChange,
              SaveFails, GoTo, Answer
<1>4. Told' = Told
  <2>1. {q \in Requests : answer'[q] = "ok"} = {q \in Requests : answer[q] = "ok"}
    BY <1>3
  <2> QED
    BY <1>1, <2>1 DEF Told
<1> QED
  BY <1>1, <1>4 DEF MenuStore!vars

\* Whatever version aggregates start at and however many requests overlap, what
\* callers of the menu service see is a store whose items are written once.
THEOREM ImplementsWriteOnceStore == Spec => MenuIsWrittenOnce
<1>1. Init => MenuStore!Init
  <2> SUFFICES ASSUME Init PROVE MenuStore!Init
    OBVIOUS
  <2>1. Told = {}
    BY DEF Init, Told
  <2> QED
    BY <2>1, NewAggregateType DEF Init, MenuStore!Init
<1>2. IInv /\ [Next]_vars => [MenuStore!Next]_(MenuStore!vars)
  <2> SUFFICES ASSUME IInv, [Next]_vars
               PROVE  [MenuStore!Next]_(MenuStore!vars)
    OBVIOUS
  <2>1. CASE UNCHANGED vars
    BY <2>1 DEF vars, request, MenuStore!vars, Told
  <2>2. ASSUME NEW r \in Requests, RequestStep(r)
        PROVE  [MenuStore!Next]_(MenuStore!vars)
    <3>1. CASE SaveAccepted(r)
      <4>1. MenuStore!Create(call[r].item) /\ call[r].item \in Items
        BY <3>1, SaveCreates, CallType DEF IInv
      <4> QED
        BY <4>1 DEF MenuStore!Next
    <3>2. CASE ~SaveAccepted(r)
      BY <2>2, <3>2, OthersStutter
    <3> QED
      BY <3>1, <3>2
  <2>3. ASSUME NEW i \in Items, Project(i)
        PROVE  [MenuStore!Next]_(MenuStore!vars)
    <3>1. MenuStore!Show(i)
      BY <2>3 DEF Project, request, MenuStore!Show, Told
    <3> QED
      BY <3>1 DEF MenuStore!Next
  <2> QED
    BY <2>1, <2>2, <2>3 DEF Next
<1> QED
  BY <1>1, <1>2, Inductive, PTL DEF Spec, MenuIsWrittenOnce, MenuStore!Spec
=============================================================================
