------------------------- MODULE OrderChangesProofs -------------------------
(***************************************************************************)
(* Proofs about OrderChanges for any number of requests and orders, any    *)
(* menu and any number of changes to it.                                   *)
(***************************************************************************)
EXTENDS OrderChanges, OrderAggregateProofs, SequenceTheorems, TLAPS

\* The part of the type invariant that needs nothing of what events replay to.
Types ==
    /\ streams \in [Orders -> Seq(Events)]
    /\ \A o \in Orders : streams[o] # <<>>
    /\ call \in [Requests -> Commands]
    /\ stage \in [Requests -> Stages]
    /\ hand = [r \in Requests |-> hand[r]]
    /\ version \in [Requests -> Int]
    /\ valid \in [Requests -> BOOLEAN]

-----------------------------------------------------------------------------
(* What does not touch the streams: the validator *)

\* The validator has found the item of r on offer, or r adds none.
Passed(r) ==
    \/ stage[r] = "save"
    \/ stage[r] = "pairing" /\ valid[r]

\* Events are what commands raise, of the order they name.
LEMMA CommandsAreEvents ==
    ASSUME NEW c \in Commands
    PROVE  c \in Events /\ c.order \in Orders
BY DEF Commands, Events, UpdateEvents, StatusEvent, SlotEvent

\* What a request's step may do to the request and to the rest.
LEMMA StepShape ==
    ASSUME Types, NEW r \in Requests, RequestStep(r)
    PROVE  /\ UNCHANGED <<call, menu>>
           /\ \A q \in Requests \ {r} :
                 /\ stage'[q] = stage[q] /\ hand'[q] = hand[q]
                 /\ version'[q] = version[q] /\ valid'[q] = valid[q]
BY DEF RequestStep, Receive, Load, CallFails, CommonValidation, LookAtItem,
   LookAtProvider, LookAtFilling, SaveAccepted, AfterAvailability, Conclude, Answer,
   Proceed, GoTo, Hold, Types

\* A step keeps the types.
LEMMA TypesStep ==
    ASSUME Types, [Next]_vars
    PROVE  Types'
<1>1. CASE UNCHANGED vars
  BY <1>1 DEF vars, request, Types
<1>2. ASSUME NEW d \in Documents, NEW s, EditMenu(d, s) PROVE Types'
  BY <1>2 DEF EditMenu, request, Types
<1>3. ASSUME NEW r \in Requests, RequestStep(r) PROVE Types'
  <2>1. call' = call
    BY <1>3, StepShape
  <2>2. stage' \in [Requests -> Stages]
    BY <1>3 DEF RequestStep, Receive, Load, CallFails, CommonValidation, LookAtItem,
       LookAtProvider, LookAtFilling, SaveAccepted, AfterAvailability, Conclude, Answer,
       Proceed, GoTo, Types, Stages
  <2>3. hand' = [q \in Requests |-> hand'[q]]
    BY <1>3 DEF RequestStep, Receive, Load, CallFails, CommonValidation, LookAtItem,
       LookAtProvider, LookAtFilling, SaveAccepted, AfterAvailability, Conclude, Answer,
       Hold, Types
  <2>4. version' \in [Requests -> Int]
    <3>1. ASSUME NEW v \in Int, NEW a, Hold(r, a, v) PROVE version' \in [Requests -> Int]
      BY <3>1 DEF Hold, Types
    <3>2. version[r] + 1 \in Int /\ InitialVersion \in Int
      BY InitialVersionAssumption DEF Types
    <3>3. InitialVersion + Len(streams[Order(r)]) \in Int
      BY <3>2, CommandsAreEvents DEF Types, Order
    <3> QED
      BY <1>3, <3>1, <3>2, <3>3 DEF RequestStep, Receive, Load, CallFails, CommonValidation,
         LookAtItem, LookAtProvider, LookAtFilling, SaveAccepted, AfterAvailability,
         Conclude, Answer, Types
  <2>5. valid' \in [Requests -> BOOLEAN]
    BY <1>3 DEF RequestStep, Receive, Load, CallFails, CommonValidation, LookAtItem,
       LookAtProvider, LookAtFilling, SaveAccepted, AfterAvailability, Conclude, Answer,
       Proceed, Types, IsDateEmbargoed, ProviderIsAvailable, CalendarIsAvailable
  <2>6. streams' \in [Orders -> Seq(Events)] /\ \A o \in Orders : streams'[o] # <<>>
    <3>1. CASE SaveAccepted(r)
      <4>1. call[r] \in Events /\ Order(r) \in Orders
        BY CommandsAreEvents DEF Types, Order
      <4>2. /\ Append(streams[Order(r)], call[r]) \in Seq(Events)
            /\ Append(streams[Order(r)], call[r]) # <<>>
        <5>1. streams[Order(r)] \in Seq(Events)
          BY <4>1 DEF Types
        <5> QED
          BY <4>1, <5>1, AppendProperties
      <4> QED
        BY <3>1, <4>1, <4>2 DEF SaveAccepted, Types
    <3>2. CASE ~SaveAccepted(r)
      BY <1>3, <3>2 DEF RequestStep, Receive, Load, CallFails, CommonValidation,
         LookAtItem, LookAtProvider, LookAtFilling, Types
    <3> QED
      BY <3>1, <3>2
  <2> QED
    BY <2>1, <2>2, <2>3, <2>4, <2>5, <2>6 DEF Types
<1> QED
  BY <1>1, <1>2, <1>3 DEF Next

\* Types, from the start on.
THEOREM TypesHold == Spec => []Types
<1>1. Init => Types
  <2> SUFFICES ASSUME Init PROVE Types
    OBVIOUS
  <2>1. \A o \in Orders : <<OrderAdded(o)>> \in Seq(Events) /\ <<OrderAdded(o)>> # <<>>
    BY DEF Events
  <2> QED
    BY <2>1, InitialVersionAssumption DEF Init, Types, Stages
<1> QED
  BY <1>1, TypesStep, PTL DEF Spec

-----------------------------------------------------------------------------
(* What an accepted save appends *)

\* The one event that a step adds is the command of a request about to save.
LEMMA StreamsGrow ==
    ASSUME Types, [Next]_vars, NEW o \in Orders
    PROVE  \/ streams'[o] = streams[o]
           \/ \E r \in Requests :
                 /\ stage[r] = "save"
                 /\ StreamTakes(r)
                 /\ Order(r) = o
                 /\ streams'[o] = Append(streams[o], call[r])
<1>1. CASE UNCHANGED vars
  BY <1>1 DEF vars
<1>2. ASSUME NEW d \in Documents, NEW s, EditMenu(d, s) PROVE streams'[o] = streams[o]
  BY <1>2 DEF EditMenu
<1>3. ASSUME NEW r \in Requests, RequestStep(r), ~SaveAccepted(r) PROVE streams'[o] = streams[o]
  BY <1>3 DEF RequestStep, Receive, Load, CallFails, CommonValidation,
     LookAtItem, LookAtProvider, LookAtFilling
<1>4. ASSUME NEW r \in Requests, SaveAccepted(r)
      PROVE  \/ streams'[o] = streams[o]
             \/ /\ stage[r] = "save"
                /\ StreamTakes(r)
                /\ Order(r) = o
                /\ streams'[o] = Append(streams[o], call[r])
  BY <1>4 DEF SaveAccepted, Types
<1> QED
  BY <1>1, <1>2, <1>3, <1>4 DEF Next

\* What is appended is the last event, and the others stay where they are.
LEMMA Appended ==
    ASSUME NEW s \in Seq(Events), NEW e \in Events
    PROVE  /\ Len(Append(s, e)) = Len(s) + 1
           /\ Append(s, e)[Len(s) + 1] = e
           /\ \A n \in 1..Len(s) : Append(s, e)[n] = s[n]
           /\ DOMAIN s = 1..Len(s) /\ DOMAIN Append(s, e) = 1..(Len(s) + 1)
BY AppendProperties, LenProperties

-----------------------------------------------------------------------------
(* The filling that bread and menu options are put on *)

\* How many events the aggregate of r was loaded from.
ReadUpTo(r) == version[r] - InitialVersion - (IF stage[r] = "save" THEN 1 ELSE 0)

Loaded(r) == stage[r] \in {"common", "item", "provider", "pairing", "save"}

\* The command of r may follow the first k events of its order.
AllowedAfter(r, k) ==
    LET f == Rebuilt(streams[Order(r)], Order(r), k)["filling"]
    IN  Slot(r) \in {"bread", "option"} /\ call[r].value # Nothing /\ f # Nothing
        => Slot(r) \notin Bars[f]

\* A request holds what some beginning of its stream replays to, until its
\* command is applied, and that beginning allows the command from then on.
InHand ==
    \A r \in Requests : Loaded(r) =>
        /\ ReadUpTo(r) \in 1..Len(streams[Order(r)])
        /\ IF stage[r] = "save"
           THEN AllowedAfter(r, ReadUpTo(r))
           ELSE hand[r] = Rebuilt(streams[Order(r)], Order(r), ReadUpTo(r))

\* What beginnings of a stream replay to stays as it is when the stream grows.
LEMMA BeginningsStay ==
    ASSUME Types, [Next]_vars, NEW o \in Orders
    PROVE  /\ Len(streams[o]) <= Len(streams'[o])
           /\ \A k \in 0..Len(streams[o]) :
                 Rebuilt(streams'[o], o, k) = Rebuilt(streams[o], o, k)
<1>1. streams[o] \in Seq(Events)
  BY DEF Types
<1>2. Len(streams[o]) \in Nat
  BY <1>1
<1>3. CASE streams'[o] = streams[o]
  BY <1>2, <1>3
<1>4. ASSUME NEW e \in Events, streams'[o] = Append(streams[o], e)
      PROVE  /\ Len(streams[o]) <= Len(streams'[o])
             /\ \A k \in 0..Len(streams[o]) :
                   Rebuilt(streams'[o], o, k) = Rebuilt(streams[o], o, k)
  <2>1. Len(streams'[o]) = Len(streams[o]) + 1
    BY <1>1, <1>4, Appended
  <2>2. ASSUME NEW k \in 0..Len(streams[o])
        PROVE  SubSeq(streams'[o], 1, k) = SubSeq(streams[o], 1, k)
    <3>1. \A i \in 1..k : streams'[o][i] = streams[o][i] /\ streams[o][i] \in Events
      BY <1>1, <1>4, <2>2, Appended
    <3>2. /\ SubSeq(streams'[o], 1, k) \in Seq(Events)
          /\ Len(SubSeq(streams'[o], 1, k)) = k
          /\ \A i \in 1..k : SubSeq(streams'[o], 1, k)[i] = streams'[o][i]
      BY <3>1, SubSeqProperties
    <3>3. /\ SubSeq(streams[o], 1, k) \in Seq(Events)
          /\ Len(SubSeq(streams[o], 1, k)) = k
          /\ \A i \in 1..k : SubSeq(streams[o], 1, k)[i] = streams[o][i]
      BY <3>1, SubSeqProperties
    <3> QED
      BY <3>1, <3>2, <3>3, SeqEqual
  <2>3. \A k \in 0..Len(streams[o]) : Rebuilt(streams'[o], o, k) = Rebuilt(streams[o], o, k)
    BY <2>2 DEF Rebuilt
  <2>4. Len(streams[o]) <= Len(streams'[o])
    BY <1>2, <2>1
  <2> QED
    BY <2>3, <2>4
<1> QED
  BY <1>3, <1>4, StreamsGrow, CommandsAreEvents DEF Types

\* What a step of r leaves r with, when it is loaded after it.
LEMMA LoadedStep ==
    ASSUME Types, InHand, NEW r \in Requests, RequestStep(r), Loaded(r)'
    PROVE  /\ ReadUpTo(r)' \in 1..Len(streams[Order(r)])
           /\ streams' = streams
           /\ IF stage'[r] = "save"
              THEN AllowedAfter(r, ReadUpTo(r)')
              ELSE hand'[r] = Rebuilt(streams[Order(r)], Order(r), ReadUpTo(r)')
<1>1. Order(r) \in Orders /\ streams[Order(r)] \in Seq(Events) /\ streams[Order(r)] # <<>>
  BY CommandsAreEvents DEF Types, Order
<1>2. Len(streams[Order(r)]) \in Nat \ {0}
  BY <1>1
<1>3. InitialVersion \in Int /\ version[r] \in Int
  BY InitialVersionAssumption DEF Types
<1>4. CASE Load(r)
  <2>1. /\ stage'[r] = "common" /\ streams' = streams
        /\ version'[r] = InitialVersion + Len(streams[Order(r)])
        /\ hand'[r] = Rebuilt(streams[Order(r)], Order(r), Len(streams[Order(r)]))
    BY <1>4 DEF Load, Hold, Proceed, GoTo, Types
  <2>2. ReadUpTo(r)' = Len(streams[Order(r)])
    BY <1>2, <1>3, <2>1 DEF ReadUpTo
  <2> QED
    BY <1>2, <2>1, <2>2
<1>5. ~(Receive(r) \/ CallFails(r) \/ SaveAccepted(r))
  BY DEF Receive, CallFails, SaveAccepted, Answer, GoTo, Types, Loaded
<1>6. ASSUME Conclude(r, TRUE), stage[r] \in {"common", "item", "provider", "pairing"},
             streams' = streams,
             \/ Slot(r) \notin {"bread", "option"} \/ call[r].value = Nothing
             \/ hand[r]["filling"] = Nothing
             \/ Slot(r) \notin Bars[hand[r]["filling"]]
      PROVE  /\ ReadUpTo(r)' \in 1..Len(streams[Order(r)])
             /\ stage'[r] = "save" /\ AllowedAfter(r, ReadUpTo(r)')
  <2>1. stage'[r] = "save" /\ version'[r] = version[r] + 1
    BY <1>6 DEF Conclude, Hold, Proceed, GoTo, Types
  <2>2. ReadUpTo(r)' = ReadUpTo(r)
    BY <1>3, <1>6, <2>1 DEF ReadUpTo
  <2>3. /\ ReadUpTo(r) \in 1..Len(streams[Order(r)])
        /\ hand[r] = Rebuilt(streams[Order(r)], Order(r), ReadUpTo(r))
    BY <1>6 DEF InHand, Loaded
  <2> QED
    BY <1>6, <2>1, <2>2, <2>3 DEF AllowedAfter
<1>7. ASSUME stage[r] \in {"common", "item", "provider", "pairing"}, streams' = streams,
             version' = version, hand' = hand, stage'[r] # "save"
      PROVE  /\ ReadUpTo(r)' \in 1..Len(streams[Order(r)])
             /\ hand'[r] = Rebuilt(streams[Order(r)], Order(r), ReadUpTo(r)')
  <2>1. ReadUpTo(r)' = ReadUpTo(r)
    BY <1>7 DEF ReadUpTo
  <2> QED
    BY <1>7, <2>1 DEF InHand, Loaded
<1>8. ASSUME NEW ok \in BOOLEAN, Conclude(r, ok) PROVE ok
  BY <1>8 DEF Conclude, Answer, GoTo, Types, Loaded
<1>9. ASSUME NEW ok \in BOOLEAN, AfterAvailability(r, ok), streams' = streams,
             stage[r] \in {"item", "provider"}
      PROVE  \/ /\ version' = version /\ hand' = hand /\ stage'[r] = "pairing"
             \/ Conclude(r, TRUE) /\ (Slot(r) = "filling" \/ hand[r]["filling"] = Nothing)
  BY <1>8, <1>9 DEF AfterAvailability, AsksTheFilling, GoTo, Types
<1>10. CASE CommonValidation(r)
  <2>1. CASE AddsItem(r)
    BY <1>7, <1>10, <2>1 DEF CommonValidation, CalendarIsAvailable, Proceed, GoTo, Types
  <2>2. CASE ~AddsItem(r)
    <3>1. Conclude(r, TRUE) /\ streams' = streams /\ stage[r] = "common"
      BY <1>10, <2>2 DEF CommonValidation, CalendarIsAvailable
    <3>2. Slot(r) \notin {"bread", "option"} \/ call[r].value = Nothing
      BY <2>2 DEF AddsItem, Adds
    <3> QED
      BY <1>6, <3>1, <3>2
  <2> QED
    BY <2>1, <2>2
<1>11. CASE LookAtItem(r)
  <2>1. stage[r] = "item" /\ streams' = streams
    BY <1>11 DEF LookAtItem
  <2>2. CASE ItemIsOnOffer(Slot(r), call[r].value)
    BY <1>7, <1>11, <2>2 DEF LookAtItem, Proceed, GoTo, Types
  <2>3. CASE AfterAvailability(r, FALSE)
    BY <1>6, <1>7, <1>9, <2>1, <2>3
  <2> QED
    BY <1>11, <2>2, <2>3 DEF LookAtItem
<1>12. CASE LookAtProvider(r)
  <2>1. /\ stage[r] = "provider" /\ streams' = streams
        /\ AfterAvailability(r, IsDateEmbargoed) /\ IsDateEmbargoed \in BOOLEAN
    BY <1>12 DEF LookAtProvider, IsDateEmbargoed, CalendarIsAvailable, ProviderIsAvailable
  <2> QED
    BY <1>6, <1>7, <1>9, <2>1
<1>13. CASE LookAtFilling(r)
  <2>1. stage[r] = "pairing" /\ streams' = streams
    BY <1>13 DEF LookAtFilling
  <2>2. Conclude(r, valid[r] /\ Slot(r) \notin Bars[hand[r]["filling"]])
    BY <1>13 DEF LookAtFilling, Answer, GoTo, Types, Loaded
  <2>3. Conclude(r, TRUE) /\ Slot(r) \notin Bars[hand[r]["filling"]]
    <3>1. valid[r] /\ Slot(r) \notin Bars[hand[r]["filling"]]
      BY <2>2, <1>8 DEF Types
    <3> QED
      BY <2>2, <3>1 DEF Conclude
  <2> QED
    BY <1>6, <2>1, <2>3
<1> QED
  BY <1>4, <1>5, <1>10, <1>11, <1>12, <1>13 DEF RequestStep

\* A step keeps what requests hold in order.
LEMMA InHandStep ==
    ASSUME Types, InHand, [Next]_vars
    PROVE  InHand'
<1> SUFFICES ASSUME NEW q \in Requests, Loaded(q)'
             PROVE  /\ ReadUpTo(q)' \in 1..Len(streams'[Order(q)'])
                    /\ IF stage'[q] = "save"
                       THEN AllowedAfter(q, ReadUpTo(q))'
                       ELSE hand'[q] = Rebuilt(streams'[Order(q)'], Order(q)', ReadUpTo(q)')
  BY DEF InHand
<1>1. call' = call /\ Order(q)' = Order(q) /\ Slot(q)' = Slot(q)
  <2>1. ASSUME NEW r \in Requests, RequestStep(r) PROVE call' = call
    BY <2>1, StepShape
  <2>2. ASSUME NEW d \in Documents, NEW s, EditMenu(d, s) PROVE call' = call
    BY <2>2 DEF EditMenu, request
  <2> QED
    BY <2>1, <2>2 DEF Next, vars, request, Order, Slot
<1>2. Order(q) \in Orders /\ streams[Order(q)] \in Seq(Events)
  BY CommandsAreEvents DEF Types, Order
<1>3. Len(streams[Order(q)]) \in Nat
  BY <1>2
<1>4. /\ ReadUpTo(q)' \in 1..Len(streams[Order(q)])
      /\ IF stage'[q] = "save"
         THEN AllowedAfter(q, ReadUpTo(q)')
         ELSE hand'[q] = Rebuilt(streams[Order(q)], Order(q), ReadUpTo(q)')
  <2>1. ASSUME stage'[q] = stage[q], hand'[q] = hand[q], version'[q] = version[q]
        PROVE  /\ ReadUpTo(q)' \in 1..Len(streams[Order(q)])
               /\ IF stage'[q] = "save"
                  THEN AllowedAfter(q, ReadUpTo(q)')
                  ELSE hand'[q] = Rebuilt(streams[Order(q)], Order(q), ReadUpTo(q)')
    <3>1. ReadUpTo(q)' = ReadUpTo(q) /\ Loaded(q)
      BY <2>1 DEF ReadUpTo, Loaded
    <3> QED
      BY <2>1, <3>1 DEF InHand
  <2>2. CASE UNCHANGED vars
    BY <2>1, <2>2 DEF vars, request
  <2>3. ASSUME NEW d \in Documents, NEW s, EditMenu(d, s)
        PROVE  stage' = stage /\ hand' = hand /\ version' = version
    BY <2>3 DEF EditMenu, request
  <2>4. ASSUME NEW r \in Requests, RequestStep(r), q # r
        PROVE  stage'[q] = stage[q] /\ hand'[q] = hand[q] /\ version'[q] = version[q]
    BY <2>4, StepShape
  <2>5. CASE RequestStep(q)
    BY <2>5, LoadedStep
  <2> QED
    BY <2>1, <2>2, <2>3, <2>4, <2>5 DEF Next
<1>5. /\ Len(streams[Order(q)]) <= Len(streams'[Order(q)])
      /\ Len(streams'[Order(q)]) \in Nat
      /\ Rebuilt(streams'[Order(q)], Order(q), ReadUpTo(q)')
           = Rebuilt(streams[Order(q)], Order(q), ReadUpTo(q)')
  <2>1. streams'[Order(q)] \in Seq(Events)
    BY <1>2, TypesStep DEF Types
  <2>2. ReadUpTo(q)' \in 0..Len(streams[Order(q)])
    BY <1>3, <1>4
  <2> QED
    BY <1>2, <2>1, <2>2, BeginningsStay
<1>6. ReadUpTo(q)' \in 1..Len(streams'[Order(q)'])
  BY <1>1, <1>3, <1>4, <1>5
<1>7. CASE stage'[q] = "save"
  BY <1>1, <1>4, <1>5, <1>6, <1>7 DEF AllowedAfter
<1>8. CASE stage'[q] # "save"
  BY <1>1, <1>4, <1>5, <1>6, <1>8
<1> QED
  BY <1>6, <1>7, <1>8

\* The stream takes an event only from a request that has read all of it, when
\* aggregates start at no more than version 0.
LEMMA HasReadAll ==
    ASSUME Types, InHand, InitialVersion <= 0,
           NEW r \in Requests, stage[r] = "save", StreamTakes(r)
    PROVE  ReadUpTo(r) = Len(streams[Order(r)])
<1>1. streams[Order(r)] \in Seq(Events) /\ streams[Order(r)] # <<>>
  BY CommandsAreEvents DEF Types, Order
<1>2. Len(streams[Order(r)]) \in Nat \ {0}
  BY <1>1
<1>3. ReadUpTo(r) \in 1..Len(streams[Order(r)])
  BY DEF InHand, Loaded
<1>4. InitialVersion \in Int /\ version[r] \in Int
  BY InitialVersionAssumption DEF Types
<1>5. ReadUpTo(r) = version[r] - InitialVersion - 1
  BY DEF ReadUpTo
<1>6. Len(streams[Order(r)]) - 1 = version[r] - 1 - 1
  BY <1>2, <1>4 DEF StreamTakes, Accepts, ExpectedVersion, OriginalVersion, NoStream
<1> QED
  BY <1>2, <1>3, <1>4, <1>5, <1>6

\* What a filling bars does not get on top of it.
LEMMA BarredStep ==
    ASSUME Types, InHand, InitialVersion <= 0, BarredStayOut, [Next]_vars
    PROVE  BarredStayOut'
<1> SUFFICES ASSUME NEW o \in Orders, NEW n \in DOMAIN streams'[o],
                    streams'[o][n].field \in {"bread", "option"},
                    streams'[o][n].value # Nothing,
                    FillingBefore(o, n)' # Nothing
             PROVE  streams'[o][n].field \notin Bars[FillingBefore(o, n)']
  BY DEF BarredStayOut
<1>1. streams[o] \in Seq(Events)
  BY DEF Types
<1>2. Len(streams[o]) \in Nat /\ DOMAIN streams[o] = 1..Len(streams[o])
  BY <1>1
<1>3. ASSUME n \in DOMAIN streams[o], streams'[o][n] = streams[o][n]
      PROVE  streams'[o][n].field \notin Bars[FillingBefore(o, n)']
  <2>1. n - 1 \in 0..Len(streams[o])
    BY <1>2, <1>3
  <2>2. FillingBefore(o, n)' = FillingBefore(o, n)
    BY <2>1, BeginningsStay DEF FillingBefore
  <2> QED
    BY <1>3, <2>2 DEF BarredStayOut
<1>4. CASE streams'[o] = streams[o]
  BY <1>3, <1>4
<1>5. ASSUME NEW r \in Requests, stage[r] = "save", StreamTakes(r), Order(r) = o,
             streams'[o] = Append(streams[o], call[r])
      PROVE  streams'[o][n].field \notin Bars[FillingBefore(o, n)']
  <2>1. call[r] \in Events
    BY CommandsAreEvents DEF Types
  <2>2. DOMAIN streams'[o] = 1..(Len(streams[o]) + 1)
    <3>1. streams'[o] \in Seq(Events)
      BY <1>1, <1>5, <2>1
    <3> QED
      BY <1>1, <1>5, <2>1, <3>1, Appended
  <2>3. CASE n = Len(streams[o]) + 1
    <3>1. streams'[o][n] = call[r]
      BY <1>1, <1>5, <2>1, <2>3, Appended
    <3>2. n - 1 = Len(streams[o]) /\ n - 1 \in 0..Len(streams[o])
      BY <1>2, <2>3
    <3>3. FillingBefore(o, n)' = Rebuilt(streams[o], o, Len(streams[o]))["filling"]
      BY <3>2, BeginningsStay DEF FillingBefore
    <3>4. ReadUpTo(r) = Len(streams[o])
      BY <1>5, HasReadAll
    <3>5. AllowedAfter(r, Len(streams[o]))
      BY <1>5, <3>4 DEF InHand, Loaded
    <3> QED
      BY <1>5, <3>1, <3>3, <3>5 DEF AllowedAfter, Slot
  <2>4. CASE n # Len(streams[o]) + 1
    <3>1. n \in 1..Len(streams[o])
      BY <1>2, <2>2, <2>4
    <3> QED
      BY <1>1, <1>2, <1>3, <1>5, <2>1, <3>1, Appended
  <2> QED
    BY <2>3, <2>4
<1> QED
  BY <1>4, <1>5, StreamsGrow

\* Bread and menu options get only on top of fillings that allow them, unless
\* aggregates start at a version above 0 and the store takes what was raised on an
\* older stream.  (It holds below 0, the code's value included, because the store
\* takes nothing on a stream then; at 0 it is what HasReadAll says.)
THEOREM BarredKeptOut ==
    ASSUME InitialVersion <= 0
    PROVE  Spec => []BarredStayOut
<1>1. Init => InHand
  BY DEF Init, InHand, Loaded
<1>2. Init => BarredStayOut
  <2> SUFFICES ASSUME Init PROVE BarredStayOut
    OBVIOUS
  <2>1. \A o \in Orders : DOMAIN <<OrderAdded(o)>> = {1} /\ <<OrderAdded(o)>>[1] = OrderAdded(o)
    OBVIOUS
  <2> QED
    BY <2>1 DEF Init, BarredStayOut, OrderAdded
<1>3. Types /\ InHand /\ BarredStayOut /\ [Next]_vars => InHand' /\ BarredStayOut'
  BY InHandStep, BarredStep
<1> QED
  BY <1>1, <1>2, <1>3, TypesHold, PTL DEF Spec

-----------------------------------------------------------------------------
(* What requests hold and have seen *)

MenuStates == {"listed", "withdrawn", "gone"}

\* The rest of the type invariant: what is held is an order's contents, because
\* that is what events replay to.
Holdings ==
    /\ menu \in [Documents -> MenuStates]
    /\ hand \in [Requests -> Contents]
    /\ \A r \in Requests : stage[r] = "pairing" => hand[r]["filling"] \in Items
    /\ edits \in 0..MaxEdits
    /\ seen \in [Requests -> SUBSET (Documents \X MenuStates)]

LEMMA FillingOfContents ==
    ASSUME NEW k \in Contents, k["filling"] # Nothing
    PROVE  k["filling"] \in Items
BY ChangesAssumption DEF Contents, Fields, Adds

\* What a step leaves in the hand of the request that makes it.
LEMMA HandStep ==
    ASSUME Types, Holdings, NEW r \in Requests, RequestStep(r)
    PROVE  \E k \in Contents :
              /\ hand' = [hand EXCEPT ![r] = k]
              /\ stage'[r] = "pairing" => k["filling"] \in Items
<1>1. call[r] \in Events /\ Order(r) \in Orders /\ hand[r] \in Contents
  BY CommandsAreEvents DEF Types, Order, Holdings
<1>2. NewOrder \in Contents /\ Apply(hand[r], call[r]) \in Contents
  BY <1>1, NewOrderIsContents, ApplyIsContents
<1>3. hand = [hand EXCEPT ![r] = hand[r]]
  BY DEF Holdings
<1>4. ASSUME NEW ok, Conclude(r, ok)
      PROVE  stage'[r] # "pairing" /\ \E k \in Contents : hand' = [hand EXCEPT ![r] = k]
  BY <1>2, <1>4 DEF Conclude, Hold, Proceed, Answer, GoTo, Types
<1>5. ASSUME NEW a \in {"failed", "ok"}, Answer(r, a)
      PROVE  stage'[r] # "pairing" /\ \E k \in Contents : hand' = [hand EXCEPT ![r] = k]
  BY <1>2, <1>5 DEF Hold, Answer, GoTo, Types
<1>6. ASSUME NEW s \in {"load", "common", "item", "provider"}, GoTo(r, s), hand' = hand
      PROVE  stage'[r] # "pairing" /\ \E k \in Contents : hand' = [hand EXCEPT ![r] = k]
  BY <1>1, <1>3, <1>6 DEF GoTo, Types
<1>7. ASSUME NEW ok, AfterAvailability(r, ok)
      PROVE  \E k \in Contents :
                /\ hand' = [hand EXCEPT ![r] = k]
                /\ stage'[r] = "pairing" => k["filling"] \in Items
  BY <1>1, <1>3, <1>4, <1>7, FillingOfContents DEF AfterAvailability, AsksTheFilling
<1>8. CASE Receive(r)
  <2>1. CASE Answer(r, "failed")
    BY <1>5, <2>1
  <2>2. CASE GoTo(r, "load") /\ hand' = hand
    BY <1>6, <2>2
  <2> QED
    BY <1>8, <2>1, <2>2 DEF Receive
<1>9. CASE Load(r)
  <2> DEFINE k == Rebuilt(streams[Order(r)], Order(r), Len(streams[Order(r)]))
  <2>1. k \in Contents
    <3>1. streams[Order(r)] \in Seq(Events)
      BY <1>1 DEF Types
    <3>2. Len(streams[Order(r)]) \in 0..Len(streams[Order(r)])
      BY <3>1, LenProperties
    <3> QED
      BY <1>1, <3>1, <3>2, RebuiltIsContents
  <2>2. hand' = [hand EXCEPT ![r] = k] /\ stage'[r] = "common"
    BY <1>9 DEF Load, Hold, Proceed, GoTo, Types
  <2> HIDE DEF k
  <2> QED
    BY <2>1, <2>2
<1>10. CASE CallFails(r)
  BY <1>5, <1>10 DEF CallFails
<1>11. CASE CommonValidation(r)
  BY <1>4, <1>6, <1>11 DEF CommonValidation, Proceed
<1>12. CASE LookAtItem(r)
  BY <1>6, <1>7, <1>12 DEF LookAtItem, Proceed
<1>13. CASE LookAtProvider(r)
  BY <1>7, <1>13 DEF LookAtProvider
<1>14. CASE LookAtFilling(r)
  BY <1>4, <1>5, <1>14 DEF LookAtFilling
<1>15. CASE SaveAccepted(r)
  BY <1>5, <1>15 DEF SaveAccepted
<1> QED
  BY <1>8, <1>9, <1>10, <1>11, <1>12, <1>13, <1>14, <1>15 DEF RequestStep

\* Only the request that makes it changes what it has seen, to what there is or to
\* nothing.
LEMMA SeenStep ==
    ASSUME Types, Holdings, NEW r \in Requests, RequestStep(r)
    PROVE  /\ seen' \in [Requests -> SUBSET (Documents \X MenuStates)]
           /\ \A q \in Requests \ {r} : seen'[q] = seen[q]
           /\ edits' = edits
           /\ \/ seen'[r] = seen[r] /\ stage[r] # "none" /\ Running(r)'
              \/ Receive(r) /\ seen'[r] = {<<d, menu[d]>> : d \in Documents}
              \/ seen'[r] = {} /\ ~Running(r)'
<1>1. {<<d, menu[d]>> : d \in Documents} \in SUBSET (Documents \X MenuStates)
  BY DEF Holdings
<1>2. CASE Receive(r)
  BY <1>1, <1>2 DEF Receive, Holdings, Answer, GoTo, Types, Running
<1>3. CASE ~Receive(r)
  BY <1>3 DEF RequestStep, Load, CallFails, CommonValidation, LookAtItem,
     LookAtProvider, LookAtFilling, SaveAccepted, AfterAvailability, Conclude, Answer,
     Proceed, GoTo, Types, Holdings, Running
<1> QED
  BY <1>2, <1>3

LEMMA HoldingsStep ==
    ASSUME Types, Holdings, [Next]_vars
    PROVE  Holdings'
<1>1. CASE UNCHANGED vars
  BY <1>1 DEF vars, request, Holdings
<1>2. ASSUME NEW d \in Documents, NEW s \in MenuStates, EditMenu(d, s) PROVE Holdings'
  <2>1. edits' \in 0..MaxEdits
    BY <1>2, ChangesAssumption DEF EditMenu, Holdings
  <2>2. seen' \in [Requests -> SUBSET (Documents \X MenuStates)]
    BY <1>2 DEF EditMenu, Holdings
  <2> QED
    BY <1>2, <2>1, <2>2 DEF EditMenu, request, Holdings
<1>3. ASSUME NEW r \in Requests, RequestStep(r) PROVE Holdings'
  <2>1. PICK k \in Contents :
           /\ hand' = [hand EXCEPT ![r] = k]
           /\ stage'[r] = "pairing" => k["filling"] \in Items
    BY <1>3, HandStep
  <2>2. hand' \in [Requests -> Contents]
    BY <2>1 DEF Holdings
  <2>3. ASSUME NEW q \in Requests, stage'[q] = "pairing" PROVE hand'[q]["filling"] \in Items
    <3>1. q # r => stage'[q] = stage[q] /\ hand'[q] = hand[q]
      BY <1>3, StepShape
    <3> QED
      BY <2>1, <2>3, <3>1 DEF Holdings
  <2> QED
    BY <1>3, <2>2, <2>3, SeenStep, StepShape DEF Holdings
<1> QED
  BY <1>1, <1>2, <1>3 DEF Next, MenuStates

\* Whatever the requests, the menu and its changes, streams hold events and what is
\* held are an order's contents.
THEOREM TypeCorrect == Spec => []TypeOK
<1>1. Init => Holdings
  <2> SUFFICES ASSUME Init PROVE Holdings
    OBVIOUS
  <2>1. hand \in [Requests -> Contents]
    BY NewOrderIsContents DEF Init
  <2> QED
    BY <2>1, ChangesAssumption DEF Init, Holdings, MenuStates
<1>2. Types /\ Holdings => TypeOK
  BY DEF Types, Holdings, TypeOK, MenuStates
<1> QED
  BY <1>1, <1>2, HoldingsStep, TypesHold, PTL DEF Spec

\* What is on the menu is among what a running request has seen of it.
SeesMenu ==
    \A r \in Requests : Running(r) => \A d \in Documents : <<d, menu[d]>> \in seen[r]

\* How far a request has got says what it has seen on offer.
Saw(r) ==
    /\ stage[r] \in {"item", "provider", "pairing"} => AddsItem(r)
    /\ AddsItem(r) /\ (stage[r] = "provider" \/ Passed(r)) =>
          <<call[r].value, "listed">> \in seen[r]
    /\ AddsItem(r) /\ Passed(r) => <<Provider, "listed">> \in seen[r]
    /\ AddsItem(r) /\ stage[r] = "save" /\ hand[r]["filling"] # Nothing =>
          \E s \in {"listed", "withdrawn"} : <<hand[r]["filling"], s>> \in seen[r]

SawOffers == \A r \in Requests : Saw(r)

LEMMA SeesMenuStep ==
    ASSUME Types, Holdings, SeesMenu, [Next]_vars
    PROVE  SeesMenu'
<1>1. CASE UNCHANGED vars
  BY <1>1 DEF vars, request, SeesMenu, Running
<1>2. ASSUME NEW d \in Documents, NEW s \in MenuStates, EditMenu(d, s) PROVE SeesMenu'
  <2> SUFFICES ASSUME NEW r \in Requests, Running(r), NEW e \in Documents
               PROVE  <<e, menu'[e]>> \in seen'[r]
    BY <1>2 DEF SeesMenu, Running, EditMenu, request
  <2>1. seen'[r] = seen[r] \cup {<<d, s>>}
    BY <1>2 DEF EditMenu
  <2>2. menu'[e] = IF e = d THEN s ELSE menu[e]
    BY <1>2 DEF EditMenu, Holdings
  <2> QED
    BY <2>1, <2>2 DEF SeesMenu
<1>3. ASSUME NEW r \in Requests, RequestStep(r) PROVE SeesMenu'
  <2> SUFFICES ASSUME NEW q \in Requests, Running(q)', NEW e \in Documents
               PROVE  <<e, menu'[e]>> \in seen'[q]
    BY DEF SeesMenu
  <2>1. menu' = menu
    BY <1>3, StepShape
  <2>2. CASE q # r
    BY <1>3, <2>1, <2>2, StepShape, SeenStep DEF SeesMenu, Running
  <2>3. CASE q = r
    <3>1. Running(r) \/ stage[r] = "none"
      BY <1>3 DEF RequestStep, Receive, Load, CallFails, CommonValidation, LookAtItem,
         LookAtProvider, LookAtFilling, SaveAccepted, Running
    <3> QED
      BY <1>3, <2>1, <2>3, <3>1, SeenStep DEF SeesMenu
  <2> QED
    BY <2>2, <2>3
<1> QED
  BY <1>1, <1>2, <1>3 DEF Next, MenuStates

\* The step of a request keeps what it has seen in line with where it is.
LEMMA OfferSeen ==
    ASSUME Types, Holdings, SeesMenu, SawOffers, NEW r \in Requests, RequestStep(r)
    PROVE  Saw(r)'
<1>0. call' = call /\ AddsItem(r)' = AddsItem(r) /\ Saw(r)
  BY StepShape DEF AddsItem, Slot, SawOffers
<1>1. call[r] \in Events /\ hand[r] \in Contents
  BY CommandsAreEvents DEF Types, Holdings
<1>2. AddsItem(r) => /\ call[r].value \in Items
                     /\ Apply(hand[r], call[r])["filling"] =
                           IF Slot(r) = "filling" THEN call[r].value ELSE hand[r]["filling"]
  <2>1. AddsItem(r) => call[r].field \in Slots /\ call[r].value \in Items
    BY <1>1, EventShape, ChangesAssumption, OrderAssumption DEF AddsItem, Slot, OrderAdded
  <2>2. hand[r] \in [Fields -> Items \cup {Nothing} \cup Statuses]
    BY <1>1 DEF Contents
  <2> QED
    BY <2>1, <2>2, ChangesAssumption DEF Apply, Slot, Fields, AddsItem, Adds
<1>3. Items \subseteq Documents /\ Provider \in Documents
  BY DEF Documents
<1>4. ASSUME stage'[r] \notin {"item", "provider", "pairing", "save"} PROVE Saw(r)'
  BY <1>0, <1>4 DEF Passed, Saw
<1>5. CASE Receive(r) \/ Load(r) \/ CallFails(r) \/ SaveAccepted(r)
  <2>1. stage'[r] \notin {"item", "provider", "pairing", "save"}
    BY <1>5 DEF Receive, Load, CallFails, SaveAccepted, Answer, Proceed, GoTo, Types
  <2> QED
    BY <1>4, <2>1
<1>6. ASSUME NEW ok \in BOOLEAN, Conclude(r, ok),
             AddsItem(r) /\ ok => /\ <<call[r].value, "listed">> \in seen[r]
                                  /\ <<Provider, "listed">> \in seen[r]
                                  /\ Slot(r) # "filling" /\ hand[r]["filling"] # Nothing =>
                                        \E s \in {"listed", "withdrawn"} :
                                           <<hand[r]["filling"], s>> \in seen[r]
      PROVE  Saw(r)'
  <2>1. CASE ok
    <3>1. /\ stage'[r] = "save" /\ seen' = seen
          /\ hand'[r] = Apply(hand[r], call[r])
      BY <1>6, <2>1 DEF Conclude, Hold, Proceed, GoTo, Types
    <3>2. AddsItem(r) /\ hand'[r]["filling"] # Nothing =>
             \E s \in {"listed", "withdrawn"} : <<hand'[r]["filling"], s>> \in seen'[r]
      BY <1>2, <1>6, <2>1, <3>1
    <3> QED
      BY <1>0, <1>6, <2>1, <3>1, <3>2 DEF Saw
  <2>2. CASE ~ok
    <3>1. stage'[r] = "refused"
      BY <1>6, <2>2 DEF Conclude, Answer, GoTo, Types
    <3> QED
      BY <1>4, <3>1
  <2> QED
    BY <2>1, <2>2
<1>7. ASSUME NEW ok \in BOOLEAN, AfterAvailability(r, ok), stage[r] \in {"item", "provider"},
             ok => /\ <<call[r].value, "listed">> \in seen[r]
                   /\ <<Provider, "listed">> \in seen[r]
      PROVE  Saw(r)'
  <2>1. AddsItem(r)
    BY <1>0, <1>7 DEF Saw
  <2>2. CASE AsksTheFilling(r)
    <3>1. stage'[r] = "pairing" /\ valid'[r] = ok /\ seen' = seen
      BY <1>7, <2>2 DEF AfterAvailability, GoTo, Types
    <3> QED
      BY <1>0, <1>7, <2>1, <3>1 DEF Passed, Saw
  <2>3. CASE ~AsksTheFilling(r)
    <3>1. Conclude(r, ok) /\ (Slot(r) = "filling" \/ hand[r]["filling"] = Nothing)
      BY <1>7, <2>3 DEF AfterAvailability, AsksTheFilling
    <3> QED
      BY <1>6, <1>7, <3>1
  <2> QED
    BY <2>2, <2>3
<1>8. CASE CommonValidation(r)
  <2>1. CASE AddsItem(r)
    <3>1. stage'[r] = "item" /\ ~Passed(r)'
      BY <1>8, <2>1 DEF CommonValidation, CalendarIsAvailable, Proceed, GoTo, Types, Passed
    <3> QED
      BY <1>0, <2>1, <3>1 DEF Saw
  <2>2. CASE ~AddsItem(r)
    <3>1. Conclude(r, TRUE)
      BY <1>8, <2>2 DEF CommonValidation, CalendarIsAvailable
    <3> QED
      BY <1>6, <2>2, <3>1
  <2> QED
    BY <2>1, <2>2
<1>9. CASE LookAtItem(r)
  <2>1. stage[r] = "item" /\ AddsItem(r)
    BY <1>0, <1>9 DEF LookAtItem, Saw
  <2>2. CASE ItemIsOnOffer(Slot(r), call[r].value)
    <3>1. <<call[r].value, "listed">> \in seen[r]
      BY <1>2, <1>3, <2>1, <2>2 DEF ItemIsOnOffer, SeesMenu, Running
    <3>2. stage'[r] = "provider" /\ seen' = seen
      BY <1>9, <2>2 DEF LookAtItem, Proceed, GoTo, Types
    <3> QED
      BY <1>0, <2>1, <3>1, <3>2 DEF Passed, Saw
  <2>3. CASE ~ItemIsOnOffer(Slot(r), call[r].value)
    <3>1. AfterAvailability(r, FALSE)
      BY <1>9, <2>3 DEF LookAtItem
    <3> QED
      BY <1>7, <2>1, <3>1
  <2> QED
    BY <2>2, <2>3
<1>10. CASE LookAtProvider(r)
  <2>1. stage[r] = "provider" /\ AddsItem(r) /\ <<call[r].value, "listed">> \in seen[r]
    BY <1>0, <1>10 DEF LookAtProvider, Saw
  <2>2. IsDateEmbargoed \in BOOLEAN /\ (IsDateEmbargoed => <<Provider, "listed">> \in seen[r])
    BY <1>3, <2>1 DEF IsDateEmbargoed, CalendarIsAvailable, ProviderIsAvailable, SeesMenu, Running
  <2>3. AfterAvailability(r, IsDateEmbargoed)
    BY <1>10 DEF LookAtProvider
  <2> QED
    BY <1>7, <2>1, <2>2, <2>3
<1>11. CASE LookAtFilling(r)
  <2> DEFINE f == hand[r]["filling"]
  <2>1. stage[r] = "pairing" /\ AddsItem(r) /\ f \in Items
    BY <1>0, <1>11 DEF LookAtFilling, Saw, Holdings
  <2>2. CASE menu[f] = "gone"
    <3>1. stage'[r] = "failed"
      BY <1>11, <2>2 DEF LookAtFilling, Answer, GoTo, Types
    <3> QED
      BY <1>4, <3>1
  <2>3. CASE menu[f] # "gone"
    <3> DEFINE ok == valid[r] /\ Slot(r) \notin Bars[f]
    <3>1. Conclude(r, ok) /\ ok \in BOOLEAN
      BY <1>11, <2>3 DEF LookAtFilling
    <3>2. <<f, menu[f]>> \in seen[r] /\ menu[f] \in {"listed", "withdrawn"}
      BY <1>3, <2>1, <2>3 DEF SeesMenu, Running, Holdings, MenuStates
    <3>3. ok => /\ <<call[r].value, "listed">> \in seen[r]
                /\ <<Provider, "listed">> \in seen[r]
      BY <1>0, <2>1 DEF Saw, Passed
    <3> HIDE DEF ok
    <3> QED
      BY <1>6, <3>1, <3>2, <3>3
  <2> QED
    BY <2>2, <2>3
<1> QED
  BY <1>5, <1>8, <1>9, <1>10, <1>11 DEF RequestStep

LEMMA SawOffersStep ==
    ASSUME Types, Holdings, SeesMenu, SawOffers, [Next]_vars
    PROVE  SawOffers'
<1>1. CASE UNCHANGED vars
  BY <1>1 DEF vars, request, SawOffers, Saw, AddsItem, Slot, Passed
<1>2. ASSUME NEW d \in Documents, NEW s \in MenuStates, EditMenu(d, s) PROVE SawOffers'
  <2>1. \A r \in Requests : Running(r) => seen[r] \subseteq seen'[r]
    BY <1>2 DEF EditMenu
  <2>2. UNCHANGED <<call, stage, hand, valid>>
    BY <1>2 DEF EditMenu, request
  <2>3. ASSUME NEW r \in Requests, Running(r)
        PROVE  Saw(r)'
    BY <2>1, <2>2, <2>3 DEF SawOffers, Saw, AddsItem, Slot, Passed
  <2>4. \A r \in Requests : stage'[r] \in {"item", "provider", "pairing", "save"} => Running(r)
    BY <2>2 DEF Running
  <2> QED
    BY <2>3, <2>4 DEF SawOffers, Saw, Passed
<1>3. ASSUME NEW r \in Requests, RequestStep(r) PROVE SawOffers'
  <2>1. call' = call /\ \A q \in Requests : AddsItem(q)' = AddsItem(q)
    BY <1>3, StepShape DEF AddsItem, Slot
  <2>2. \A q \in Requests \ {r} : /\ stage'[q] = stage[q] /\ hand'[q] = hand[q]
                                  /\ seen'[q] = seen[q] /\ Passed(q)' = Passed(q)
    BY <1>3, StepShape, SeenStep DEF Passed
  <2> QED
    BY <1>3, <2>1, <2>2, OfferSeen DEF SawOffers, Saw
<1> QED
  BY <1>1, <1>2, <1>3 DEF Next, MenuStates

\* However the menu changes meanwhile, what goes to the event store was on offer at
\* some time since its request came in, and so was the filling it goes with, if
\* withdrawn.
THEOREM OnlyOffersAreAdded == Spec => []AddedWasOnOffer
<1>1. Init => Holdings /\ SeesMenu /\ SawOffers
  <2> SUFFICES ASSUME Init PROVE Holdings /\ SeesMenu /\ SawOffers
    OBVIOUS
  <2>1. hand \in [Requests -> Contents]
    BY NewOrderIsContents DEF Init
  <2> QED
    BY <2>1, ChangesAssumption DEF Init, Holdings, MenuStates, SeesMenu, SawOffers, Saw, Running, Passed
<1>2. SawOffers => AddedWasOnOffer
  BY DEF SawOffers, Saw, AddedWasOnOffer, Passed
<1> QED
  BY <1>1, <1>2, HoldingsStep, SeesMenuStep, SawOffersStep, TypesHold, PTL DEF Spec

-----------------------------------------------------------------------------
(* Why requests are refused *)

\* The request asks for what the validator finds no offer of, or has seen it or
\* the provider off the menu.
NotOffered(r) ==
    \/ ClassOf[call[r].value] # LookedForAmong(Slot(r))
    \/ \E d \in {call[r].value, Provider}, s \in {"withdrawn", "gone"} :
          <<d, s>> \in seen[r]

\* A request that asks about its filling although it is not valid has a cause.
InvalidForCause ==
    \A r \in Requests : stage[r] = "pairing" /\ ~valid[r] => NotOffered(r)

\* A request that goes on to the filling, or is refused, has a cause if its item
\* is not available.
LEMMA RefusalHasCause ==
    ASSUME Types, Holdings, SeesMenu, SawOffers, InvalidForCause,
           NEW r \in Requests, RequestStep(r)
    PROVE  /\ stage'[r] = "pairing" /\ ~valid'[r] => NotOffered(r)'
           /\ stage'[r] = "refused" =>
                 \/ NotOffered(r)
                 \/ stage[r] = "pairing" /\ Slot(r) \in Bars[hand[r]["filling"]]
<1>0. call' = call /\ Slot(r)' = Slot(r)
  BY StepShape DEF Slot
<1>1. call[r] \in Events /\ Saw(r)
  BY CommandsAreEvents DEF Types, SawOffers
<1>2. AddsItem(r) => call[r].value \in Items
  BY <1>1, EventShape, ChangesAssumption, OrderAssumption DEF AddsItem, Slot, OrderAdded
<1>3. ASSUME NEW d \in {call[r].value, Provider}, AddsItem(r), Running(r), menu[d] # "listed"
      PROVE  NotOffered(r)
  <2>1. d \in Documents /\ menu[d] \in {"withdrawn", "gone"}
    BY <1>2, <1>3 DEF Documents, Holdings, MenuStates
  <2>2. <<d, menu[d]>> \in seen[r]
    BY <1>3, <2>1 DEF SeesMenu
  <2> QED
    BY <1>3, <2>1, <2>2 DEF NotOffered
<1>4. ASSUME NEW ok \in BOOLEAN, Conclude(r, ok)
      PROVE  stage'[r] # "pairing" /\ (stage'[r] = "refused" => ~ok)
  BY <1>4 DEF Conclude, Hold, Proceed, Answer, GoTo, Types
<1>5. ASSUME NEW ok \in BOOLEAN, AfterAvailability(r, ok), ~ok => NotOffered(r)
      PROVE  /\ stage'[r] = "pairing" /\ ~valid'[r] => NotOffered(r)'
             /\ stage'[r] = "refused" => NotOffered(r)
  <2>1. CASE AsksTheFilling(r)
    <3>1. stage'[r] = "pairing" /\ valid'[r] = ok /\ seen' = seen
      BY <1>5, <2>1 DEF AfterAvailability, GoTo, Types
    <3> QED
      BY <1>0, <1>5, <3>1 DEF NotOffered
  <2>2. CASE ~AsksTheFilling(r)
    BY <1>4, <1>5, <2>2 DEF AfterAvailability
  <2> QED
    BY <2>1, <2>2
<1>6. CASE Receive(r) \/ Load(r) \/ CallFails(r) \/ SaveAccepted(r)
  BY <1>6 DEF Receive, Load, CallFails, SaveAccepted, Answer, Proceed, GoTo, Types
<1>7. CASE CommonValidation(r)
  <2>1. CASE AddsItem(r)
    BY <1>7, <2>1 DEF CommonValidation, CalendarIsAvailable, Proceed, GoTo, Types
  <2>2. CASE ~AddsItem(r)
    BY <1>4, <1>7, <2>2 DEF CommonValidation, CalendarIsAvailable
  <2> QED
    BY <2>1, <2>2
<1>8. CASE LookAtItem(r)
  <2>1. stage[r] = "item" /\ AddsItem(r) /\ Running(r)
    BY <1>1, <1>8 DEF LookAtItem, Saw, Running
  <2>2. CASE ItemIsOnOffer(Slot(r), call[r].value)
    BY <1>8, <2>2 DEF LookAtItem, Proceed, GoTo, Types
  <2>3. CASE ~ItemIsOnOffer(Slot(r), call[r].value)
    <3>1. NotOffered(r)
      BY <1>3, <2>1, <2>3 DEF ItemIsOnOffer, NotOffered
    <3> QED
      BY <1>5, <1>8, <2>3, <3>1 DEF LookAtItem
  <2> QED
    BY <2>2, <2>3
<1>9. CASE LookAtProvider(r)
  <2>1. /\ stage[r] = "provider" /\ AddsItem(r) /\ Running(r)
        /\ AfterAvailability(r, IsDateEmbargoed) /\ IsDateEmbargoed \in BOOLEAN
    BY <1>1, <1>9 DEF LookAtProvider, Saw, Running, IsDateEmbargoed, CalendarIsAvailable,
       ProviderIsAvailable
  <2>2. ~IsDateEmbargoed => NotOffered(r)
    BY <1>3, <2>1 DEF IsDateEmbargoed, CalendarIsAvailable, ProviderIsAvailable
  <2> QED
    BY <1>5, <2>1, <2>2
<1>10. CASE LookAtFilling(r)
  <2> DEFINE f == hand[r]["filling"]
  <2>1. CASE menu[f] = "gone"
    BY <1>10, <2>1 DEF LookAtFilling, Answer, GoTo, Types
  <2>2. CASE menu[f] # "gone"
    <3>1. stage[r] = "pairing" /\ Conclude(r, valid[r] /\ Slot(r) \notin Bars[f])
      BY <1>10, <2>2 DEF LookAtFilling
    <3>2. stage'[r] # "pairing" /\ (stage'[r] = "refused" => ~(valid[r] /\ Slot(r) \notin Bars[f]))
      BY <1>4, <3>1
    <3> QED
      BY <3>1, <3>2 DEF InvalidForCause
  <2> QED
    BY <2>1, <2>2
<1> QED
  BY <1>6, <1>7, <1>8, <1>9, <1>10 DEF RequestStep

LEMMA InvalidForCauseStep ==
    ASSUME Types, Holdings, SeesMenu, SawOffers, InvalidForCause, [Next]_vars
    PROVE  InvalidForCause'
<1>1. CASE UNCHANGED vars
  BY <1>1 DEF vars, request, InvalidForCause, NotOffered, Slot
<1>2. ASSUME NEW d \in Documents, NEW s \in MenuStates, EditMenu(d, s)
      PROVE  InvalidForCause'
  <2> SUFFICES ASSUME NEW r \in Requests, stage'[r] = "pairing", ~valid'[r]
               PROVE  NotOffered(r)'
    BY DEF InvalidForCause
  <2>1. UNCHANGED <<call, stage, valid>> /\ Slot(r)' = Slot(r)
    BY <1>2 DEF EditMenu, request, Slot
  <2>2. seen[r] \subseteq seen'[r]
    BY <1>2, <2>1 DEF EditMenu, Running
  <2>3. NotOffered(r)
    BY <2>1 DEF InvalidForCause
  <2> QED
    BY <2>1, <2>2, <2>3 DEF NotOffered
<1>3. ASSUME NEW r \in Requests, RequestStep(r) PROVE InvalidForCause'
  <2>1. call' = call /\ \A q \in Requests : Slot(q)' = Slot(q)
    BY <1>3, StepShape DEF Slot
  <2>2. \A q \in Requests \ {r} : /\ stage'[q] = stage[q] /\ valid'[q] = valid[q]
                                  /\ seen'[q] = seen[q]
    BY <1>3, StepShape, SeenStep
  <2>3. \A q \in Requests \ {r} : NotOffered(q)' <=> NotOffered(q)
    BY <2>1, <2>2 DEF NotOffered
  <2> QED
    BY <1>3, <2>2, <2>3, RefusalHasCause DEF InvalidForCause
<1> QED
  BY <1>1, <1>2, <1>3 DEF Next, MenuStates

\* However the menu changes meanwhile, no bread and no filling is refused that
\* was on offer all the time and that the order's filling allows.
THEOREM RefusalsHaveCause == Spec => RefusedForCause
<1>1. Init => Holdings /\ SeesMenu /\ SawOffers /\ InvalidForCause
  <2> SUFFICES ASSUME Init PROVE Holdings /\ SeesMenu /\ SawOffers /\ InvalidForCause
    OBVIOUS
  <2>1. hand \in [Requests -> Contents]
    BY NewOrderIsContents DEF Init
  <2> QED
    BY <2>1, ChangesAssumption DEF Init, Holdings, MenuStates, SeesMenu, SawOffers, Saw,
       Running, Passed, InvalidForCause
<1>2. /\ Types /\ Holdings /\ SeesMenu /\ SawOffers /\ InvalidForCause /\ [Next]_vars
      => \A r \in Requests :
            /\ stage[r] # "refused" /\ stage'[r] = "refused"
            /\ Slot(r) \in {"bread", "filling"}
            => \/ ClassOf[call[r].value] # Slot(r)
               \/ \E d \in {call[r].value, Provider}, s \in {"withdrawn", "gone"} :
                     <<d, s>> \in seen[r]
               \/ stage[r] = "pairing" /\ Slot(r) \in Bars[hand[r]["filling"]]
  <2> SUFFICES ASSUME Types, Holdings, SeesMenu, SawOffers, InvalidForCause, [Next]_vars,
                      NEW r \in Requests, stage[r] # "refused", stage'[r] = "refused",
                      Slot(r) \in {"bread", "filling"}
               PROVE  \/ NotOffered(r)
                      \/ stage[r] = "pairing" /\ Slot(r) \in Bars[hand[r]["filling"]]
    BY DEF NotOffered, LookedForAmong
  <2>1. RequestStep(r)
    <3>1. stage' # stage
      OBVIOUS
    <3>2. ASSUME NEW d, NEW s, EditMenu(d, s) PROVE stage' = stage
      BY <3>2 DEF EditMenu, request
    <3>3. ASSUME NEW q \in Requests, RequestStep(q), q # r PROVE FALSE
      BY <3>3, StepShape
    <3> QED
      BY <3>1, <3>2, <3>3 DEF Next, vars, request
  <2> QED
    BY <2>1, RefusalHasCause
<1> QED
  BY <1>1, <1>2, HoldingsStep, SeesMenuStep, SawOffersStep, InvalidForCauseStep, TypesHold,
     PTL DEF Spec, RefusedForCause
=============================================================================
