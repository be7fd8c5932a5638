---------------------------- MODULE OrderRequests ----------------------------
(***************************************************************************)
(* The requests of UsersController, from the authorization policies and    *)
(* the lookup of the recipient's order on the read side, through           *)
(* LocalOrderService and the command validator, to the save on the event   *)
(* store.  The read side lags behind the streams: a request decides on     *)
(* documents that are out of date, and other requests move at each of its  *)
(* awaits.                                                                 *)
(*                                                                         *)
(* A request to add an order makes up a new identity for it; the order is  *)
(* named after the request.  A request to change an order stands for any   *)
(* of the nine other commands, which share one sequence of steps; whether  *)
(* the menu has what the command adds is left open.  A service request is  *)
(* such a command given to IOrderService.HandleForUserAsync directly, with *)
(* the Id of any order.  Saves and versions are those of                   *)
(* AggregateVersioning; OrderDenormalizer is the detail of Project.  A     *)
(* caller that sees a failure may repeat the request: that is another      *)
(* request.  A document that can not be read is a request that goes no     *)
(* further.                                                                *)
(***************************************************************************)
EXTENDS AggregateVersioning, FiniteSets

CONSTANTS
    Requests,    \* requests to the API
    Recipients,  \* users who get lunch
    Dates,       \* delivery dates, as day numbers
    NoOrder      \* a null Order

ASSUME RequestsAssumption == Dates \subseteq Nat /\ NoOrder \notin Requests

VARIABLES
    call,     \* what each request asks for
    stage,    \* the next thing its thread does
    target,   \* the order it has found
    version,  \* Version of the aggregate it holds
    answer,   \* the response
    events,   \* length of each order's stream
    shown,    \* events of each order in its document, 0 when there is none
    seen      \* for the properties: the orders shown when the request came in

request == <<call, stage, target, version, answer, seen>>
vars == <<request, events, shown>>

\* Whose email claim the request carries: the recipient's or a housekeeper's,
\* another user's, or none.
Call == [kind : {"add", "update", "service"},
         who : {"recipient", "other", "nobody"},
         user : Recipients, date : Dates]

Stages == {"none", "may add", "lookup", "build", "may change", "load", "validate",
           "recheck", "save", "answered"}

Answers == {"none", "created", "existing", "amended", "not found", "challenged",
            "refused", "failed"}

Init ==
    /\ call \in [Requests -> Call]
    /\ stage = [r \in Requests |-> "none"]
    /\ target = [r \in Requests |-> NoOrder]
    /\ version = [r \in Requests |-> InitialVersion]
    /\ answer = [r \in Requests |-> "none"]
    /\ events = [r \in Requests |-> 0]
    /\ shown = [r \in Requests |-> 0]
    /\ seen = [r \in Requests |-> {}]

GoTo(r, s) == stage' = [stage EXCEPT ![r] = s] /\ UNCHANGED answer

Answer(r, a) ==
    /\ stage' = [stage EXCEPT ![r] = "answered"]
    /\ answer' = [answer EXCEPT ![r] = a]

-----------------------------------------------------------------------------
(* The read side *)

\* Mutant: the delivery date compared with > instead of >=.
OrdersForRecipientAfter(u, d) ==
    {o \in Requests : /\ shown[o] > 0
                      /\ call[o].user = u
                      /\ call[o].date > d /\ call[o].date < d + 1}

\* GetOrderForRecipientAsync returns one of these, or null.
OrdersForRecipient(u, d) ==
    {o \in Requests : /\ shown[o] > 0
                      /\ call[o].user = u
                      /\ call[o].date >= d /\ call[o].date < d + 1}

\* The denormalizer brings a document one event forward.
Project(o) ==
    /\ shown[o] < events[o]
    /\ shown' = [shown EXCEPT ![o] = @ + 1]
    /\ UNCHANGED <<request, events>>

\* CalendarService.IsAvailableAsync returns before it looks at the calendar.
IsAvailable(d) == TRUE

-----------------------------------------------------------------------------
(* UsersController and its authorization policies *)

\* A request comes in; a service request names an order.
Receive(r) ==
    /\ stage[r] = "none"
    /\ \/ call[r].kind = "add" /\ GoTo(r, "may add") /\ UNCHANGED target
       \/ call[r].kind = "update" /\ GoTo(r, "lookup") /\ UNCHANGED target
       \/ /\ call[r].kind = "service"
          /\ \E o \in Requests : target' = [target EXCEPT ![r] = o]
          /\ IF call[r].who = "nobody" THEN Answer(r, "failed") ELSE GoTo(r, "load")
    /\ seen' = [seen EXCEPT ![r] = {o \in Requests : shown[o] > 0}]
    /\ UNCHANGED <<call, version, events, shown>>

\* CanAddOrder: AddOrderCommandHandler compares the claim with the command.
AuthorizeAdd(r) ==
    /\ stage[r] = "may add"
    /\ IF call[r].who = "recipient" THEN GoTo(r, "lookup") ELSE Answer(r, "challenged")
    /\ UNCHANGED <<call, target, version, events, shown, seen>>

\* Mutant: no test for null before the order is used.
LookupUnchecked(r) ==
    LET found == OrdersForRecipient(call[r].user, call[r].date)
        adds == call[r].kind = "add"
    IN  /\ stage[r] = "lookup"
        /\ \/ /\ found = {}
              /\ GoTo(r, IF adds THEN "build" ELSE "may change")
              /\ UNCHANGED target
           \/ \E o \in found :
              /\ IF adds THEN Answer(r, "existing") ELSE GoTo(r, "may change")
              /\ target' = [target EXCEPT ![r] = o]
        /\ UNCHANGED <<call, version, events, shown, seen>>

\* The controller looks for the recipient's order on that date: a request to
\* add answers with it, a request to change goes on with it.
Lookup(r) ==
    LET found == OrdersForRecipient(call[r].user, call[r].date)
        adds == call[r].kind = "add"
    IN  /\ stage[r] = "lookup"
        /\ \/ /\ found = {}
              /\ IF adds THEN GoTo(r, "build") ELSE Answer(r, "not found")
              /\ UNCHANGED target
           \/ \E o \in found :
              /\ IF adds THEN Answer(r, "existing") ELSE GoTo(r, "may change")
              /\ target' = [target EXCEPT ![r] = o]
        /\ UNCHANGED <<call, version, events, shown, seen>>

\* Order of an OrderCommandAuthorizationResource: the constructor leaves it
\* null, whatever order it is given.
ResourceOrder(o) == NoOrder

\* WillAcceptOrderCommand: OrderCommandHandler compares the claim with the
\* recipient of the resource's order, and throws when there is none.
AuthorizeUpdate(r) ==
    /\ stage[r] = "may change"
    /\ IF call[r].who = "nobody" THEN Answer(r, "challenged")
       ELSE IF ResourceOrder(target[r]) = NoOrder THEN Answer(r, "failed")
       ELSE IF call[r].who = "other" THEN Answer(r, "challenged")
       ELSE GoTo(r, "load")
    /\ UNCHANGED <<call, target, version, events, shown, seen>>

-----------------------------------------------------------------------------
(* LocalOrderService and OrderCommandValidator *)

\* HandleCommandAsync(AddOrder): new OrderAggregate(command).
Build(r) ==
    /\ stage[r] = "build"
    /\ version' = [version EXCEPT ![r] = InitialVersion + 1]
    /\ target' = [target EXCEPT ![r] = r]
    /\ GoTo(r, "validate")
    /\ UNCHANGED <<call, events, shown, seen>>

\* The other commands: GetByIdAsync rebuilds the aggregate from its stream.
Load(r) ==
    /\ stage[r] = "load"
    /\ events[target[r]] > 0
    /\ version' = [version EXCEPT ![r] = InitialVersion + events[target[r]]]
    /\ GoTo(r, "validate")
    /\ UNCHANGED <<call, target, events, shown, seen>>

\* AggregateNotFoundException, or the event store is not reached.
LoadFails(r) ==
    /\ stage[r] = "load"
    /\ Answer(r, "failed")
    /\ UNCHANGED <<call, target, version, events, shown, seen>>

\* IsValidAsync of AddOrder: the aggregate must look new, the date available and
\* its Id without a document.  A document with the new Id makes the controller
\* use an order it has not found.
ValidateAdd(r) ==
    /\ stage[r] = "validate"
    /\ call[r].kind = "add"
    /\ IF ~LooksNew(version[r]) \/ ~IsAvailable(call[r].date) THEN Answer(r, "refused")
       ELSE IF shown[r] > 0 THEN Answer(r, "failed")
       ELSE GoTo(r, "recheck")
    /\ UNCHANGED <<call, target, version, events, shown, seen>>

\* Then, an await later, no document may be there for the recipient and the date.
ValidateRecipient(r) ==
    /\ stage[r] = "recheck"
    /\ IF OrdersForRecipient(call[r].user, call[r].date) # {} THEN Answer(r, "refused")
       ELSE GoTo(r, "save")
    /\ UNCHANGED <<call, target, version, events, shown, seen>>

\* IsValidAsync of the others: CommonValidation, and the menu may lack what is
\* to be added.  Then the aggregate raises its event.
ValidateUpdate(r) ==
    /\ stage[r] = "validate"
    /\ call[r].kind # "add"
    /\ \/ Answer(r, "refused") /\ UNCHANGED version
       \/ /\ IsAvailable(call[target[r]].date)
          /\ version' = [version EXCEPT ![r] = @ + 1]
          /\ GoTo(r, "save")
    /\ UNCHANGED <<call, target, events, shown, seen>>

\* SaveAsync with the one event the command has raised.
StreamTakes(r) == Accepts(events[target[r]], ExpectedVersion(version[r], 1))

SaveAccepted(r) ==
    /\ stage[r] = "save"
    /\ StreamTakes(r)
    /\ events' = [events EXCEPT ![target[r]] = @ + 1]
    /\ \/ Answer(r, IF call[r].kind = "add" THEN "created" ELSE "amended")
       \/ Answer(r, "failed")
    /\ UNCHANGED <<call, target, version, shown, seen>>

\* Mutant: the save is started and not awaited.
SaveNotAwaited(r) ==
    /\ stage[r] = "save"
    /\ Answer(r, IF call[r].kind = "add" THEN "created" ELSE "amended")
    /\ UNCHANGED <<call, target, version, events, shown, seen>>

\* WrongExpectedVersionException, or the event store is not reached.
SaveFails(r) ==
    /\ stage[r] = "save"
    /\ Answer(r, "failed")
    /\ UNCHANGED <<call, target, version, events, shown, seen>>

-----------------------------------------------------------------------------
RequestStep(r) ==
    \/ Receive(r)
    \/ AuthorizeAdd(r)
    \/ Lookup(r)
    \/ AuthorizeUpdate(r)
    \/ Build(r)
    \/ Load(r)
    \/ LoadFails(r)
    \/ ValidateAdd(r)
    \/ ValidateRecipient(r)
    \/ ValidateUpdate(r)
    \/ SaveAccepted(r)
    \/ SaveFails(r)

Next ==
    \/ \E r \in Requests : RequestStep(r)
    \/ \E o \in Requests : Project(o)

Spec == Init /\ [][Next]_vars

-----------------------------------------------------------------------------
(* Properties *)

TypeOK ==
    /\ call \in [Requests -> Call]
    /\ stage \in [Requests -> Stages]
    /\ target \in [Requests -> Requests \cup {NoOrder}]
    /\ \A r \in Requests : stage[r] \in {"may change", "load", "validate", "recheck", "save"}
                               => target[r] \in Requests
    /\ version \in [Requests -> Int]
    /\ answer \in [Requests -> Answers]
    /\ events \in [Requests -> Nat]
    /\ shown \in [Requests -> Nat]
    /\ seen \in [Requests -> SUBSET Requests]

\* An order a caller was told of, created or existing, is on the event store
\* and is for the recipient and the date the caller named.
ToldOrderIsStored ==
    \A r \in Requests : answer[r] \in {"created", "existing"} =>
        /\ events[target[r]] > 0
        /\ call[target[r]].user = call[r].user
        /\ call[target[r]].date = call[r].date

SameDelivery(r, s) == call[r].user = call[s].user /\ call[r].date = call[s].date

\* A second order for a recipient and date comes only from a request that came
\* in before the first was shown: whatever else is repeated or interleaved, an
\* order on the read side is the last for that recipient and date.
DuplicatesOverlap ==
    \A r, s \in Requests :
        r # s /\ events[r] > 0 /\ events[s] > 0 /\ SameDelivery(r, s)
        => r \notin seen[s] /\ s \notin seen[r]

\* Whatever version aggregates start at, the command validator and SaveAsync
\* between them let no order change after it was placed: its stream ends with
\* the event that began it, and no request to change it succeeds.
OrdersStayAsPlaced ==
    \A r \in Requests : events[r] <= 1 /\ answer[r] # "amended"

\* A recipient has one order per delivery date.
OneOrderPerDelivery ==
    \A r, s \in Requests :
        events[r] > 0 /\ events[s] > 0 /\ SameDelivery(r, s) => r = s

-----------------------------------------------------------------------------
(* The store that callers of the order service see *)

Told == {target[r] : r \in {q \in Requests : answer[q] \in {"created", "existing"}}}

OrderStore == INSTANCE WriteOnceStore WITH
    Ids <- Requests,
    Values <- [user : Recipients, date : Dates],
    writes <- events,
    value <- [o \in Requests |-> [user |-> call[o].user, date |-> call[o].date]],
    shown <- {o \in Requests : shown[o] > 0},
    told <- Told

\* Orders are written once: every step of overlapping, repeated and failing
\* requests creates an order that was not there, shows one that is, tells a
\* caller of one that was just created or is shown, or does nothing.
OrdersAreWrittenOnce == OrderStore!Spec
=============================================================================
