---------------------------- MODULE OrderChanges ----------------------------
(***************************************************************************)
(* Changes to orders and the menu they are validated against.  A command   *)
(* is loaded, validated and saved as in OrderRequests; here the validator  *)
(* asks MenuService and LunchProviderService, one document per await,      *)
(* while the menu changes and other commands on the order are saved.       *)
(* A command is written as the event it raises (OrderAggregate); it may    *)
(* name any item in any slot.  A document says for the delivery date of    *)
(* the orders whether the thing is on offer: it is listed, withdrawn (for  *)
(* good or for that date), or gone.  All items are of one lunch provider.  *)
(***************************************************************************)
EXTENDS AggregateVersioning, OrderAggregate

CONSTANTS
    Requests,   \* commands given to the service
    Provider,   \* the lunch provider of all items
    ClassOf,    \* what each item is: a bread, a filling or a menu option
    Bars,       \* slots that each filling disallows
    MaxEdits    \* bound: changes of the menu

Adds == {"bread", "filling", "option"}

ASSUME ChangesAssumption ==
    /\ Slots = Adds
    /\ ClassOf \in [Items -> Adds]
    /\ Bars \in [Items -> SUBSET {"bread", "option"}]
    /\ Provider \notin Items
    /\ MaxEdits \in Nat

VARIABLES
    menu,      \* the menu's documents
    streams,   \* the stream of each order
    call,      \* the command of each request
    stage,     \* the next thing its thread does, or how it has ended
    hand,      \* the aggregate it holds
    version,   \* Version of that aggregate
    valid,     \* its ValidationStatus has no reasons so far
    edits,     \* changes of the menu so far
    seen       \* for the properties: what documents said since it came in

request == <<call, stage, hand, version, valid>>
vars == <<menu, streams, request, edits, seen>>

Documents == Items \cup {Provider}

Commands == UNION {UpdateEvents(o) : o \in Orders}

\* The last three are the CommandStatus, or the failure.
Stages == {"none", "load", "common", "item", "provider", "pairing", "save",
           "ok", "refused", "failed"}

Running(r) == stage[r] \notin {"none", "ok", "refused", "failed"}

Slot(r) == call[r].field

Order(r) == call[r].order

AddsItem(r) == Slot(r) \in Adds /\ call[r].value # Nothing

Init ==
    /\ menu = [d \in Documents |-> "listed"]
    /\ streams = [o \in Orders |-> <<OrderAdded(o)>>]
    /\ call \in [Requests -> Commands]
    /\ stage = [r \in Requests |-> "none"]
    /\ hand = [r \in Requests |-> NewOrder]
    /\ version = [r \in Requests |-> InitialVersion]
    /\ valid = [r \in Requests |-> TRUE]
    /\ edits = 0
    /\ seen = [r \in Requests |-> {}]

GoTo(r, s) == stage' = [stage EXCEPT ![r] = s]

Hold(r, a, v) ==
    /\ hand' = [hand EXCEPT ![r] = a]
    /\ version' = [version EXCEPT ![r] = v]

\* The request ends and lets go of its aggregate.
Answer(r, a) ==
    /\ GoTo(r, a)
    /\ Hold(r, NewOrder, InitialVersion)
    /\ valid' = [valid EXCEPT ![r] = TRUE]
    /\ seen' = [seen EXCEPT ![r] = {}]

\* It goes on.
Proceed(r, s) == GoTo(r, s) /\ UNCHANGED <<valid, seen>>

-----------------------------------------------------------------------------
(* MenuService, LunchProviderService and CalendarService *)

\* CalendarService.IsAvailableAsync returns before it looks at the calendar.
CalendarIsAvailable == TRUE

\* Mutant: a provider that is gone is available.
ProviderIsAvailableOrGone == menu[Provider] # "withdrawn"

\* LunchProviderService.IsAvailableAsync.
ProviderIsAvailable == menu[Provider] = "listed"

\* Mutant: as its name says.
IsDateEmbargoedAsNamed == ~(CalendarIsAvailable /\ ProviderIsAvailable)

\* MenuService.IsDateEmbargoed, which says the opposite of its name.
IsDateEmbargoed == CalendarIsAvailable /\ ProviderIsAvailable

\* Where Is...AvailableAsync looks for the item of a slot: the repository of
\* fillings serves for menu options too.
LookedForAmong(slot) == IF slot = "option" THEN "filling" ELSE slot

\* The document is there, and neither withdrawn nor withdrawn on that date.
ItemIsOnOffer(slot, i) == ClassOf[i] = LookedForAmong(slot) /\ menu[i] = "listed"

\* Whatever writes the menu's documents changes one.
EditMenu(d, s) ==
    /\ edits < MaxEdits
    /\ menu[d] # s
    /\ UNCHANGED <<streams, request>>
    /\ edits' = edits + 1
    /\ menu' = [menu EXCEPT ![d] = s]
    /\ seen' = [r \in Requests |-> IF Running(r) THEN seen[r] \cup {<<d, s>>} ELSE {}]

-----------------------------------------------------------------------------
(* LocalOrderService *)

\* HandleForUserAsync: without an e-mail claim it throws.
Receive(r) ==
    /\ stage[r] = "none"
    /\ \/ Answer(r, "failed")
       \/ /\ GoTo(r, "load")
          /\ seen' = [seen EXCEPT ![r] = {<<d, menu[d]>> : d \in Documents}]
          /\ UNCHANGED <<hand, version, valid>>
    /\ UNCHANGED <<menu, streams, call, edits>>

\* GetByIdAsync.
Load(r) ==
    LET stream == streams[Order(r)]
    IN  /\ stage[r] = "load"
        /\ Hold(r, Rebuilt(stream, Order(r), Len(stream)), InitialVersion + Len(stream))
        /\ Proceed(r, "common")
        /\ UNCHANGED <<menu, streams, call, edits>>

\* The event store or the database is not reached.
CallFails(r) ==
    /\ Running(r)
    /\ Answer(r, "failed")
    /\ UNCHANGED <<menu, streams, call, edits>>

-----------------------------------------------------------------------------
(* OrderCommandValidator *)

\* The end of IsValidAsync: a valid command makes the aggregate raise its event.
Conclude(r, ok) ==
    IF ok
    THEN Hold(r, Apply(hand[r], call[r]), version[r] + 1) /\ Proceed(r, "save")
    ELSE Answer(r, "refused")

\* CommonValidation, all there is for a command that adds nothing.
CommonValidation(r) ==
    /\ stage[r] = "common"
    /\ IF AddsItem(r) /\ CalendarIsAvailable
       THEN Proceed(r, "item") /\ UNCHANGED <<hand, version>>
       ELSE Conclude(r, CalendarIsAvailable)
    /\ UNCHANGED <<menu, streams, call, edits>>

\* Mutant: Guid.Empty is asked for too.
AsksAnyFilling(r) == Slot(r) # "filling"

\* AddBread and AddMenuOption go on to the filling that the order has, AddFilling
\* does not ask what the order has.
AsksTheFilling(r) == Slot(r) # "filling" /\ hand[r]["filling"] # Nothing

AfterAvailability(r, ok) ==
    IF AsksTheFilling(r)
    THEN /\ GoTo(r, "pairing")
         /\ valid' = [valid EXCEPT ![r] = ok]
         /\ UNCHANGED <<hand, version, seen>>
    ELSE Conclude(r, ok)

\* Is...AvailableAsync reads the item; one that is not on offer ends the question.
LookAtItem(r) ==
    /\ stage[r] = "item"
    /\ IF ItemIsOnOffer(Slot(r), call[r].value)
       THEN Proceed(r, "provider") /\ UNCHANGED <<hand, version>>
       ELSE AfterAvailability(r, FALSE)
    /\ UNCHANGED <<menu, streams, call, edits>>

\* ... and IsDateEmbargoed its provider.
LookAtProvider(r) ==
    /\ stage[r] = "provider"
    /\ AfterAvailability(r, IsDateEmbargoed)
    /\ UNCHANGED <<menu, streams, call, edits>>

\* CanHaveBreadAsync, CanHaveMenuOptionAsync: a filling that is gone is a null
\* reference.
LookAtFilling(r) ==
    LET f == hand[r]["filling"]
    IN  /\ stage[r] = "pairing"
        /\ IF menu[f] = "gone" THEN Answer(r, "failed")
           ELSE Conclude(r, valid[r] /\ Slot(r) \notin Bars[f])
        /\ UNCHANGED <<menu, streams, call, edits>>

-----------------------------------------------------------------------------
(* SaveAsync *)

\* Mutant: the append expects any version.
StreamTakesAny(r) == TRUE

StreamTakes(r) == Accepts(Len(streams[Order(r)]), ExpectedVersion(version[r], 1))

SaveAccepted(r) ==
    /\ stage[r] = "save"
    /\ StreamTakes(r)
    /\ streams' = [streams EXCEPT ![Order(r)] = Append(@, call[r])]
    /\ Answer(r, "ok") \/ Answer(r, "failed")
    /\ UNCHANGED <<menu, call, edits>>

-----------------------------------------------------------------------------
RequestStep(r) ==
    \/ Receive(r)
    \/ Load(r)
    \/ CallFails(r)
    \/ CommonValidation(r)
    \/ LookAtItem(r)
    \/ LookAtProvider(r)
    \/ LookAtFilling(r)
    \/ SaveAccepted(r)

Next ==
    \/ \E r \in Requests : RequestStep(r)
    \/ \E d \in Documents, s \in {"listed", "withdrawn", "gone"} : EditMenu(d, s)

Spec == Init /\ [][Next]_vars

-----------------------------------------------------------------------------
(* Properties *)

TypeOK ==
    /\ menu \in [Documents -> {"listed", "withdrawn", "gone"}]
    /\ \A o \in Orders : streams[o] \in Seq(Events)
    /\ call \in [Requests -> Commands]
    /\ stage \in [Requests -> Stages]
    /\ hand \in [Requests -> Contents]
    /\ \A r \in Requests : stage[r] = "pairing" => hand[r]["filling"] \in Items
    /\ version \in [Requests -> Int]
    /\ valid \in [Requests -> BOOLEAN]
    /\ edits \in 0..MaxEdits
    /\ \A r \in Requests : seen[r] \subseteq Documents \X {"listed", "withdrawn", "gone"}

\* The filling of order o before its event number n.
FillingBefore(o, n) == Rebuilt(streams[o], o, n - 1)["filling"]

\* Bread and menu options get into an order only on top of a filling that allows
\* them, also when the filling is changed by another request while they are
\* validated.  (A filling put on top of a bread is not asked.)
BarredStayOut ==
    \A o \in Orders : \A n \in DOMAIN streams[o] :
        LET e == streams[o][n]
            f == FillingBefore(o, n)
        IN  e.field \in {"bread", "option"} /\ e.value # Nothing /\ f # Nothing
            => e.field \notin Bars[f]

\* What goes to the event store was on offer, from a provider on offer, at some
\* time since the request came in, and the filling it goes with was on the menu
\* then: a request whose order's filling is gone all the while gets no further.
AddedWasOnOffer ==
    \A r \in Requests :
        LET f == hand[r]["filling"]
        IN  stage[r] = "save" /\ AddsItem(r) =>
              /\ <<call[r].value, "listed">> \in seen[r]
              /\ <<Provider, "listed">> \in seen[r]
              /\ f # Nothing => \E s \in {"listed", "withdrawn"} : <<f, s>> \in seen[r]

\* A bread or a filling is refused only for a cause: at some time since the
\* request came in it or its lunch provider was off the menu, or it was never of
\* that kind, or the filling that the request found in the order bars it.
RefusedForCause ==
    [][\A r \in Requests :
          /\ stage[r] # "refused" /\ stage'[r] = "refused"
          /\ Slot(r) \in {"bread", "filling"}
          => \/ ClassOf[call[r].value] # Slot(r)
             \/ \E d \in {call[r].value, Provider}, s \in {"withdrawn", "gone"} :
                   <<d, s>> \in seen[r]
             \/ stage[r] = "pairing" /\ Slot(r) \in Bars[hand[r]["filling"]]]_vars
=============================================================================
