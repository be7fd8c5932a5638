--------------------------- MODULE OrderAggregate ---------------------------
(***************************************************************************)
(* OrderAggregate: the events its commands raise and what each does to the *)
(* state of the aggregate.  The three chosen things (bread, filling, menu  *)
(* option) behave alike and are the Slots; an event is its order, the      *)
(* field it sets and the value it sets it to.  OrderAdded, which sets none *)
(* of these fields on the aggregate, has the field "order".  No command    *)
(* looks at the state: a cancelled order still takes bread.                *)
(***************************************************************************)
EXTENDS Naturals, SequencesExt

CONSTANTS
    Orders,   \* order identities
    Slots,    \* BreadId, FillingId, MenuOptionId
    Items,    \* what a slot can hold
    Nothing   \* Guid.Empty

ASSUME OrderAssumption ==
    /\ Nothing \notin Items
    /\ {"order", "status"} \cap Slots = {}

Statuses == {"Incomplete", "Completed", "Cancelled"}

OrderAdded(o) == [order |-> o, field |-> "order", value |-> Nothing]

\* OrderCompleted, OrderNowIncomplete and OrderCanceled.
StatusEvent(o, s) == [order |-> o, field |-> "status", value |-> s]

\* BreadAddedToOrder, ... with an item; BreadRemovedFromOrder, ... with Nothing.
SlotEvent(o, f, i) == [order |-> o, field |-> f, value |-> i]

\* Events raised by the commands on an existing order.
UpdateEvents(o) ==
    {StatusEvent(o, s) : s \in Statuses}
        \cup {SlotEvent(o, f, i) : f \in Slots, i \in Items \cup {Nothing}}

Events == UNION {{OrderAdded(o)} \cup UpdateEvents(o) : o \in Orders}

ASSUME StatusAssumption == Statuses \cap (Items \cup {Nothing}) = {}

\* The fields of an order and the values they take.
Fields == Slots \cup {"status"}
Contents == {k \in [Fields -> Items \cup {Nothing} \cup Statuses] :
                /\ k["status"] \in Statuses
                /\ \A f \in Slots : k[f] \notin Statuses}

\* State set by the constructor OrderAggregate(Guid).
NewOrder == [f \in Fields |-> IF f = "status" THEN "Incomplete" ELSE Nothing]

\* The Apply overloads.
Apply(k, e) == IF e.field = "order" THEN k ELSE [k EXCEPT ![e.field] = e.value]

\* The aggregate of order o that events rebuild.
Replayed(events, o) ==
    LET after[n \in 0..Len(events)] ==
            IF n = 0 THEN NewOrder
            ELSE IF events[n].order = o THEN Apply(after[n - 1], events[n])
            ELSE after[n - 1]
    IN  after[Len(events)]

\* ... that the first n events of a log rebuild.
Rebuilt(log, o, n) == Replayed(SubSeq(log, 1, n), o)
=============================================================================
