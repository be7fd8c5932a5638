------------------------------ MODULE ReadModel ------------------------------
(***************************************************************************)
(* What the read side promises the API: the order documents together show  *)
(* one moment of the history, and that moment moves forward one event at a *)
(* time.  Only while the event store sends again what it had sent before   *)
(* may documents be a mixture; an order, once shown, is never gone, and    *)
(* when the repetition ends the documents show one moment again.           *)
(* OrderDenormalizer with one daemon implements this.                      *)
(***************************************************************************)
EXTENDS OrderAggregate

CONSTANT Absent   \* no document

VARIABLES
    log,        \* the history: events of all orders
    shown,      \* how many of them the documents show
    views,      \* contents of each order's document
    repeating   \* events are being sent again

vars == <<log, shown, views, repeating>>

\* The documents at the moment after n events.
Moment(n) ==
    [o \in Orders |-> IF \E i \in 1..n : log[i] = OrderAdded(o)
                      THEN Rebuilt(log, o, n) ELSE Absent]

Init ==
    /\ log = <<>>
    /\ shown = 0
    /\ views = Moment(0)
    /\ repeating = FALSE

\* The history grows.
Publish(e) ==
    /\ log' = Append(log, e)
    /\ UNCHANGED <<shown, views, repeating>>

\* The documents show the next event.
Advance ==
    /\ ~repeating
    /\ shown < Len(log)
    /\ shown' = shown + 1
    /\ views' = Moment(shown')
    /\ UNCHANGED <<log, repeating>>

\* The event store goes back to an earlier event.
GoBack ==
    /\ shown' \in 0..shown
    /\ repeating' = TRUE
    /\ UNCHANGED <<log, views>>

\* An event that was sent before changes one document.
Rewrite(o) ==
    /\ repeating
    /\ views'[o] \in Contents
    /\ \A p \in Orders \ {o} : views'[p] = views[p]
    /\ UNCHANGED <<log, shown, repeating>>

\* ... and is done with.  After the last of them the documents show the moment
\* reached.
Repeated ==
    /\ repeating
    /\ shown < Len(log)
    /\ shown' = shown + 1
    /\ ~repeating' => views = Moment(shown')
    /\ UNCHANGED <<log, views>>

Next ==
    \/ \E e \in Events : Publish(e)
    \/ Advance
    \/ GoBack
    \/ \E o \in Orders : Rewrite(o)
    \/ Repeated

Spec == Init /\ [][Next]_vars
=============================================================================
