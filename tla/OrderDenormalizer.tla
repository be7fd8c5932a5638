-------------------------- MODULE OrderDenormalizer --------------------------
(***************************************************************************)
(* The daemons that turn order events into the documents the API reads.    *)
(* A persistent subscription of the event store hands the events of the    *)
(* stream MaginusLunch-Orders to the DenormalizerService processes of one  *)
(* group.  Each holds up to BufferSize events and handles one at a time:   *)
(* OrderEventHandlers reads the order's document, changes the copy and     *)
(* saves it whole, and the service then acknowledges the event.  Every     *)
(* await is a point where the process can be stopped or die, the event can *)
(* be delivered again, or another daemon can move.                         *)
(*                                                                         *)
(* What can go wrong is spent from one budget; Faults says which kinds:    *)
(*   "stop"     the operator stops a service (Stop)                        *)
(*   "crash"    a process dies, or a call that a handler makes throws      *)
(*   "late"     such a call throws while the save that the handler has     *)
(*              started, but not awaited, is still under way (OrderAdded   *)
(*              and FillingAddedToOrder)                                   *)
(*   "rewind"   the event store restarts from an earlier checkpoint        *)
(*   "timeout"  the event store gives up waiting for an acknowledgement    *)
(***************************************************************************)
EXTENDS OrderAggregate, FiniteSetsExt

CONSTANTS
    Daemons,      \* DenormalizerService processes of the group
    BufferSize,   \* events a daemon is sent ahead of its acknowledgements
    Unknown,      \* items with no document on the read side
    Late,         \* fields whose handler starts its save before its last read
    Faults,       \* kinds of fault that may happen
    MaxFaults,    \* bound: how many of them
    MaxLog,       \* bound: events published
    Absent,       \* no document
    NoWork        \* no event being handled

ASSUME DenormalizerAssumption ==
    /\ BufferSize \in Nat \ {0}
    /\ Unknown \subseteq Items
    /\ Late \subseteq Slots \cup {"order"}
    /\ Faults \subseteq {"stop", "crash", "late", "rewind", "timeout"}
    /\ MaxFaults \in Nat /\ MaxLog \in Nat

VARIABLES
    log,     \* events of the stream MaginusLunch-Orders
    next,    \* first event the subscription has not sent to anyone
    retry,   \* events to be sent again
    acked,   \* events acknowledged
    mode,    \* subscription of each daemon: off, on or stopping
    inbox,   \* events a daemon has received and not begun
    work,    \* the event a daemon is handling, and its copy of the document
    doc,     \* the order documents
    late,    \* saves nobody waits for any more
    budget,  \* faults left
    replay   \* for the properties: the event store has sent events up to this
             \* one before it went back

subscription == <<next, retry, acked>>
vars == <<log, subscription, mode, inbox, work, doc, late, budget, replay>>

Document == [version : Nat, addressed : BOOLEAN, contents : Contents]

ASSUME AbsentAssumption == Absent \notin Document

Work == [event : 1..MaxLog, stage : {"read", "saved"}, copy : Document]

ASSUME NoWorkAssumption == NoWork \notin Work

Init ==
    /\ log = <<>>
    /\ next = 1
    /\ retry = {}
    /\ acked = {}
    /\ mode = [d \in Daemons |-> "off"]
    /\ inbox = [d \in Daemons |-> <<>>]
    /\ work = [d \in Daemons |-> NoWork]
    /\ doc = [o \in Orders |-> Absent]
    /\ late = {}
    /\ budget = MaxFaults
    /\ replay = 0

Fault(kind) ==
    /\ kind \in Faults
    /\ budget > 0
    /\ budget' = budget - 1

-----------------------------------------------------------------------------
(* OrderEventHandlers and MongoOrderRepository *)

\* Mutants: the existing version is not carried over; Version is always 1.
HandledOrderAddedAfresh(old) ==
    [version |-> 0, addressed |-> TRUE,
     contents |-> IF old = Absent THEN NewOrder
                  ELSE [NewOrder EXCEPT !["status"] = old.contents["status"]]]
HandledOrderAddedAtOne(old) ==
    [HandledOrderAddedAfresh(old) EXCEPT !.version = 1]

\* HandleAsync(OrderAdded): a new document, which keeps the version and the
\* status of the one that was there.
HandledOrderAdded(old) ==
    IF old = Absent
    THEN [version |-> 0, addressed |-> TRUE, contents |-> NewOrder]
    ELSE [version |-> old.version, addressed |-> TRUE,
          contents |-> [NewOrder EXCEPT !["status"] = old.contents["status"]]]

\* Mutant: the document made up without a status.
HandledUpdateNoStatus(e, old) ==
    LET order == IF old = Absent
                 THEN [version |-> 1, addressed |-> FALSE,
                       contents |-> [NewOrder EXCEPT !["status"] = Nothing]]
                 ELSE old
    IN  [order EXCEPT !.contents = Apply(@, e)]

\* The other handlers set one field of the document, or of one they make up
\* with Version 1 and neither recipient nor delivery date.
HandledUpdate(e, old) ==
    LET order == IF old = Absent
                 THEN [version |-> 1, addressed |-> FALSE, contents |-> NewOrder]
                 ELSE old
    IN  [order EXCEPT !.contents = Apply(@, e)]

\* What the handler of e saves after it has read old.
Handled(e, old) ==
    IF e.field = "order" THEN HandledOrderAdded(old) ELSE HandledUpdate(e, old)

\* bread.Name, filling.Name or menuOption.Name of a null reference.
Throws(e) == e.field \in Slots /\ e.value \in Unknown

\* InsertOne meets a document with the same Id.
DuplicateKey(o, copy) == copy.version = 0 /\ doc[o] # Absent

\* Mutant: Replace as an upsert.
SaveUpserting(o, copy) ==
    /\ ~DuplicateKey(o, copy)
    /\ doc' = [doc EXCEPT ![o] = [copy EXCEPT !.version = @ + 1]]

\* SaveOrderAsync: Insert the first version, Replace by Id after that; a
\* Replace that finds no document does nothing.
Save(o, copy) ==
    /\ ~DuplicateKey(o, copy)
    /\ doc' = IF copy.version > 0 /\ doc[o] = Absent THEN doc
              ELSE [doc EXCEPT ![o] = [copy EXCEPT !.version = @ + 1]]

-----------------------------------------------------------------------------
(* The stream and the persistent subscription (event store) *)

\* An order's stream gains an event and the projection links it.
Publish(e) ==
    /\ Len(log) < MaxLog
    /\ (e.field = "order") = (\A i \in DOMAIN log : log[i].order # e.order)
    /\ log' = Append(log, e)
    /\ UNCHANGED <<subscription, mode, inbox, work, doc, late, budget, replay>>

\* The next event goes to a subscriber with room: one to be retried first.
Deliver(d) ==
    LET i == IF retry = {} THEN next ELSE Min(retry)
        held == Len(inbox[d]) + (IF work[d] = NoWork THEN 0 ELSE 1)
    IN  /\ mode[d] = "on"
        /\ i <= Len(log)
        /\ held < BufferSize
        /\ inbox' = [inbox EXCEPT ![d] = Append(@, i)]
        /\ IF retry = {} THEN next' = next + 1 /\ UNCHANGED retry
                         ELSE retry' = retry \ {i} /\ UNCHANGED next
        /\ UNCHANGED <<log, acked, mode, work, doc, late, budget, replay>>

\* Events a subscriber has received and not answered.
InFlight(d) == Range(inbox[d]) \cup (IF work[d] = NoWork THEN {} ELSE {work[d].event})

\* The message timeout passes for an event a subscriber holds.
Timeout(d, i) ==
    /\ Fault("timeout")
    /\ mode[d] # "off"
    /\ i \in InFlight(d) \ retry
    /\ retry' = retry \cup {i}
    /\ UNCHANGED <<log, next, acked, mode, inbox, work, doc, late, replay>>

\* The event store restarts at a checkpoint, which never passes an event that
\* is not acknowledged; every subscription drops, the handlers run on.
Rewind(k) ==
    /\ Fault("rewind")
    /\ 1..k \subseteq acked
    /\ acked' = 1..k
    /\ next' = k + 1
    /\ retry' = {}
    /\ mode' = [d \in Daemons |-> "off"]
    /\ inbox' = [d \in Daemons |-> <<>>]
    /\ replay' = Max({replay, next - 1})
    /\ UNCHANGED <<log, work, doc, late>>

\* The subscription of d ends: what d has not answered will be sent again.
DropSubscription(d) ==
    /\ mode' = [mode EXCEPT ![d] = "off"]
    /\ retry' = IF mode[d] = "off" THEN retry ELSE retry \cup InFlight(d)
    /\ inbox' = [inbox EXCEPT ![d] = <<>>]
    /\ work' = [work EXCEPT ![d] = NoWork]
    /\ UNCHANGED <<log, next, acked>>

-----------------------------------------------------------------------------
(* DenormalizerService *)

\* Start: connect to the persistent subscription.  Nothing does so by itself
\* after a drop; the operator starts the process again.
Start(d) ==
    /\ mode[d] = "off"
    /\ work[d] = NoWork
    /\ mode' = [mode EXCEPT ![d] = "on"]
    /\ UNCHANGED <<log, subscription, inbox, work, doc, late, budget, replay>>

\* EventAppeared: the handler reads the document (and the items it names).
BeginHandling(d) ==
    /\ mode[d] = "on"
    /\ work[d] = NoWork
    /\ inbox[d] # <<>>
    /\ LET i == Head(inbox[d])
           e == log[i]
       IN  /\ ~Throws(e)
           /\ work' = [work EXCEPT ![d] =
                 [event |-> i, stage |-> "read", copy |-> Handled(e, doc[e.order])]]
    /\ inbox' = [inbox EXCEPT ![d] = Tail(@)]
    /\ UNCHANGED <<log, subscription, mode, doc, late, budget, replay>>

\* SaveOrderAsync of the handler, and whatever it awaits besides.
SaveWork(d) ==
    /\ work[d] # NoWork
    /\ work[d].stage = "read"
    /\ Save(log[work[d].event].order, work[d].copy)
    /\ work' = [work EXCEPT ![d].stage = "saved"]
    /\ UNCHANGED <<log, subscription, mode, inbox, late, budget, replay>>

\* subscription.Acknowledge.
Acknowledge(d) ==
    /\ mode[d] = "on"
    /\ work[d] # NoWork
    /\ work[d].stage = "saved"
    /\ acked' = acked \cup {work[d].event}
    /\ work' = [work EXCEPT ![d] = NoWork]
    /\ UNCHANGED <<log, next, retry, mode, inbox, doc, late, budget, replay>>

\* The handler ends after its subscription was dropped: nobody is told.
Lapse(d) ==
    /\ mode[d] = "off"
    /\ work[d] # NoWork
    /\ work[d].stage = "saved"
    /\ work' = [work EXCEPT ![d] = NoWork]
    /\ UNCHANGED <<log, subscription, mode, inbox, doc, late, budget, replay>>

\* An exception leaves the handler for a reason that will not go away:
\* subscription.Fail(Stop), rethrown, and the client library drops the
\* subscription.
HandlerFails(d) ==
    /\ \/ /\ mode[d] = "on" /\ work[d] = NoWork /\ inbox[d] # <<>>
          /\ Throws(log[Head(inbox[d])])
       \/ /\ work[d] # NoWork /\ work[d].stage = "read"
          /\ DuplicateKey(log[work[d].event].order, work[d].copy)
    /\ DropSubscription(d)
    /\ UNCHANGED <<doc, late, budget, replay>>

\* The read that follows the start of the save throws; the save goes on alone.
HandlerFailsBeforeSave(d) ==
    /\ work[d] # NoWork
    /\ work[d].stage = "read"
    /\ log[work[d].event].field \in Late
    /\ Fault("late")
    /\ late' = late \cup {[order |-> log[work[d].event].order, copy |-> work[d].copy]}
    /\ DropSubscription(d)
    /\ UNCHANGED <<doc, replay>>

\* Such a save reaches the database, or fails there.
LateSave(s) ==
    /\ s \in late
    /\ late' = late \ {s}
    /\ Save(s.order, s.copy) \/ UNCHANGED doc
    /\ UNCHANGED <<log, subscription, mode, inbox, work, budget, replay>>

\* Stop: cancel the token and stop the subscription.
Stop(d) ==
    /\ Fault("stop")
    /\ mode[d] = "on"
    /\ mode' = [mode EXCEPT ![d] = "stopping"]
    /\ UNCHANGED <<log, subscription, inbox, work, doc, late, replay>>

\* Mutant: the cancelled token is not looked at after the handler.
StoppedAcknowledging(d) ==
    /\ mode[d] = "stopping"
    /\ mode' = [mode EXCEPT ![d] = "off"]
    /\ acked' = acked \cup InFlight(d)
    /\ inbox' = [inbox EXCEPT ![d] = <<>>]
    /\ work' = [work EXCEPT ![d] = NoWork]
    /\ UNCHANGED <<log, next, retry, doc, late, budget, replay>>

\* With the token cancelled every event still held, begun or saved, is failed
\* and not acknowledged.
Stopped(d) ==
    /\ mode[d] = "stopping"
    /\ DropSubscription(d)
    /\ UNCHANGED <<doc, late, budget, replay>>

\* The process dies; or a call made by the handler throws, before or after the
\* document is written, which drops the subscription just the same.
Crash(d) ==
    /\ Fault("crash")
    /\ mode[d] # "off" \/ work[d] # NoWork
    /\ DropSubscription(d)
    /\ UNCHANGED <<doc, late, replay>>

-----------------------------------------------------------------------------
DaemonStep(d) ==
    \/ Start(d)
    \/ Deliver(d)
    \/ BeginHandling(d)
    \/ SaveWork(d)
    \/ Acknowledge(d)
    \/ Lapse(d)
    \/ HandlerFails(d)
    \/ HandlerFailsBeforeSave(d)
    \/ Stop(d)
    \/ Stopped(d)
    \/ Crash(d)
    \/ \E i \in 1..MaxLog : Timeout(d, i)

Next ==
    \/ \E e \in Events : Publish(e)
    \/ \E k \in 0..MaxLog : Rewind(k)
    \/ \E s \in late : LateSave(s)
    \/ \E d \in Daemons : DaemonStep(d)

Spec == Init /\ [][Next]_vars

\* The event store delivers, the process runs, and the operator starts a
\* service that has stopped.
Fairness ==
    \A d \in Daemons :
        /\ WF_vars(Start(d))
        /\ WF_vars(Deliver(d))
        /\ WF_vars(BeginHandling(d))
        /\ WF_vars(SaveWork(d))
        /\ WF_vars(Acknowledge(d))
        /\ WF_vars(Lapse(d))
        /\ WF_vars(HandlerFails(d))
        /\ WF_vars(Stopped(d))

FairSpec == Spec /\ Fairness

-----------------------------------------------------------------------------
(* Properties *)

TypeOK ==
    /\ log \in Seq(Events) /\ Len(log) <= MaxLog
    /\ next \in 1..(MaxLog + 1)
    /\ retry \subseteq 1..MaxLog /\ acked \subseteq 1..MaxLog
    /\ mode \in [Daemons -> {"off", "on", "stopping"}]
    /\ \A d \in Daemons : inbox[d] \in Seq(1..MaxLog)
    /\ \A d \in Daemons : work[d] # NoWork => work[d] \in Work
    /\ \A o \in Orders : doc[o] # Absent => doc[o] \in Document /\ doc[o].version > 0
    /\ \A s \in late : s.order \in Orders /\ s.copy \in Document
    /\ budget \in 0..MaxFaults
    /\ replay \in 0..MaxLog

Placed(o, n) == \E i \in 1..n : log[i] = OrderAdded(o)

\* The document of o is what the aggregate of o was after n events of the log.
ShowsPrefix(o, n) ==
    IF Placed(o, n)
    THEN /\ doc[o] # Absent
         /\ doc[o].addressed
         /\ doc[o].contents = Rebuilt(log, o, n)
    ELSE doc[o] = Absent

\* Events before the first that a handler throws on: nothing gets past that one.
Readable == Max({n \in 0..Len(log) : \A i \in 1..n : ~Throws(log[i])})

\* In the end, with one daemon, the documents stay at the state that the log
\* describes up to the first event whose item the read side lacks: an event that
\* no handler can take holds back what comes after it, and nothing else does.
Converges ==
    <>[](acked = 1..Readable /\ \A o \in Orders : ShowsPrefix(o, Readable))

\* Whatever overlaps, is repeated, lost or late: an order whose OrderAdded was
\* acknowledged has a document.
AckedOrderIsVisible ==
    \A i \in acked : log[i].field = "order" => doc[log[i].order] # Absent

\* ... and a document comes into being only as an OrderAdded describes it.
CreatedByOrderAdded ==
    [][\A o \in Orders : doc[o] = Absent /\ doc'[o] # Absent =>
          doc'[o] = [version |-> 1, addressed |-> TRUE, contents |-> NewOrder]]_vars

-----------------------------------------------------------------------------
(* The read model that the API works with *)

Sent == Cardinality(acked) < replay

Moment == IF \A o \in Orders : ShowsPrefix(o, Cardinality(acked))
          THEN Cardinality(acked) ELSE Cardinality(acked) + 1

OrderViews == INSTANCE ReadModel WITH
    shown <- IF Sent THEN Cardinality(acked) ELSE Moment,
    views <- [o \in Orders |-> IF doc[o] = Absent THEN Absent ELSE doc[o].contents],
    repeating <- Sent

\* One daemon, however often it is stopped, dies or is sent events again, gives
\* readers the moments of the history one after the other; while events are sent
\* again documents may be older, but none is gone.
ReadersSeeHistory == OrderViews!Spec
=============================================================================
