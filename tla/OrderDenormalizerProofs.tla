----------------------- MODULE OrderDenormalizerProofs -----------------------
(***************************************************************************)
(* Proofs about OrderDenormalizer for any number of orders and items, any  *)
(* log and any number of faults: what any number of daemons keep whatever  *)
(* fails, and that one daemon, with faults that leave no save behind,      *)
(* shows readers the history.                                              *)
(***************************************************************************)
EXTENDS OrderDenormalizer, OrderAggregateProofs, FiniteSetTheorems, SequenceTheorems, TLAPS

Sequence == 1..Len(log)

Stored == {k \in Document : k.version > 0}

\* Events are numbered as the log numbers them, wherever they are; copies and
\* saves are documents.
IInv ==
    /\ log \in Seq(Events) /\ Len(log) <= MaxLog
    /\ next \in 1..(Len(log) + 1) /\ replay \in 0..Len(log)
    /\ retry \subseteq Sequence /\ acked \subseteq Sequence
    /\ mode \in [Daemons -> {"off", "on", "stopping"}]
    /\ inbox \in [Daemons -> Seq(Sequence)]
    /\ work = [d \in Daemons |-> work[d]]
    /\ \A d \in Daemons : work[d] # NoWork =>
          work[d] \in [event : Sequence, stage : {"read", "saved"}, copy : Document]
    /\ doc \in [Orders -> Stored \cup {Absent}]
    /\ late \subseteq [order : Orders, copy : Document]
    /\ budget \in 0..MaxFaults

\* A copy that will be inserted is what OrderAdded makes of no document.
IsNew(copy) == copy.version = 0 => copy = HandledOrderAdded(Absent)

NewCopies ==
    /\ \A d \in Daemons : work[d] # NoWork => IsNew(work[d].copy)
    /\ \A s \in late : IsNew(s.copy)

\* The document of an OrderAdded that is being handled is there, unless its save
\* is about to insert it.
HandledIsVisible ==
    \A d \in Daemons :
        LET e == log[work[d].event]
        IN  /\ work[d] # NoWork
            /\ e.field = "order"
            /\ work[d].stage = "saved" \/ work[d].copy.version > 0
            => doc[e.order] # Absent

-----------------------------------------------------------------------------
(* Documents *)

\* What a handler makes of a document is a document, and one that will be inserted
\* is new.
LEMMA HandledIsDocument ==
    ASSUME NEW e \in Events, NEW old \in Stored \cup {Absent}
    PROVE  /\ Handled(e, old) \in Document
           /\ IsNew(Handled(e, old))
           /\ e.field = "order" /\ Handled(e, old).version > 0 => old # Absent
<1>1. CASE e.field = "order" /\ old = Absent
  BY <1>1, NewOrderIsContents DEF Handled, HandledOrderAdded, Document, IsNew
<1>2. CASE e.field = "order" /\ old # Absent
  <2>1. old \in Document /\ old.version \in Nat /\ old.version > 0
    BY <1>2 DEF Stored, Document
  <2>2. [NewOrder EXCEPT !["status"] = old.contents["status"]] \in Contents
    <3>1. old.contents["status"] \in Statuses
      BY <2>1 DEF Document, Contents
    <3> QED
      BY <3>1, NewOrderIsContents, OrderAssumption DEF Contents, Fields
  <2> QED
    BY <1>2, <2>1, <2>2 DEF Handled, HandledOrderAdded, Document, IsNew
<1>3. CASE e.field # "order"
  <2> DEFINE base == IF old = Absent
                     THEN [version |-> 1, addressed |-> FALSE, contents |-> NewOrder]
                     ELSE old
  <2>1. base \in Document /\ base.version > 0
    BY NewOrderIsContents DEF Stored, Document
  <2>2. Handled(e, old) = [base EXCEPT !.contents = Apply(base.contents, e)]
    BY <1>3 DEF Handled, HandledUpdate
  <2>3. Apply(base.contents, e) \in Contents
    BY <2>1, ApplyIsContents DEF Document
  <2> HIDE DEF base
  <2> QED
    BY <1>3, <2>1, <2>2, <2>3 DEF Document, IsNew
<1> QED
  BY <1>1, <1>2, <1>3

\* What a save does to the documents.
LEMMA SaveShape ==
    ASSUME doc \in [Orders -> Stored \cup {Absent}],
           NEW o \in Orders, NEW copy \in Document, IsNew(copy), Save(o, copy)
    PROVE  /\ doc' \in [Orders -> Stored \cup {Absent}]
           /\ \A p \in Orders : doc[p] # Absent => doc'[p] # Absent
           /\ copy.version = 0 => doc'[o] # Absent
           /\ \A p \in Orders : doc[p] = Absent /\ doc'[p] # Absent =>
                 doc'[p] = [version |-> 1, addressed |-> TRUE, contents |-> NewOrder]
<1> DEFINE new == [copy EXCEPT !.version = @ + 1]
<1>1. copy.version \in Nat
  BY DEF Document
<1>2. new \in Stored /\ new # Absent
  BY <1>1, AbsentAssumption DEF Document, Stored
<1>3. copy.version = 0 => new = [version |-> 1, addressed |-> TRUE, contents |-> NewOrder]
  <2> SUFFICES ASSUME copy.version = 0
               PROVE  new = [version |-> 1, addressed |-> TRUE, contents |-> NewOrder]
    OBVIOUS
  <2>1. copy = [version |-> 0, addressed |-> TRUE, contents |-> NewOrder]
    BY DEF IsNew, HandledOrderAdded
  <2>2. copy.version + 1 = 1
    OBVIOUS
  <2>3. new = [copy EXCEPT !.version = 1]
    BY <2>2
  <2>4. \A a, c : [[version |-> 0, addressed |-> a, contents |-> c] EXCEPT !.version = 1]
                     = [version |-> 1, addressed |-> a, contents |-> c]
    OBVIOUS
  <2> HIDE DEF new
  <2> QED
    BY <2>1, <2>3, <2>4, Zenon
<1>4. \/ doc' = doc /\ copy.version > 0
      \/ doc' = [doc EXCEPT ![o] = new] /\ (doc[o] # Absent \/ copy.version = 0)
  BY <1>1 DEF Save
<1> HIDE DEF new
<1>5. CASE doc' = doc /\ copy.version > 0
  BY <1>1, <1>5
<1>6. CASE doc' = [doc EXCEPT ![o] = new] /\ (doc[o] # Absent \/ copy.version = 0)
  <2>1. doc' \in [Orders -> Stored \cup {Absent}]
    BY <1>2, <1>6
  <2>2. \A p \in Orders : doc'[p] = IF p = o THEN new ELSE doc[p]
    BY <1>6
  <2>3. doc[o] = Absent => copy.version = 0
    BY <1>6
  <2> QED
    BY <1>2, <1>3, <2>1, <2>2, <2>3, Zenon
<1> QED
  BY <1>4, <1>5, <1>6

-----------------------------------------------------------------------------
(* Events *)

\* Min is a member, of any set of numbers that has one.
LEMMA MinIsMember ==
    ASSUME NEW S \in SUBSET Nat, S # {}
    PROVE  Min(S) \in S
BY SmallestExists DEF Min

LEMMA InFlightIsLogged ==
    ASSUME IInv, NEW d \in Daemons
    PROVE  InFlight(d) \subseteq Sequence
<1>1. inbox[d] \in Seq(Sequence)
  BY DEF IInv
<1>2. Range(inbox[d]) \subseteq Sequence
  BY <1>1, LenProperties DEF Range
<1> QED
  BY <1>2 DEF IInv, InFlight

\* When a subscription ends its daemon lets go of everything.
LEMMA DropShape ==
    ASSUME IInv, NEW d \in Daemons, DropSubscription(d)
    PROVE  /\ UNCHANGED <<log, next, acked>>
           /\ retry' \subseteq Sequence
           /\ mode' \in [Daemons -> {"off", "on", "stopping"}]
           /\ inbox' \in [Daemons -> Seq(Sequence)]
           /\ work' = [work EXCEPT ![d] = NoWork]
<1>1. <<>> \in Seq(Sequence)
  BY EmptySeq
<1>2. retry' \subseteq retry \cup InFlight(d)
  BY DEF DropSubscription
<1>3. mode' = [mode EXCEPT ![d] = "off"] /\ inbox' = [inbox EXCEPT ![d] = <<>>]
  BY DEF DropSubscription
<1> QED
  BY <1>1, <1>2, <1>3, InFlightIsLogged DEF IInv, DropSubscription

\* A save that is not awaited any more is one that was being made.
LEMMA LateShape ==
    ASSUME IInv, NewCopies, NEW d \in Daemons, HandlerFailsBeforeSave(d)
    PROVE  /\ late' \subseteq [order : Orders, copy : Document]
           /\ \A s \in late' : IsNew(s.copy)
<1>1. work[d] # NoWork /\ work[d].event \in Sequence /\ work[d].copy \in Document
  BY DEF HandlerFailsBeforeSave, IInv
<1>2. log[work[d].event] \in Events
  BY <1>1, ElementOfSeq DEF IInv, Sequence
<1>3. log[work[d].event].order \in Orders
  BY <1>2, EventShape
<1> QED
  BY <1>1, <1>3 DEF HandlerFailsBeforeSave, IInv, NewCopies

-----------------------------------------------------------------------------
(* The steps *)

Visible ==
    /\ IInv
    /\ NewCopies
    /\ HandledIsVisible
    /\ AckedOrderIsVisible

\* Work that is over or as it was keeps what is said of work.
LEMMA PublishStep ==
    ASSUME Visible, NEW e \in Events, Publish(e)
    PROVE  Visible'
<1> USE DEF Visible
<1>1. log \in Seq(Events) /\ Len(log) \in Nat
  BY DEF IInv
<1>2. /\ log' \in Seq(Events)
      /\ Len(log') = Len(log) + 1
      /\ \A i \in Sequence : log'[i] = log[i]
  BY <1>1, AppendProperties DEF Publish, Sequence
<1>3. Sequence \subseteq Sequence' /\ Sequence' = 1..(Len(log) + 1)
  BY <1>1, <1>2 DEF Sequence
<1>4. IInv'
  <2>1. \A s \in Seq(Sequence) : s \in Seq(Sequence')
    BY <1>3, SeqMonotonic
  <2>2. inbox' \in [Daemons -> Seq(Sequence')]
    BY <2>1 DEF Publish, IInv
  <2>3. /\ next' \in 1..(Len(log') + 1) /\ replay' \in 0..Len(log')
        /\ Len(log') <= MaxLog
    BY <1>1, <1>2, DenormalizerAssumption DEF Publish, subscription, IInv
  <2>4. \A d \in Daemons : work'[d] # NoWork =>
          work'[d] \in [event : Sequence', stage : {"read", "saved"}, copy : Document]
    BY <1>3 DEF Publish, IInv
  <2> QED
    BY <1>2, <1>3, <2>2, <2>3, <2>4 DEF Publish, subscription, IInv
<1>5. NewCopies'
  BY DEF Publish, NewCopies
<1>6. HandledIsVisible'
  <2>1. \A d \in Daemons : work[d] # NoWork => work[d].event \in Sequence
    BY DEF IInv
  <2> QED
    BY <1>2, <2>1 DEF Publish, HandledIsVisible
<1>7. AckedOrderIsVisible'
  BY <1>2 DEF Publish, subscription, AckedOrderIsVisible, IInv
<1> QED
  BY <1>4, <1>5, <1>6, <1>7

LEMMA RewindStep ==
    ASSUME Visible, NEW k \in 0..MaxLog, Rewind(k)
    PROVE  Visible'
<1> USE DEF Visible
<1>1. Len(log) \in Nat /\ MaxLog \in Nat
  BY DenormalizerAssumption DEF IInv
<1>2. k \in 0..Len(log)
  <2>1. 1..k \subseteq 1..Len(log)
    BY DEF Rewind, IInv, Sequence
  <2> QED
    BY <1>1, <2>1
<1>3. replay' \in 0..Len(log)
  <2>1. replay' = replay \/ replay' = next - 1
    <3>1. replay \in Int /\ next - 1 \in Int
      BY <1>1 DEF IInv
    <3>2. \E x \in {replay, next - 1} : \A y \in {replay, next - 1} : x >= y
      BY <3>1
    <3>3. Max({replay, next - 1}) \in {replay, next - 1}
      BY <3>2 DEF Max
    <3> QED
      BY <3>3 DEF Rewind
  <2> QED
    BY <1>1, <2>1 DEF IInv
<1>4. <<>> \in Seq(Sequence)
  BY EmptySeq
<1>5. IInv'
  <2>1. acked' \subseteq Sequence /\ next' \in 1..(Len(log) + 1)
    BY <1>1, <1>2 DEF Rewind, Sequence
  <2>2. inbox' \in [Daemons -> Seq(Sequence)] /\ mode' \in [Daemons -> {"off", "on", "stopping"}]
    BY <1>4 DEF Rewind
  <2>3. budget' \in 0..MaxFaults
    BY DenormalizerAssumption DEF Rewind, Fault, IInv
  <2> QED
    BY <1>3, <2>1, <2>2, <2>3 DEF Rewind, IInv, Sequence
<1>6. NewCopies' /\ HandledIsVisible'
  BY DEF Rewind, NewCopies, HandledIsVisible
<1>7. AckedOrderIsVisible'
  BY DEF Rewind, AckedOrderIsVisible
<1> QED
  BY <1>5, <1>6, <1>7

LEMMA LateSaveStep ==
    ASSUME Visible, NEW s \in late, LateSave(s)
    PROVE  Visible'
<1> USE DEF Visible
<1>1. s.order \in Orders /\ s.copy \in Document /\ IsNew(s.copy)
  BY DEF IInv, NewCopies
<1>2. /\ doc' \in [Orders -> Stored \cup {Absent}]
      /\ \A p \in Orders : doc[p] # Absent => doc'[p] # Absent
  BY <1>1, SaveShape DEF LateSave, IInv
<1>3. IInv' /\ NewCopies'
  BY <1>2 DEF LateSave, subscription, IInv, Sequence, NewCopies
<1>4. \A i \in Sequence : log[i].order \in Orders
  BY EventShape, ElementOfSeq DEF IInv, Sequence
<1>5. HandledIsVisible'
  BY <1>2, <1>4 DEF LateSave, HandledIsVisible, IInv
<1>6. AckedOrderIsVisible'
  BY <1>2, <1>4 DEF LateSave, subscription, AckedOrderIsVisible, IInv
<1> QED
  BY <1>3, <1>5, <1>6

\* Steps of a daemon that keep the documents and what was acknowledged, and its
\* work unless it is over.
LEMMA QuietStep ==
    ASSUME Visible, UNCHANGED <<log, acked, doc>>, IInv',
           NEW d \in Daemons, work' = work \/ work' = [work EXCEPT ![d] = NoWork],
           late' = late \/ HandlerFailsBeforeSave(d)
    PROVE  Visible'
<1> USE DEF Visible
<1>1. \A c \in Daemons : work'[c] # NoWork => work'[c] = work[c]
  BY DEF IInv
<1>2. NewCopies'
  BY <1>1, LateShape DEF NewCopies
<1>3. HandledIsVisible'
  BY <1>1 DEF HandledIsVisible
<1>4. AckedOrderIsVisible'
  BY DEF AckedOrderIsVisible
<1> QED
  BY <1>2, <1>3, <1>4

LEMMA BeginStep ==
    ASSUME Visible, NEW d \in Daemons, BeginHandling(d)
    PROVE  Visible'
<1> USE DEF Visible
<1> DEFINE i == Head(inbox[d])
           e == log[i]
           new == [event |-> i, stage |-> "read", copy |-> Handled(e, doc[e.order])]
<1>1. inbox[d] \in Seq(Sequence) /\ inbox[d] # <<>>
  BY DEF BeginHandling, IInv
<1>2. i \in Sequence /\ Tail(inbox[d]) \in Seq(Sequence)
  BY <1>1, HeadTailProperties
<1>3. e \in Events /\ e.order \in Orders
  BY <1>2, EventShape, ElementOfSeq DEF IInv, Sequence
<1>4. /\ Handled(e, doc[e.order]) \in Document
      /\ IsNew(Handled(e, doc[e.order]))
      /\ e.field = "order" /\ Handled(e, doc[e.order]).version > 0 => doc[e.order] # Absent
  BY <1>3, HandledIsDocument DEF IInv
<1>5. /\ work' = [work EXCEPT ![d] = new]
      /\ inbox' = [inbox EXCEPT ![d] = Tail(inbox[d])]
      /\ UNCHANGED <<log, subscription, mode, doc, late, budget, replay>>
  BY DEF BeginHandling
<1>6. /\ new \in [event : Sequence, stage : {"read", "saved"}, copy : Document]
      /\ new.event = i /\ new.stage = "read" /\ new.copy = Handled(e, doc[e.order])
  BY <1>2, <1>4
<1> HIDE DEF new
<1>7. IInv'
  BY <1>2, <1>5, <1>6 DEF IInv, Sequence, subscription
<1>8. NewCopies'
  BY <1>4, <1>5, <1>6 DEF NewCopies, IInv
<1>9. HandledIsVisible'
  BY <1>4, <1>5, <1>6 DEF HandledIsVisible, IInv
<1>10. AckedOrderIsVisible'
  BY <1>5 DEF AckedOrderIsVisible, subscription
<1> QED
  BY <1>7, <1>8, <1>9, <1>10

LEMMA SaveStep ==
    ASSUME Visible, NEW d \in Daemons, SaveWork(d)
    PROVE  Visible'
<1> USE DEF Visible
<1> DEFINE e == log[work[d].event]
<1>1. /\ work[d] # NoWork
      /\ work[d] \in [event : Sequence, stage : {"read", "saved"}, copy : Document]
      /\ IsNew(work[d].copy)
  BY DEF SaveWork, IInv, NewCopies
<1>2. \A i \in Sequence : log[i].order \in Orders
  BY EventShape, ElementOfSeq DEF IInv, Sequence
<1>3. /\ doc' \in [Orders -> Stored \cup {Absent}]
      /\ \A p \in Orders : doc[p] # Absent => doc'[p] # Absent
      /\ work[d].copy.version = 0 => doc'[e.order] # Absent
  BY <1>1, <1>2, SaveShape DEF SaveWork, IInv
<1>4. work' = [work EXCEPT ![d] = [work[d] EXCEPT !.stage = "saved"]]
  BY DEF SaveWork
<1> DEFINE new == [work[d] EXCEPT !.stage = "saved"]
<1>5. /\ new \in [event : Sequence, stage : {"read", "saved"}, copy : Document]
      /\ new.event = work[d].event /\ new.copy = work[d].copy
  BY <1>1
<1>6. work' = [work EXCEPT ![d] = new]
  BY <1>4
<1> HIDE DEF new
<1>7. IInv'
  BY <1>3, <1>5, <1>6 DEF SaveWork, IInv, Sequence, subscription
<1>8. NewCopies'
  BY <1>1, <1>5, <1>6 DEF SaveWork, NewCopies, IInv
<1>9. HandledIsVisible'
  <2> SUFFICES ASSUME NEW c \in Daemons, work'[c] # NoWork,
                      log'[work'[c].event].field = "order",
                      work'[c].stage = "saved" \/ work'[c].copy.version > 0
               PROVE  doc'[log'[work'[c].event].order] # Absent
    BY DEF HandledIsVisible
  <2>1. log' = log
    BY DEF SaveWork
  <2>2. CASE c = d
    <3>1. work'[c] = new
      BY <1>6, <2>2 DEF IInv
    <3>2. work[d].copy.version \in Nat
      BY <1>1 DEF Document
    <3>3. CASE work[d].copy.version = 0
      BY <1>3, <1>5, <2>1, <3>1, <3>3
    <3>4. CASE work[d].copy.version > 0
      BY <1>1, <1>2, <1>3, <1>5, <2>1, <2>2, <3>1, <3>4 DEF HandledIsVisible
    <3> QED
      BY <3>2, <3>3, <3>4
  <2>3. CASE c # d
    <3>1. work'[c] = work[c]
      BY <1>6, <2>3 DEF IInv
    <3> QED
      BY <1>2, <1>3, <2>1, <3>1 DEF HandledIsVisible, IInv
  <2> QED
    BY <2>2, <2>3
<1>10. AckedOrderIsVisible'
  BY <1>2, <1>3 DEF SaveWork, AckedOrderIsVisible, subscription, IInv
<1> QED
  BY <1>7, <1>8, <1>9, <1>10

LEMMA AcknowledgeStep ==
    ASSUME Visible, NEW d \in Daemons, Acknowledge(d)
    PROVE  Visible'
<1> USE DEF Visible
<1>1. work[d] # NoWork /\ work[d].stage = "saved" /\ work[d].event \in Sequence
  BY DEF Acknowledge, IInv
<1>2. \A c \in Daemons : work'[c] # NoWork => work'[c] = work[c]
  BY DEF Acknowledge, IInv
<1>3. IInv'
  BY <1>1 DEF Acknowledge, IInv, Sequence
<1>4. NewCopies' /\ HandledIsVisible'
  BY <1>2 DEF Acknowledge, NewCopies, HandledIsVisible
<1>5. AckedOrderIsVisible'
  BY <1>1 DEF Acknowledge, AckedOrderIsVisible, HandledIsVisible
<1> QED
  BY <1>3, <1>4, <1>5

\* The other steps of a daemon are quiet.
LEMMA OtherSteps ==
    ASSUME Visible, NEW d \in Daemons,
           \/ Start(d) \/ Deliver(d) \/ Lapse(d) \/ HandlerFails(d)
           \/ HandlerFailsBeforeSave(d) \/ Stop(d) \/ Stopped(d) \/ Crash(d)
           \/ \E i \in 1..MaxLog : Timeout(d, i)
    PROVE  Visible'
<1>1. IInv /\ NewCopies
  BY DEF Visible
<1>2. Len(log) \in Nat /\ next \in Nat
  BY <1>1 DEF IInv
<1>3. CASE Start(d)
  <2>1. IInv'
    BY <1>1, <1>3 DEF Start, IInv, Sequence, subscription
  <2> QED
    BY <1>3, <2>1, QuietStep DEF Start, subscription
<1>4. CASE Deliver(d)
  <2> DEFINE i == IF retry = {} THEN next ELSE Min(retry)
  <2>1. i \in Sequence
    <3>1. CASE retry = {}
      BY <1>1, <1>2, <1>4, <3>1 DEF Deliver, IInv, Sequence
    <3>2. CASE retry # {}
      <4>1. retry \in SUBSET Nat
        BY <1>1, <1>2 DEF IInv, Sequence
      <4> QED
        BY <1>1, <3>2, <4>1, MinIsMember DEF IInv
    <3> QED
      BY <3>1, <3>2
  <2>2. inbox[d] \in Seq(Sequence)
    BY <1>1 DEF IInv
  <2>3. Append(inbox[d], i) \in Seq(Sequence)
    BY <2>1, <2>2, AppendProperties
  <2>4. inbox' = [inbox EXCEPT ![d] = Append(inbox[d], i)]
    BY <1>4 DEF Deliver
  <2>5. next' \in 1..(Len(log) + 1) /\ retry' \subseteq Sequence
    BY <1>1, <1>2, <1>4 DEF Deliver, IInv
  <2> HIDE DEF i
  <2>6. IInv'
    BY <1>1, <1>4, <2>3, <2>4, <2>5 DEF Deliver, IInv, Sequence
  <2> QED
    BY <1>4, <2>6, QuietStep DEF Deliver
<1>5. CASE Lapse(d)
  <2>1. IInv'
    BY <1>1, <1>5 DEF Lapse, IInv, Sequence, subscription
  <2> QED
    BY <1>5, <2>1, QuietStep DEF Lapse, subscription
<1>6. ASSUME DropSubscription(d), doc' = doc, budget' \in 0..MaxFaults, replay' = replay,
             late' = late \/ HandlerFailsBeforeSave(d)
      PROVE  Visible'
  <2>1. late' \subseteq [order : Orders, copy : Document]
    BY <1>1, <1>6, LateShape DEF IInv
  <2>2. IInv'
    BY <1>1, <1>6, <2>1, DropShape DEF IInv, Sequence
  <2> QED
    BY <1>1, <1>6, <2>2, DropShape, QuietStep
<1>7. ASSUME NEW kind, Fault(kind) PROVE budget' \in 0..MaxFaults
  BY <1>1, <1>7, DenormalizerAssumption DEF Fault, IInv
<1>8. CASE HandlerFails(d) \/ Stopped(d)
  BY <1>1, <1>6, <1>8 DEF HandlerFails, Stopped, IInv
<1>9. CASE HandlerFailsBeforeSave(d)
  BY <1>6, <1>7, <1>9 DEF HandlerFailsBeforeSave
<1>10. CASE Crash(d)
  BY <1>6, <1>7, <1>10 DEF Crash
<1>11. CASE Stop(d)
  <2>1. budget' \in 0..MaxFaults
    BY <1>7, <1>11 DEF Stop
  <2>2. IInv'
    BY <1>1, <1>11, <2>1 DEF Stop, IInv, Sequence, subscription
  <2> QED
    BY <1>11, <2>2, QuietStep DEF Stop, subscription
<1>12. ASSUME NEW i \in 1..MaxLog, Timeout(d, i) PROVE Visible'
  <2>1. budget' \in 0..MaxFaults
    BY <1>7, <1>12 DEF Timeout
  <2>2. IInv'
    BY <1>1, <1>12, <2>1, InFlightIsLogged DEF Timeout, IInv, Sequence
  <2> QED
    BY <1>12, <2>2, QuietStep DEF Timeout
<1> QED
  BY <1>3, <1>4, <1>5, <1>8, <1>9, <1>10, <1>11, <1>12

\* Every step.
LEMMA NextVisible ==
    ASSUME Visible, [Next]_vars
    PROVE  Visible'
<1>1. CASE UNCHANGED vars
  BY <1>1 DEF vars, subscription, Visible, IInv, Sequence, NewCopies, HandledIsVisible,
     AckedOrderIsVisible
<1> QED
  BY <1>1, PublishStep, RewindStep, LateSaveStep, BeginStep, SaveStep, AcknowledgeStep,
     OtherSteps DEF Next, DaemonStep

\* However many daemons there are and whatever fails, copies, saves and documents stay
\* what they are said to be, and what was acknowledged is visible.
THEOREM Invariance == Spec => []Visible
<1>1. Init => Visible
  <2> SUFFICES ASSUME Init PROVE Visible
    OBVIOUS
  <2>1. /\ log = <<>> /\ Len(log) = 0 /\ log \in Seq(Events)
        /\ <<>> \in Seq(Sequence)
    BY EmptySeq DEF Init
  <2>2. IInv
    BY <2>1, DenormalizerAssumption DEF Init, IInv, Sequence
  <2> QED
    BY <2>2 DEF Init, Visible, NewCopies, HandledIsVisible, AckedOrderIsVisible
<1> QED
  BY <1>1, NextVisible, PTL DEF Spec

-----------------------------------------------------------------------------
\* Events, subscriptions, copies and documents keep their types.
THEOREM TypeCorrect == Spec => []TypeOK
<1>1. Visible => TypeOK
  <2> SUFFICES ASSUME IInv PROVE TypeOK
    BY DEF Visible
  <2>1. Len(log) \in Nat /\ MaxLog \in Nat
    BY DenormalizerAssumption DEF IInv
  <2>2. Sequence \subseteq 1..MaxLog
    BY <2>1 DEF IInv, Sequence
  <2>3. \A s \in Seq(Sequence) : s \in Seq(1..MaxLog)
    BY <2>2, SeqMonotonic
  <2>4. next \in 1..(MaxLog + 1) /\ replay \in 0..MaxLog
    BY <2>1 DEF IInv
  <2>5. \A d \in Daemons : work[d] # NoWork => work[d] \in Work
    BY <2>2 DEF IInv, Work
  <2>6. \A o \in Orders : doc[o] # Absent => doc[o] \in Document /\ doc[o].version > 0
    BY DEF IInv, Stored
  <2> QED
    BY <2>2, <2>3, <2>4, <2>5, <2>6 DEF TypeOK, IInv
<1> QED
  BY <1>1, Invariance, PTL

\* Whatever overlaps, is repeated, lost or late: an order whose OrderAdded was
\* acknowledged has a document.
THEOREM AckedOrdersAreVisible == Spec => []AckedOrderIsVisible
<1>1. Visible => AckedOrderIsVisible
  BY DEF Visible
<1> QED
  BY <1>1, Invariance, PTL

\* ... and a document comes into being only as an OrderAdded describes it.
THEOREM OnlyOrderAddedCreates == Spec => CreatedByOrderAdded
<1>1. Visible /\ [Next]_vars
      => [\A o \in Orders : doc[o] = Absent /\ doc'[o] # Absent =>
             doc'[o] = [version |-> 1, addressed |-> TRUE, contents |-> NewOrder]]_vars
  <2> SUFFICES ASSUME Visible, Next, NEW o \in Orders, doc[o] = Absent, doc'[o] # Absent
               PROVE  doc'[o] = [version |-> 1, addressed |-> TRUE, contents |-> NewOrder]
    OBVIOUS
  <2>1. IInv /\ NewCopies
    BY DEF Visible
  <2>2. ASSUME NEW s \in late, LateSave(s)
        PROVE  doc'[o] = [version |-> 1, addressed |-> TRUE, contents |-> NewOrder]
    <3>1. s.order \in Orders /\ s.copy \in Document /\ IsNew(s.copy)
      BY <2>1 DEF IInv, NewCopies
    <3> QED
      BY <2>1, <2>2, <3>1, SaveShape DEF LateSave, IInv
  <2>3. ASSUME NEW d \in Daemons, SaveWork(d)
        PROVE  doc'[o] = [version |-> 1, addressed |-> TRUE, contents |-> NewOrder]
    <3>1. work[d].event \in Sequence /\ work[d].copy \in Document /\ IsNew(work[d].copy)
      BY <2>1, <2>3 DEF SaveWork, IInv, NewCopies
    <3>2. log[work[d].event].order \in Orders
      BY <2>1, <3>1, EventShape, ElementOfSeq DEF IInv, Sequence
    <3> QED
      BY <2>1, <2>3, <3>1, <3>2, SaveShape DEF SaveWork, IInv
  <2>4. ASSUME doc' = doc PROVE FALSE
    BY <2>4
  <2>5. ASSUME NEW d \in Daemons, DaemonStep(d), ~SaveWork(d) PROVE doc' = doc
    BY <2>5 DEF DaemonStep, Start, Deliver, BeginHandling, Acknowledge, Lapse, HandlerFails,
       HandlerFailsBeforeSave, Stop, Stopped, Crash, Timeout
  <2> QED
    BY <2>2, <2>3, <2>4, <2>5 DEF Next, Publish, Rewind
<1> QED
  BY <1>1, Invariance, PTL DEF Spec, CreatedByOrderAdded

-----------------------------------------------------------------------------
(* One daemon, and faults that leave no save behind: the documents show the *)
(* history.                                                                 *)

OneDaemon(d) == Daemons = {d} /\ Faults \subseteq {"stop", "crash", "rewind"}

Count == Cardinality(acked)

\* The last event that d has begun, or acknowledged.
LastBegun(d) == IF work[d] = NoWork THEN Count ELSE Count + 1

\* d holds the events after those acknowledged; the others are to be sent.
InOrder(d) ==
    /\ acked = 1..Count /\ Count \in Nat
    /\ Count < next
    /\ IF mode[d] = "off"
       THEN inbox[d] = <<>> /\ retry = (Count + 1)..(next - 1)
       ELSE /\ work[d] # NoWork => work[d].event = Count + 1
            /\ \A j \in 1..Len(inbox[d]) : inbox[d][j] = LastBegun(d) + j
            /\ LastBegun(d) + Len(inbox[d]) < next
            /\ retry = (LastBegun(d) + Len(inbox[d]) + 1)..(next - 1)

\* The moments that a field of a document can be from.
Moments == {n \in Count..Len(log) : n <= replay \/ (n <= Count + 1 /\ n < next)}

\* What d is saving was made of the document as it is; what it has saved is there.
\* A handler that runs on after its subscription is over repeats an event.
Working(d) ==
    LET i == work[d].event
        e == log[i]
    IN  (work[d] # NoWork) =>
          /\ i \in Moments /\ i > Count
          /\ mode[d] = "off" => i <= replay
          /\ IF work[d].stage = "read"
             THEN /\ work[d].copy = Handled(e, doc[e.order])
                  /\ e.field # "order" => doc[e.order] # Absent
             ELSE mode[d] # "off" =>
                  /\ doc[e.order] # Absent
                  /\ e.field # "order" => doc[e.order].contents[e.field] = e.value

\* The first event of an order is its OrderAdded, and no other is.
FirstIsAdded ==
    \A i \in 1..Len(log) :
        (log[i].field = "order") <=> (\A j \in 1..(i - 1) : log[j].order # log[i].order)

\* Each field of the document of o is from one of these moments.
Between(o) ==
    IF doc[o] = Absent THEN ~Placed(o, Count)
    ELSE /\ doc[o].addressed
         /\ \E n \in Moments : Placed(o, n)
         /\ \A f \in Fields : \E n \in Moments : doc[o].contents[f] = Rebuilt(log, o, n)[f]

History(d) ==
    /\ Visible
    /\ InOrder(d)
    /\ Working(d)
    /\ FirstIsAdded
    /\ late = {}
    /\ \A o \in Orders : Between(o)

-----------------------------------------------------------------------------
(* Events and what their handlers do *)

LEMMA CountTo ==
    ASSUME NEW k \in Nat
    PROVE  Cardinality(1..k) = k
<1>1. Cardinality(1..k) = IF 1 > k THEN 0 ELSE k - 1 + 1
  BY FS_Interval
<1> QED
  BY <1>1

LEMMA Logged ==
    ASSUME Visible, NEW i \in 1..Len(log)
    PROVE  /\ log \in Seq(Events) /\ Len(log) \in Nat
           /\ log[i] \in Events /\ log[i].order \in Orders
           /\ log[i].field # "order" => log[i].field \in Fields
<1>1. log \in Seq(Events) /\ log[i] \in Events
  BY ElementOfSeq DEF Visible, IInv
<1> QED
  BY <1>1, EventShape DEF Fields

\* With an event of an order its OrderAdded is there.
LEMMA PlacedByAny ==
    ASSUME Visible, FirstIsAdded, NEW i \in 1..Len(log)
    PROVE  Placed(log[i].order, i)
<1> DEFINE T == {j \in 1..i : log[j].order = log[i].order}
<1>1. T \in SUBSET Nat /\ i \in T
  OBVIOUS
<1>2. PICK x \in T : \A y \in T : x <= y
  <2> HIDE DEF T
  <2> QED
    BY <1>1, SmallestExists
<1>3. x \in 1..Len(log) /\ \A j \in 1..(x - 1) : log[j].order # log[x].order
  BY <1>2 DEF Visible, IInv
<1>4. log[x].field = "order"
  BY <1>3 DEF FirstIsAdded
<1>5. log[x] = OrderAdded(log[x].order)
  BY <1>3, <1>4, Logged, EventShape, OrderAssumption
<1> QED
  BY <1>2, <1>5 DEF Placed

\* An OrderAdded is what comes first, and rebuilds a new order.
LEMMA AddedRebuildsNew ==
    ASSUME Visible, FirstIsAdded, NEW i \in 1..Len(log), log[i].field = "order"
    PROVE  /\ Rebuilt(log, log[i].order, i) = NewOrder
           /\ Rebuilt(log, log[i].order, i - 1) = NewOrder
<1>1. log \in Seq(Events) /\ Len(log) \in Nat
  BY Logged
<1>2. \A j \in 1..(i - 1) : log[j].order # log[i].order
  BY DEF FirstIsAdded
<1>3. Rebuilt(log, log[i].order, i - 1) = NewOrder
  BY <1>1, <1>2, OthersRebuildNothing
<1>4. Rebuilt(log, log[i].order, i) = Apply(Rebuilt(log, log[i].order, i - 1), log[i])
  BY <1>1, RebuiltNext
<1> QED
  BY <1>3, <1>4 DEF Apply

\* A handler sets the field that its event names; OrderAdded's sets the others
\* to what they are in a new order, but not the status.
LEMMA HandledField ==
    ASSUME NEW e \in Events, NEW old \in Stored \cup {Absent},
           e.field # "order" => old # Absent
    PROVE  /\ Handled(e, old).addressed = (e.field = "order" \/ old.addressed)
           /\ \A f \in Fields : Handled(e, old).contents[f] =
                 IF e.field = "order"
                 THEN IF f = "status" /\ old # Absent THEN old.contents[f] ELSE NewOrder[f]
                 ELSE IF f = e.field THEN e.value ELSE old.contents[f]
<1>1. CASE e.field = "order" /\ old = Absent
  BY <1>1, OrderAssumption DEF Handled, HandledOrderAdded
<1>2. CASE e.field = "order" /\ old # Absent
  <2>1. Handled(e, old).addressed = TRUE
    BY <1>2 DEF Handled, HandledOrderAdded
  <2>2. Handled(e, old).contents = [NewOrder EXCEPT !["status"] = old.contents["status"]]
    BY <1>2 DEF Handled, HandledOrderAdded
  <2> QED
    BY <1>2, <2>1, <2>2 DEF NewOrder, Fields
<1>3. CASE e.field # "order"
  <2>1. old \in Document
    BY <1>3 DEF Stored
  <2>2. Handled(e, old) = [old EXCEPT !.contents = Apply(old.contents, e)]
    BY <1>3 DEF Handled, HandledUpdate
  <2>3. old.addressed \in BOOLEAN /\ old.contents \in Contents
    BY <2>1 DEF Document
  <2>4. Handled(e, old).addressed = old.addressed
    BY <2>1, <2>2 DEF Document
  <2>5. Handled(e, old).contents = [old.contents EXCEPT ![e.field] = e.value]
    BY <1>3, <2>1, <2>2 DEF Document, Apply
  <2> QED
    BY <1>3, <2>3, <2>4, <2>5 DEF Contents
<1> QED
  BY <1>1, <1>2, <1>3

Bumped(copy) == [copy EXCEPT !.version = @ + 1]

\* What is saved is the copy, at the next version.
LEMMA BumpedShape ==
    ASSUME NEW c \in Document
    PROVE  /\ Bumped(c) \in Stored /\ Bumped(c) # Absent
           /\ Bumped(c).addressed = c.addressed
           /\ Bumped(c).contents = c.contents
BY AbsentAssumption DEF Bumped, Document, Stored

\* The save that a handler makes goes through.
LEMMA SaveGoesThrough ==
    ASSUME NEW d, History(d), d \in Daemons, SaveWork(d)
    PROVE  LET e == log[work[d].event]
               old == doc[e.order]
           IN  /\ work[d].event \in 1..Len(log)
               /\ work[d].event \in Moments /\ work[d].event > Count
               /\ e \in Events /\ e.order \in Orders
               /\ old \in Stored \cup {Absent}
               /\ e.field # "order" => old # Absent
               /\ Handled(e, old) \in Document
               /\ doc' = [doc EXCEPT ![e.order] = Bumped(Handled(e, old))]
<1> DEFINE i == work[d].event
           e == log[i]
           old == doc[e.order]
<1>1. IInv
  BY DEF History, Visible
<1>2. /\ work[d] # NoWork /\ work[d].stage = "read" /\ i \in 1..Len(log)
      /\ i \in Moments /\ i > Count
      /\ work[d].copy = Handled(e, old)
      /\ e.field # "order" => old # Absent
  BY <1>1 DEF SaveWork, History, Working, IInv, Sequence
<1>3. e \in Events /\ e.order \in Orders
  BY <1>2, Logged DEF History
<1>4. old \in Stored \cup {Absent}
  BY <1>1, <1>3 DEF IInv
<1>5. Handled(e, old) \in Document /\ IsNew(Handled(e, old))
  BY <1>3, <1>4, HandledIsDocument
<1>6. old = Absent => Handled(e, old).version = 0
  BY <1>2 DEF Handled, HandledOrderAdded
<1>7. Save(e.order, Handled(e, old))
  BY <1>2 DEF SaveWork
<1>8. ~(Handled(e, old).version > 0 /\ doc[e.order] = Absent)
  BY <1>6
<1>9. doc' = [doc EXCEPT ![e.order] = Bumped(Handled(e, old))]
  <2> HIDE DEF e, old
  <2> QED
    BY <1>7, <1>8, Zenon DEF Save, Bumped
<1> QED
  BY <1>2, <1>3, <1>4, <1>5, <1>9

-----------------------------------------------------------------------------
(* The documents stay between the moments *)

LEMMA HeldIsTyped ==
    ASSUME Visible, NEW d \in Daemons
    PROVE  /\ log \in Seq(Events) /\ Len(log) \in Nat
           /\ next \in 1..(Len(log) + 1) /\ replay \in 0..Len(log)
           /\ inbox[d] \in Seq(1..Len(log)) /\ Len(inbox[d]) \in Nat
           /\ work[d] # NoWork => /\ work[d].event \in 1..Len(log)
                                  /\ work[d].stage \in {"read", "saved"}
           /\ doc \in [Orders -> Stored \cup {Absent}]
BY DEF Visible, IInv, Sequence

\* A document that stays as it is stays between moments when there are more.
LEMMA BetweenMore ==
    ASSUME \A o \in Orders : Between(o), UNCHANGED <<log, doc>>,
           Count \in Nat, Count' \in Nat, Count' <= Count, Moments \subseteq Moments'
    PROVE  \A o \in Orders : Between(o)'
BY DEF Between, Placed

LEMMA PublishBetween ==
    ASSUME NEW d \in Daemons, History(d), NEW e \in Events, Publish(e)
    PROVE  /\ FirstIsAdded' /\ Working(d)' /\ \A o \in Orders : Between(o)'
           /\ \A o \in Orders : \A n \in 0..Len(log) :
                 /\ Rebuilt(log', o, n) = Rebuilt(log, o, n)
                 /\ Placed(o, n)' <=> Placed(o, n)
<1>1. /\ log \in Seq(Events) /\ Len(log) \in Nat
      /\ work[d] # NoWork => work[d].event \in 1..Len(log)
  BY HeldIsTyped DEF History
<1>2. /\ log' \in Seq(Events)
      /\ Len(log') = Len(log) + 1
      /\ \A i \in 1..Len(log) : log'[i] = log[i]
      /\ log'[Len(log) + 1] = e
  BY <1>1, AppendProperties DEF Publish
<1>3. ASSUME NEW o \in Orders, NEW n \in 0..Len(log)
      PROVE  Rebuilt(log', o, n) = Rebuilt(log, o, n) /\ (Placed(o, n)' <=> Placed(o, n))
  <2>1. Rebuilt(log', o, n) = Rebuilt(log, o, n)
    BY <1>1, <1>2, BeginningsRebuild
  <2> QED
    BY <1>1, <1>2, <2>1 DEF Placed
<1>4. FirstIsAdded'
  <2>1. \A i \in 1..Len(log) :
           (log'[i].field = "order") <=> (\A j \in 1..(i - 1) : log'[j].order # log'[i].order)
    BY <1>1, <1>2 DEF History, FirstIsAdded
  <2>2. (e.field = "order") <=> (\A j \in 1..Len(log) : log[j].order # e.order)
    <3>1. DOMAIN log = 1..Len(log)
      BY <1>1
    <3>2. (e.field = "order") = (\A j \in DOMAIN log : log[j].order # e.order)
      BY DEF Publish
    <3> QED
      BY <3>1, <3>2
  <2> QED
    BY <1>1, <1>2, <2>1, <2>2 DEF FirstIsAdded
<1>5. Count' = Count /\ Moments \subseteq Moments'
  BY <1>1, <1>2 DEF Publish, subscription, Count, Moments
<1>6. Working(d)'
  BY <1>1, <1>2, <1>5 DEF Publish, subscription, History, Working
<1>7. ASSUME NEW o \in Orders PROVE Between(o)'
  <2>1. Between(o) /\ doc' = doc /\ Count \in Nat /\ Count <= Len(log)
    BY <1>1, HeldIsTyped DEF Publish, History, InOrder
  <2>2. \A n \in Moments : n \in 0..Len(log)
    BY <1>1, <2>1 DEF Moments
  <2>3. CASE doc[o] = Absent
    BY <1>3, <1>5, <2>1, <2>3 DEF Between
  <2>4. CASE doc[o] # Absent
    <3>1. \A n \in Moments : /\ n \in Moments'
                             /\ Rebuilt(log', o, n) = Rebuilt(log, o, n)
                             /\ Placed(o, n) => Placed(o, n)'
      BY <1>3, <1>5, <2>2
    <3> QED
      BY <2>1, <2>4, <3>1 DEF Between
  <2> QED
    BY <2>3, <2>4
<1> QED
  BY <1>3, <1>4, <1>6, <1>7

\* The event that is saved brings what it sets to its own moment.
LEMMA SaveBetween ==
    ASSUME NEW d \in Daemons, History(d), SaveWork(d)
    PROVE  Working(d)' /\ \A o \in Orders : Between(o)'
<1> DEFINE i == work[d].event
           e == log[i]
           old == doc[e.order]
<1>1. /\ i \in 1..Len(log) /\ i \in Moments /\ i > Count
      /\ e \in Events /\ e.order \in Orders
      /\ old \in Stored \cup {Absent}
      /\ e.field # "order" => old # Absent
      /\ Handled(e, old) \in Document
      /\ doc' = [doc EXCEPT ![e.order] = Bumped(Handled(e, old))]
  BY SaveGoesThrough
<1>2. UNCHANGED <<log, next, acked, replay, mode>> /\ Count' = Count /\ Moments' = Moments
  BY DEF SaveWork, subscription, Count, Moments
<1>3. /\ doc \in [Orders -> Stored \cup {Absent}]
      /\ log \in Seq(Events) /\ Len(log) \in Nat /\ replay \in 0..Len(log)
  BY HeldIsTyped DEF History
<1>4. /\ doc'[e.order] # Absent
      /\ doc'[e.order].addressed = (e.field = "order" \/ old.addressed)
      /\ \A f \in Fields : doc'[e.order].contents[f] =
            IF e.field = "order"
            THEN IF f = "status" /\ old # Absent THEN old.contents[f] ELSE NewOrder[f]
            ELSE IF f = e.field THEN e.value ELSE old.contents[f]
  <2>1. doc'[e.order] = Bumped(Handled(e, old))
    BY <1>1, <1>3
  <2>2. /\ Handled(e, old).addressed = (e.field = "order" \/ old.addressed)
        /\ \A f \in Fields : Handled(e, old).contents[f] =
              IF e.field = "order"
              THEN IF f = "status" /\ old # Absent THEN old.contents[f] ELSE NewOrder[f]
              ELSE IF f = e.field THEN e.value ELSE old.contents[f]
    BY <1>1, HandledField
  <2>3. Bumped(Handled(e, old)) # Absent
        /\ Bumped(Handled(e, old)).addressed = Handled(e, old).addressed
        /\ Bumped(Handled(e, old)).contents = Handled(e, old).contents
    BY <1>1, BumpedShape
  <2> HIDE DEF e, old
  <2> QED
    BY <2>1, <2>2, <2>3
<1>5. e.field # "order" => e.field \in Fields
  BY <1>1, Logged DEF History
<1>6. Working(d)'
  <2>1. /\ work[d] # NoWork
        /\ work' = [work EXCEPT ![d] = [work[d] EXCEPT !.stage = "saved"]]
    BY DEF SaveWork
  <2>2. work = [c \in Daemons |-> work[c]] /\ work[d] \in [event : Sequence, stage : {"read", "saved"}, copy : Document]
    BY <2>1 DEF History, Visible, IInv
  <2>3. work'[d].event = i /\ work'[d].stage = "saved"
    BY <2>1, <2>2
  <2>4. mode[d] = "off" => i <= replay
    BY <2>1 DEF History, Working
  <2> QED
    BY <1>1, <1>2, <1>4, <1>5, <2>3, <2>4 DEF Working
<1>7. ASSUME NEW o \in Orders PROVE Between(o)'
  <2>1. CASE o # e.order
    <3>1. doc'[o] = doc[o]
      BY <1>1, <1>3, <2>1
    <3> QED
      BY <1>2, <3>1 DEF Between, Placed, History
  <2>2. CASE o = e.order
    <3>1. old # Absent => /\ old.addressed
                          /\ \A f \in Fields : \E n \in Moments :
                                old.contents[f] = Rebuilt(log, o, n)[f]
      BY <2>2 DEF History, Between
    <3>2. Placed(o, i)
      BY <1>1, <2>2, PlacedByAny DEF History
    <3>3. e.field = "order" => Rebuilt(log, o, i) = NewOrder
      BY <1>1, <2>2, AddedRebuildsNew DEF History
    <3>4. e.field # "order" => Rebuilt(log, o, i)[e.field] = e.value
      BY <1>1, <1>3, <1>5, <2>2, RebuiltField
    <3>5. \A f \in Fields : \E n \in Moments : doc'[o].contents[f] = Rebuilt(log, o, n)[f]
      <4> SUFFICES ASSUME NEW f \in Fields
                   PROVE  \E n \in Moments : doc'[o].contents[f] = Rebuilt(log, o, n)[f]
        OBVIOUS
      <4> HIDE DEF i, e, old
      <4> QED
        BY <1>1, <1>4, <2>2, <3>1, <3>3, <3>4
    <3>6. doc'[o] # Absent /\ doc'[o].addressed
      BY <1>1, <1>4, <2>2, <3>1
    <3> QED
      BY <1>1, <1>2, <3>2, <3>5, <3>6 DEF Between, Placed
  <2> QED
    BY <2>1, <2>2
<1> QED
  BY <1>6, <1>7

\* A document between moments, once the next event is done with.
LEMMA AcknowledgeBetween ==
    ASSUME NEW d \in Daemons, History(d), Acknowledge(d)
    PROVE  /\ Count' = Count + 1 /\ acked' = 1..Count'
           /\ \A o \in Orders : Between(o)'
<1> DEFINE i == Count + 1
           e == log[i]
<1>1. /\ log \in Seq(Events) /\ Len(log) \in Nat /\ next \in 1..(Len(log) + 1)
      /\ replay \in 0..Len(log)
  BY HeldIsTyped DEF History
<1>2. /\ Count \in Nat /\ acked = 1..Count
      /\ mode[d] = "on" /\ work[d] # NoWork /\ work[d].stage = "saved"
      /\ work[d].event = i /\ i \in Moments
  BY DEF History, InOrder, Working, Acknowledge
<1>3. /\ doc[e.order] # Absent
      /\ e.field # "order" => doc[e.order].contents[e.field] = e.value
  BY <1>2 DEF History, Working
<1>4. acked' = 1..i
  BY <1>2 DEF Acknowledge
<1>5. Count' = i
  BY <1>2, <1>4, CountTo DEF Count
<1>6. i \in 1..Len(log) /\ i < next
  <2>1. Len(inbox[d]) \in Nat
    BY HeldIsTyped DEF History
  <2>2. LastBegun(d) = i
    BY <1>2 DEF LastBegun
  <2>3. LastBegun(d) + Len(inbox[d]) < next
    BY <1>2 DEF History, InOrder
  <2>4. i + Len(inbox[d]) < next
    BY <2>2, <2>3
  <2>5. i \in Nat /\ i > 0
    BY <1>2
  <2> HIDE DEF i
  <2> QED
    BY <1>1, <2>1, <2>4, <2>5
<1>7. UNCHANGED <<log, next, replay, doc>>
  BY DEF Acknowledge
<1>8. i \in Moments' /\ \A n \in Moments : n = Count \/ n \in Moments'
  BY <1>1, <1>2, <1>5, <1>6, <1>7 DEF Moments
<1>9. e \in Events /\ (e.field # "order" => e.field \in Fields)
  BY <1>6, Logged DEF History
<1>10. ASSUME NEW o \in Orders PROVE Between(o)'
  <2>1. Between(o)
    BY DEF History
  <2>2. CASE doc[o] = Absent
    <3>1. e # OrderAdded(o)
      BY <1>3, <2>2 DEF OrderAdded
    <3> QED
      BY <1>2, <1>5, <1>7, <2>1, <2>2, <3>1 DEF Between, Placed
  <2>3. CASE doc[o] # Absent
    <3>1. \E n \in Moments' : Placed(o, n)'
      BY <1>2, <1>7, <1>8, <2>1, <2>3 DEF Between, Placed
    <3>2. ASSUME NEW f \in Fields
          PROVE  \E n \in Moments' : doc[o].contents[f] = Rebuilt(log, o, n)[f]
      <4>1. PICK n \in Moments : doc[o].contents[f] = Rebuilt(log, o, n)[f]
        BY <2>1, <2>3 DEF Between
      <4>2. CASE e.order = o /\ e.field = f
        <5>1. Rebuilt(log, o, i)[f] = e.value
          BY <1>1, <1>6, <4>2, RebuiltField
        <5>2. f # "order"
          BY OrderAssumption DEF Fields
        <5> QED
          BY <1>3, <1>8, <4>2, <5>1, <5>2
      <4>3. CASE ~(e.order = o /\ e.field = f)
        <5>1. Rebuilt(log, o, i)[f] = Rebuilt(log, o, i - 1)[f]
          BY <1>1, <1>6, <4>3, RebuiltField
        <5>2. i - 1 = Count
          BY <1>2
        <5> HIDE DEF i
        <5> QED
          BY <1>8, <4>1, <5>1, <5>2
      <4> QED
        BY <4>2, <4>3
    <3> QED
      BY <1>7, <2>1, <2>3, <3>1, <3>2 DEF Between
  <2> QED
    BY <2>2, <2>3
<1> QED
  BY <1>4, <1>5, <1>10

-----------------------------------------------------------------------------
(* The daemon takes the events in order *)

LEMMA IsWork ==
    ASSUME Visible, NEW w \in [event : Sequence, stage : {"read", "saved"}, copy : Document]
    PROVE  w # NoWork
<1>1. Len(log) \in Nat /\ Len(log) <= MaxLog /\ MaxLog \in Nat
  BY DenormalizerAssumption DEF Visible, IInv
<1> QED
  BY <1>1, NoWorkAssumption DEF Work, Sequence

LEMMA RewindHistory ==
    ASSUME NEW d \in Daemons, History(d), NEW k \in 0..MaxLog, Rewind(k)
    PROVE  /\ InOrder(d)' /\ Working(d)' /\ \A o \in Orders : Between(o)'
           /\ Count' = k /\ k <= Count
           /\ replay' >= replay /\ replay' >= next - 1 /\ replay' \in {replay, next - 1}
<1>1. /\ Len(log) \in Nat /\ next \in 1..(Len(log) + 1) /\ replay \in 0..Len(log)
      /\ Count \in Nat /\ acked = 1..Count /\ Count < next
  BY HeldIsTyped DEF History, InOrder
<1>2. k \in Nat /\ k <= Count
  <2>1. k \in Nat /\ 1..k \subseteq 1..Count
    BY <1>1, DenormalizerAssumption DEF Rewind
  <2> QED
    BY <1>1, <2>1
<1>3. acked' = 1..k /\ Count' = k
  BY <1>2, CountTo DEF Rewind, Count
<1>4. replay' >= replay /\ replay' >= next - 1 /\ replay' \in {replay, next - 1}
  <2>1. replay \in Int /\ next - 1 \in Int
    BY <1>1
  <2>2. \E x \in {replay, next - 1} : \A y \in {replay, next - 1} : x >= y
    BY <2>1
  <2> QED
    BY <2>2 DEF Rewind, Max
<1>5. /\ next' = k + 1 /\ retry' = {} /\ mode'[d] = "off" /\ inbox'[d] = <<>>
      /\ UNCHANGED <<log, work, doc>>
  BY DEF Rewind
<1>6. InOrder(d)'
  BY <1>2, <1>3, <1>5 DEF InOrder
<1>7. \A n \in Moments : n \in Moments' /\ n <= replay'
  BY <1>1, <1>2, <1>3, <1>4, <1>5 DEF Moments
<1>8. Working(d)'
  <2> DEFINE i == work[d].event
  <2>1. work[d] # NoWork => i \in Moments /\ i > Count
    BY DEF History, Working
  <2>2. work[d] # NoWork => i \in Moments' /\ i > Count' /\ i <= replay'
    BY <1>1, <1>2, <1>3, <1>7, <2>1 DEF Moments
  <2> QED
    BY <1>5, <2>2 DEF History, Working
<1>9. \A o \in Orders : Between(o)'
  BY <1>1, <1>2, <1>3, <1>5, <1>7, BetweenMore DEF History
<1> QED
  BY <1>2, <1>3, <1>4, <1>6, <1>8, <1>9

LEMMA BeginHistory ==
    ASSUME NEW d \in Daemons, History(d), BeginHandling(d)
    PROVE  InOrder(d)' /\ Working(d)' /\ \A o \in Orders : Between(o)'
<1> DEFINE i == Head(inbox[d])
           e == log[i]
           new == [event |-> i, stage |-> "read", copy |-> Handled(e, doc[e.order])]
<1>1. /\ log \in Seq(Events) /\ Len(log) \in Nat
      /\ next \in 1..(Len(log) + 1) /\ replay \in 0..Len(log)
      /\ inbox[d] \in Seq(1..Len(log)) /\ Len(inbox[d]) \in Nat
      /\ doc \in [Orders -> Stored \cup {Absent}]
  BY HeldIsTyped DEF History
<1>2. /\ mode[d] = "on" /\ work[d] = NoWork /\ inbox[d] # <<>>
      /\ UNCHANGED <<log, next, retry, acked, mode, doc, late, replay>>
      /\ Count' = Count /\ Moments' = Moments
  BY DEF BeginHandling, subscription, Count, Moments
<1>3. /\ Count \in Nat /\ acked = 1..Count /\ LastBegun(d) = Count
      /\ \A j \in 1..Len(inbox[d]) : inbox[d][j] = Count + j
      /\ Count + Len(inbox[d]) < next
      /\ retry = (Count + Len(inbox[d]) + 1)..(next - 1)
  BY <1>2 DEF History, InOrder, LastBegun
<1>4. /\ Len(inbox[d]) > 0 /\ i = inbox[d][1]
      /\ Len(Tail(inbox[d])) = Len(inbox[d]) - 1
      /\ \A j \in 1..(Len(inbox[d]) - 1) : Tail(inbox[d])[j] = inbox[d][j + 1]
  BY <1>1, <1>2, HeadTailProperties, EmptySeq
<1>5. i = Count + 1 /\ i \in 1..Len(log)
  <2>1. i = Count + 1
    BY <1>1, <1>3, <1>4
  <2>2. inbox[d][1] \in 1..Len(log)
    BY <1>1, <1>4, ElementOfSeq
  <2> QED
    BY <1>4, <2>1, <2>2
<1>6. e \in Events /\ e.order \in Orders
  BY <1>5, Logged DEF History
<1>7. new \in [event : Sequence, stage : {"read", "saved"}, copy : Document]
  BY <1>1, <1>5, <1>6, HandledIsDocument DEF Sequence
<1>8. work'[d] = new /\ inbox'[d] = Tail(inbox[d])
  BY DEF BeginHandling, History, Visible, IInv
<1>9. work'[d] # NoWork
  BY <1>7, <1>8, IsWork DEF History
<1>10. /\ work'[d].event = i /\ work'[d].stage = "read"
       /\ work'[d].copy = Handled(e, doc[e.order])
  BY <1>8
<1>11. e.field # "order" => doc[e.order] # Absent
  <2>1. Placed(e.order, i)
    BY <1>5, PlacedByAny DEF History
  <2>2. e.field # "order" => Placed(e.order, Count)
    BY <1>3, <1>5, <2>1 DEF Placed, OrderAdded
  <2> QED
    BY <1>6, <2>2 DEF History, Between
<1> HIDE DEF new, e
<1>12. InOrder(d)'
  <2>1. LastBegun(d)' = Count + 1
    BY <1>2, <1>9 DEF LastBegun
  <2> DEFINE n == Len(inbox[d])
  <2>5. /\ Len(inbox'[d]) = n - 1 /\ n \in Nat
        /\ \A j \in 1..(n - 1) : inbox'[d][j] = inbox[d][j + 1]
        /\ \A j \in 1..n : inbox[d][j] = Count + j
    BY <1>1, <1>3, <1>4, <1>8
  <2>6. Count \in Nat
    BY <1>3
  <2> HIDE DEF n
  <2>2. ASSUME NEW j \in 1..Len(inbox'[d]) PROVE inbox'[d][j] = Count + 1 + j
    <3>1. j \in 1..(n - 1) /\ j + 1 \in 1..n
      BY <2>5
    <3>2. inbox'[d][j] = Count + (j + 1)
      BY <2>5, <3>1
    <3> QED
      BY <2>6, <3>1, <3>2
  <2>3. Count + 1 + Len(inbox'[d]) = Count + n
    BY <2>5, <2>6
  <2>4. Count < next
    BY DEF History, InOrder
  <2> QED
    BY <1>2, <1>3, <1>5, <1>10, <2>1, <2>2, <2>3, <2>4 DEF InOrder, n
<1>13. Working(d)'
  <2>1. i \in Moments /\ i > Count
    BY <1>1, <1>3, <1>4, <1>5 DEF Moments
  <2> QED
    BY <1>2, <1>10, <1>11, <2>1 DEF Working, e
<1>14. \A o \in Orders : Between(o)'
  BY <1>2, <1>3, BetweenMore DEF History
<1> QED
  BY <1>12, <1>13, <1>14

LEMMA DeliverHistory ==
    ASSUME NEW d \in Daemons, History(d), Deliver(d)
    PROVE  InOrder(d)' /\ Working(d)' /\ \A o \in Orders : Between(o)'
<1> DEFINE i == IF retry = {} THEN next ELSE Min(retry)
           a == LastBegun(d) + Len(inbox[d])
<1>1. /\ log \in Seq(Events) /\ Len(log) \in Nat
      /\ next \in 1..(Len(log) + 1) /\ replay \in 0..Len(log)
      /\ inbox[d] \in Seq(1..Len(log)) /\ Len(inbox[d]) \in Nat
  BY HeldIsTyped DEF History
<1>2. /\ mode[d] = "on" /\ inbox'[d] = Append(inbox[d], i) /\ i <= Len(log)
      /\ UNCHANGED <<log, acked, mode, work, doc, late, replay>>
      /\ IF retry = {} THEN next' = next + 1 /\ retry' = retry
         ELSE retry' = retry \ {i} /\ next' = next
      /\ Count' = Count /\ LastBegun(d)' = LastBegun(d)
  BY DEF Deliver, History, Visible, IInv, Count, LastBegun
<1>3. /\ Count \in Nat /\ acked = 1..Count /\ LastBegun(d) \in Nat /\ a \in Nat
      /\ work[d] # NoWork => work[d].event = Count + 1
      /\ \A j \in 1..Len(inbox[d]) : inbox[d][j] = LastBegun(d) + j
      /\ a < next /\ retry = (a + 1)..(next - 1)
      /\ Count < next
  <2>1. /\ Count \in Nat /\ acked = 1..Count
        /\ work[d] # NoWork => work[d].event = Count + 1
        /\ \A j \in 1..Len(inbox[d]) : inbox[d][j] = LastBegun(d) + j
        /\ a < next /\ retry = (a + 1)..(next - 1)
        /\ Count < next
    BY <1>2 DEF History, InOrder
  <2>2. LastBegun(d) \in Nat
    BY <2>1 DEF LastBegun
  <2> QED
    BY <1>1, <2>1, <2>2
<1>4. i = a + 1 /\ (retry = {} => a + 1 = next)
  <2>1. CASE retry = {}
    <3>1. ~(a + 1 \in (a + 1)..(next - 1))
      BY <1>3, <2>1
    <3> HIDE DEF a
    <3> QED
      BY <1>1, <1>3, <2>1, <3>1
  <2>2. CASE retry # {}
    <3>1. Min(retry) \in retry /\ \A y \in retry : Min(retry) <= y
      <4>1. retry \in SUBSET Nat
        BY <1>1, <1>3
      <4> QED
        BY <2>2, <4>1, SmallestExists DEF Min
    <3> HIDE DEF a
    <3>2. a + 1 \in retry
      BY <1>1, <1>3, <2>2
    <3>3. Min(retry) = a + 1
      BY <1>1, <1>3, <3>1, <3>2
    <3> QED
      BY <2>2, <3>3
  <2> QED
    BY <2>1, <2>2
<1> HIDE DEF i
<1>5. /\ Len(inbox'[d]) = Len(inbox[d]) + 1
      /\ \A j \in 1..Len(inbox[d]) : inbox'[d][j] = inbox[d][j]
      /\ inbox'[d][Len(inbox[d]) + 1] = i
  BY <1>1, <1>2
<1>6. InOrder(d)'
  <2> DEFINE n == Len(inbox[d])
             b == LastBegun(d)
  <2>4. /\ Len(inbox'[d]) = n + 1 /\ n \in Nat /\ b \in Nat
        /\ \A j \in 1..n : inbox'[d][j] = inbox[d][j]
        /\ \A j \in 1..n : inbox[d][j] = b + j
        /\ inbox'[d][n + 1] = b + n + 1
    BY <1>1, <1>3, <1>4, <1>5
  <2> HIDE DEF b, n
  <2>5. ASSUME NEW j \in 1..Len(inbox'[d]) PROVE inbox'[d][j] = b + j
    <3>1. j \in 1..n \/ j = n + 1
      BY <2>4
    <3>2. CASE j \in 1..n
      BY <2>4, <3>2
    <3>3. CASE j = n + 1
      BY <2>4, <3>3
    <3> QED
      BY <3>1, <3>2, <3>3
  <2>1. \A j \in 1..Len(inbox'[d]) : inbox'[d][j] = LastBegun(d) + j
    BY <2>5 DEF b
  <2>6. b + Len(inbox'[d]) = b + n + 1
    BY <2>4
  <2>2. LastBegun(d) + Len(inbox'[d]) = a + 1
    BY <2>6 DEF b, n
  <2>7. next \in Nat
    BY <1>1
  <2>8. Count < next /\ Count \in Nat /\ a \in Nat /\ a < next /\ retry = (a + 1)..(next - 1)
    BY <1>3
  <2> HIDE DEF a
  <2>9. IF retry = {} THEN next' = next + 1 /\ retry' = retry
        ELSE retry' = retry \ {a + 1} /\ next' = next
    BY <1>2, <1>4
  <2>3. a + 1 < next' /\ retry' = (a + 1 + 1)..(next' - 1) /\ Count < next'
    <3>1. CASE retry = {}
      <4>1. next' = next + 1 /\ retry' = retry /\ a + 1 = next
        BY <1>4, <2>9, <3>1
      <4>2. (a + 1 + 1)..(next' - 1) = {}
        BY <2>7, <2>8, <4>1
      <4> QED
        BY <2>7, <2>8, <3>1, <4>1, <4>2
    <3>2. CASE retry # {}
      <4>1. retry' = retry \ {a + 1} /\ next' = next
        BY <2>9, <3>2
      <4>2. a + 1 \in retry
        BY <2>7, <2>8, <3>2
      <4> QED
        BY <2>7, <2>8, <4>1, <4>2
    <3> QED
      BY <3>1, <3>2
  <2> QED
    BY <1>2, <1>3, <2>1, <2>2, <2>3 DEF InOrder
<1>7. Moments \subseteq Moments'
  BY <1>1, <1>2, <1>3 DEF Moments
<1>8. Working(d)'
  BY <1>2, <1>7 DEF History, Working
<1>9. \A o \in Orders : Between(o)'
  BY <1>2, <1>3, <1>7, BetweenMore DEF History
<1> QED
  BY <1>6, <1>8, <1>9

\* What is not handled is to be sent again.
LEMMA DropHistory ==
    ASSUME NEW d \in Daemons, History(d), DropSubscription(d), UNCHANGED <<doc, replay>>
    PROVE  InOrder(d)' /\ Working(d)' /\ \A o \in Orders : Between(o)'
<1>1. /\ Len(log) \in Nat /\ next \in 1..(Len(log) + 1)
      /\ inbox[d] \in Seq(1..Len(log)) /\ Len(inbox[d]) \in Nat
  BY HeldIsTyped DEF History
<1>2. /\ mode'[d] = "off" /\ inbox'[d] = <<>> /\ work'[d] = NoWork
      /\ retry' = (IF mode[d] = "off" THEN retry ELSE retry \cup InFlight(d))
      /\ UNCHANGED <<log, next, acked>>
  BY DEF DropSubscription, History, Visible, IInv
<1>3. Count' = Count /\ Moments' = Moments
  BY <1>2 DEF Count, Moments
<1>4. Count \in Nat /\ acked = 1..Count /\ Count < next
  BY DEF History, InOrder
<1>5. retry' = (Count + 1)..(next - 1)
  <2>1. CASE mode[d] = "off"
    BY <1>2, <2>1 DEF History, InOrder
  <2>2. CASE mode[d] # "off"
    <3> DEFINE b == LastBegun(d)
               n == Len(inbox[d])
    <3>1. /\ work[d] # NoWork => work[d].event = Count + 1
          /\ \A j \in 1..n : inbox[d][j] = b + j
          /\ b + n < next
          /\ retry = (b + n + 1)..(next - 1)
      BY <2>2 DEF History, InOrder
    <3>2. b = (IF work[d] = NoWork THEN Count ELSE Count + 1) /\ b \in Nat
      BY <1>4 DEF LastBegun
    <3>3. Range(inbox[d]) = {inbox[d][j] : j \in 1..n}
      BY <1>1 DEF Range
    <3> HIDE DEF b, n
    <3>4. n \in Nat
      BY <1>1 DEF n
    <3>5. Range(inbox[d]) = (b + 1)..(b + n)
      <4>1. ASSUME NEW x \in (b + 1)..(b + n) PROVE x \in Range(inbox[d])
        <5>1. x - b \in 1..n
          BY <3>2, <3>4
        <5>2. inbox[d][x - b] = x
          BY <3>1, <3>2, <5>1
        <5> QED
          BY <3>3, <5>1, <5>2
      <4>2. ASSUME NEW j \in 1..n PROVE inbox[d][j] \in (b + 1)..(b + n)
        BY <3>1, <3>2, <3>4
      <4> QED
        BY <3>3, <4>1, <4>2
    <3>6. InFlight(d) = (Count + 1)..(b + n)
      <4>1. CASE work[d] = NoWork
        BY <3>2, <3>5, <4>1 DEF InFlight
      <4>2. CASE work[d] # NoWork
        <5>1. (Count + 1)..(b + n) = {Count + 1} \cup (b + 1)..(b + n)
          BY <1>4, <3>2, <3>4, <4>2
        <5> QED
          BY <3>1, <3>5, <4>2, <5>1 DEF InFlight
      <4> QED
        BY <4>1, <4>2
    <3>7. retry' = ((b + n + 1)..(next - 1)) \cup ((Count + 1)..(b + n))
      BY <1>2, <2>2, <3>1, <3>6
    <3> QED
      BY <1>1, <1>4, <3>1, <3>2, <3>4, <3>7
  <2> QED
    BY <2>1, <2>2
<1>6. InOrder(d)'
  BY <1>2, <1>3, <1>4, <1>5 DEF InOrder
<1>7. Working(d)'
  BY <1>2 DEF Working
<1>8. \A o \in Orders : Between(o)'
  BY <1>2, <1>3, <1>4, BetweenMore DEF History
<1> QED
  BY <1>6, <1>7, <1>8

-----------------------------------------------------------------------------
(* Every step of one daemon *)

LEMMA InitHistory ==
    ASSUME NEW d, OneDaemon(d), Init, Visible
    PROVE  History(d)
<1>1. /\ d \in Daemons /\ log = <<>> /\ Len(log) = 0 /\ next = 1 /\ retry = {} /\ acked = {}
      /\ mode[d] = "off" /\ inbox[d] = <<>> /\ work[d] = NoWork /\ late = {}
      /\ doc = [o \in Orders |-> Absent]
  BY DEF OneDaemon, Init
<1>2. Count = 0 /\ 1..0 = {}
  BY <1>1, FS_EmptySet DEF Count
<1>3. InOrder(d)
  BY <1>1, <1>2 DEF InOrder
<1>4. Working(d) /\ FirstIsAdded
  BY <1>1 DEF Working, FirstIsAdded
<1>5. \A o \in Orders : Between(o)
  BY <1>1, <1>2 DEF Between, Placed
<1> QED
  BY <1>1, <1>3, <1>4, <1>5 DEF History

LEMMA AcknowledgeHistory ==
    ASSUME NEW d \in Daemons, History(d), Acknowledge(d)
    PROVE  InOrder(d)' /\ Working(d)' /\ \A o \in Orders : Between(o)'
<1>1. Count' = Count + 1 /\ acked' = 1..Count' /\ \A o \in Orders : Between(o)'
  BY AcknowledgeBetween
<1>2. /\ mode[d] = "on" /\ work[d] # NoWork /\ work'[d] = NoWork
      /\ UNCHANGED <<log, next, retry, mode, inbox>>
  BY DEF Acknowledge, History, Visible, IInv
<1>3. LastBegun(d)' = LastBegun(d)
  BY <1>1, <1>2 DEF LastBegun
<1>4. /\ Count \in Nat /\ Len(inbox[d]) \in Nat /\ next \in Nat
      /\ LastBegun(d) = Count + 1
      /\ LastBegun(d) + Len(inbox[d]) < next
  BY <1>2, HeldIsTyped DEF History, InOrder, LastBegun
<1>5. Count' < next /\ Count' \in Nat
  <2> DEFINE n == Len(inbox[d])
             c == Count + 1
  <2>1. c \in Nat /\ n \in Nat /\ next \in Nat /\ Count' = c
    BY <1>1, <1>4
  <2>2. LastBegun(d) = c /\ LastBegun(d) + n < next
    BY <1>4
  <2> HIDE DEF c, n
  <2>3. c + n < next
    BY <2>2
  <2> QED
    BY <2>1, <2>3
<1>6. InOrder(d)'
  BY <1>1, <1>2, <1>3, <1>5 DEF History, InOrder
<1> QED
  BY <1>1, <1>2, <1>6 DEF Working

\* Steps that change neither the log nor the documents nor what is acknowledged or
\* sent.
LEMMA QuietHistory ==
    ASSUME NEW d \in Daemons, History(d), UNCHANGED <<log, doc, acked, replay, next>>
    PROVE  /\ Count' = Count /\ Moments' = Moments
           /\ \A o \in Orders : Between(o)'
<1>1. Count' = Count /\ Moments' = Moments
  BY DEF Count, Moments
<1>2. Count \in Nat
  BY DEF History, InOrder
<1> QED
  BY <1>1, <1>2, BetweenMore DEF History

LEMMA HistoryStep ==
    ASSUME NEW d, OneDaemon(d), History(d), [Next]_vars, Visible'
    PROVE  History(d)'
<1> USE DEF OneDaemon
<1>1. d \in Daemons /\ \A c \in Daemons : c = d
  OBVIOUS
<1>2. SUFFICES InOrder(d)' /\ Working(d)' /\ FirstIsAdded' /\ late' = {}
               /\ \A o \in Orders : Between(o)'
  BY DEF History
<1>3. late = {} /\ FirstIsAdded /\ InOrder(d) /\ Working(d) /\ IInv
  BY DEF History, Visible
<1>4. ASSUME log' = log PROVE FirstIsAdded'
  BY <1>3, <1>4 DEF FirstIsAdded
<1>5. CASE UNCHANGED vars
  <2>1. UNCHANGED <<log, next, retry, acked, mode, inbox, work, doc, late, replay>>
    BY <1>5 DEF vars, subscription
  <2>2. Count' = Count /\ Moments' = Moments /\ \A o \in Orders : Between(o)'
    BY <1>1, <2>1, QuietHistory
  <2> QED
    BY <1>3, <1>4, <2>1, <2>2 DEF InOrder, LastBegun, Working
<1>6. ASSUME NEW e \in Events, Publish(e)
      PROVE  InOrder(d)' /\ Working(d)' /\ FirstIsAdded' /\ late' = {}
             /\ \A o \in Orders : Between(o)'
  <2>1. UNCHANGED <<next, retry, acked, mode, inbox, work, late>>
    BY <1>6 DEF Publish, subscription
  <2>2. InOrder(d)'
    BY <1>3, <2>1 DEF InOrder, LastBegun, Count
  <2> QED
    BY <1>1, <1>3, <1>6, <2>1, <2>2, PublishBetween
<1>7. ASSUME NEW k \in 0..MaxLog, Rewind(k)
      PROVE  InOrder(d)' /\ Working(d)' /\ FirstIsAdded' /\ late' = {}
             /\ \A o \in Orders : Between(o)'
  BY <1>1, <1>3, <1>4, <1>7, RewindHistory DEF Rewind
<1>8. CASE Start(d)
  <2>1. /\ mode[d] = "off" /\ work[d] = NoWork /\ mode'[d] = "on"
        /\ UNCHANGED <<log, next, retry, acked, inbox, work, doc, late, replay>>
    BY <1>1, <1>3, <1>8 DEF Start, subscription, IInv
  <2>2. Count' = Count /\ Moments' = Moments /\ \A o \in Orders : Between(o)'
    BY <1>1, <2>1, QuietHistory
  <2>3. LastBegun(d)' = Count /\ Count \in Nat /\ Len(inbox[d]) = 0 /\ inbox[d] = <<>>
    BY <1>3, <2>1, <2>2 DEF InOrder, LastBegun
  <2>4. LastBegun(d)' + Len(inbox[d]) = Count
    BY <2>3
  <2>5. InOrder(d)'
    BY <1>3, <2>1, <2>2, <2>3, <2>4 DEF InOrder
  <2> QED
    BY <1>3, <1>4, <2>1, <2>2, <2>5 DEF Working
<1>9. CASE Deliver(d)
  BY <1>1, <1>3, <1>4, <1>9, DeliverHistory DEF Deliver
<1>10. CASE BeginHandling(d)
  BY <1>1, <1>3, <1>4, <1>10, BeginHistory DEF BeginHandling
<1>11. CASE SaveWork(d)
  <2>1. Working(d)' /\ \A o \in Orders : Between(o)'
    BY <1>1, <1>11, SaveBetween
  <2>2. /\ UNCHANGED <<log, next, retry, acked, mode, inbox, late>>
        /\ work[d] # NoWork
        /\ work' = [work EXCEPT ![d] = [work[d] EXCEPT !.stage = "saved"]]
    BY <1>11 DEF SaveWork, subscription
  <2>3. work[d] \in [event : Sequence, stage : {"read", "saved"}, copy : Document]
    BY <1>1, <1>3, <2>2 DEF IInv
  <2>4. work'[d] = [work[d] EXCEPT !.stage = "saved"]
    BY <1>1, <1>3, <2>2 DEF IInv
  <2>5. /\ work'[d] \in [event : Sequence, stage : {"read", "saved"}, copy : Document]
        /\ work'[d].event = work[d].event
    BY <2>3, <2>4
  <2>6. work'[d] # NoWork
    BY <2>5, IsWork DEF History
  <2>7. Count' = Count /\ LastBegun(d)' = LastBegun(d)
    BY <2>2, <2>6 DEF Count, LastBegun
  <2>8. InOrder(d)'
    BY <1>3, <2>2, <2>5, <2>6, <2>7 DEF InOrder
  <2> QED
    BY <1>3, <1>4, <2>1, <2>2, <2>8
<1>12. CASE Acknowledge(d)
  BY <1>1, <1>3, <1>4, <1>12, AcknowledgeHistory DEF Acknowledge
<1>13. CASE Lapse(d)
  <2>1. /\ mode[d] = "off" /\ work'[d] = NoWork
        /\ UNCHANGED <<log, next, retry, acked, mode, inbox, doc, late, replay>>
    BY <1>1, <1>3, <1>13 DEF Lapse, subscription, IInv
  <2>2. Count' = Count /\ Moments' = Moments /\ \A o \in Orders : Between(o)'
    BY <1>1, <2>1, QuietHistory
  <2>3. InOrder(d)'
    BY <1>3, <2>1, <2>2 DEF InOrder
  <2> QED
    BY <1>3, <1>4, <2>1, <2>2, <2>3 DEF Working
<1>14. ASSUME DropSubscription(d), UNCHANGED <<doc, late, replay>>
       PROVE  InOrder(d)' /\ Working(d)' /\ FirstIsAdded' /\ late' = {}
              /\ \A o \in Orders : Between(o)'
  BY <1>1, <1>3, <1>4, <1>14, DropHistory DEF DropSubscription
<1>15. CASE HandlerFails(d) \/ Stopped(d) \/ Crash(d)
  BY <1>14, <1>15 DEF HandlerFails, Stopped, Crash
<1>16. CASE Stop(d)
  <2>1. /\ mode[d] # "off" /\ mode'[d] # "off"
        /\ UNCHANGED <<log, next, retry, acked, inbox, work, doc, late, replay>>
    BY <1>1, <1>3, <1>16 DEF Stop, subscription, IInv
  <2>2. Count' = Count /\ Moments' = Moments /\ \A o \in Orders : Between(o)'
    BY <1>1, <2>1, QuietHistory
  <2>3. LastBegun(d)' = LastBegun(d)
    BY <2>1, <2>2 DEF LastBegun
  <2>4. InOrder(d)'
    BY <1>3, <2>1, <2>2, <2>3 DEF InOrder
  <2>5. Working(d)'
    BY <1>3, <2>1, <2>2 DEF Working
  <2> QED
    BY <1>3, <1>4, <2>1, <2>2, <2>4, <2>5
<1>17. ~HandlerFailsBeforeSave(d) /\ ~\E i \in 1..MaxLog : Timeout(d, i)
  BY DEF HandlerFailsBeforeSave, Timeout, Fault
<1>18. CASE DaemonStep(d)
  BY <1>8, <1>9, <1>10, <1>11, <1>12, <1>13, <1>15, <1>16, <1>17, <1>18 DEF DaemonStep
<1> QED
  BY <1>1, <1>3, <1>5, <1>6, <1>7, <1>18 DEF Next

\* One daemon has the events in their order, through stops, crashes and rewinds, and
\* each field of a document is from a moment it has come to.
THEOREM OneDaemonInOrder ==
    ASSUME NEW d, OneDaemon(d)
    PROVE  Spec => []History(d)
<1>1. Init /\ Visible => History(d)
  BY InitHistory
<1>2. History(d) /\ [Next]_vars /\ Visible' => History(d)'
  BY HistoryStep
<1>3. Spec => []Visible
  BY Invariance
<1> QED
  BY <1>1, <1>2, <1>3, PTL DEF Spec

-----------------------------------------------------------------------------
(* What readers see *)

AtMoment(n) == \A o \in Orders : ShowsPrefix(o, n)

Views == [o \in Orders |-> IF doc[o] = Absent THEN Absent ELSE doc[o].contents]
ViewsAt(n) == [o \in Orders |-> IF Placed(o, n) THEN Rebuilt(log, o, n) ELSE Absent]

LEMMA ViewsShowMoment ==
    ASSUME NEW n, AtMoment(n)
    PROVE  Views = ViewsAt(n)
BY DEF AtMoment, ShowsPrefix, Views, ViewsAt

\* The read model's operators are these.
LEMMA SameOperators ==
    /\ OrderViews!Events = Events
    /\ OrderViews!Contents = Contents
    /\ \A n : OrderViews!Moment(n) = ViewsAt(n)
<1>1. \A o : OrderViews!OrderAdded(o) = OrderAdded(o)
  BY DEF OrderViews!OrderAdded, OrderAdded
<1>2. OrderViews!Statuses = Statuses
  BY DEF OrderViews!Statuses, Statuses
<1>3. OrderViews!Events = Events
  BY DEF OrderViews!Events, OrderViews!UpdateEvents, OrderViews!OrderAdded,
     OrderViews!StatusEvent, OrderViews!SlotEvent, OrderViews!Statuses,
     Events, UpdateEvents, OrderAdded, StatusEvent, SlotEvent, Statuses
<1>4. OrderViews!Contents = Contents
  BY DEF OrderViews!Contents, OrderViews!Fields, OrderViews!Statuses, Contents, Fields, Statuses
<1>5. \A l, o, n : OrderViews!Rebuilt(l, o, n) = Rebuilt(l, o, n)
  BY DEF OrderViews!Rebuilt, OrderViews!Replayed, OrderViews!NewOrder, OrderViews!Apply,
     OrderViews!Fields, Rebuilt, Replayed, NewOrder, Apply, Fields
<1>6. \A n : OrderViews!Moment(n) = ViewsAt(n)
  BY <1>1, <1>5 DEF OrderViews!Moment, ViewsAt, Placed
<1> QED
  BY <1>3, <1>4, <1>6

\* A document whose fields are all of one moment shows it.
LEMMA FieldsShow ==
    ASSUME Visible, NEW o \in Orders, NEW n \in 0..Len(log),
           doc[o] # Absent, doc[o].addressed, Placed(o, n),
           \A f \in Fields : doc[o].contents[f] = Rebuilt(log, o, n)[f]
    PROVE  ShowsPrefix(o, n)
<1>1. doc[o].contents \in Contents
  BY DEF Visible, IInv, Stored, Document
<1>2. Rebuilt(log, o, n) \in Contents
  BY RebuiltIsContents DEF Visible, IInv
<1>3. doc[o].contents = Rebuilt(log, o, n)
  BY <1>1, <1>2 DEF Contents
<1> QED
  BY <1>3 DEF ShowsPrefix

\* Once the event after those acknowledged is saved, and none that was sent before
\* is left, the documents are at its moment.
LEMMA SavedAtNext ==
    ASSUME NEW d \in Daemons, History(d), work[d] # NoWork, work[d].stage = "saved",
           mode[d] # "off", replay <= Count + 1
    PROVE  AtMoment(Count + 1)
<1> DEFINE i == Count + 1
           e == log[i]
<1>1. /\ log \in Seq(Events) /\ Len(log) \in Nat /\ next \in 1..(Len(log) + 1)
      /\ replay \in 0..Len(log)
  BY HeldIsTyped DEF History
<1>2. Count \in Nat /\ work[d].event = i
  BY DEF History, InOrder
<1>3. /\ i \in 1..Len(log)
      /\ doc[e.order] # Absent
      /\ e.field # "order" => doc[e.order].contents[e.field] = e.value
  BY <1>2, HeldIsTyped DEF History, Working
<1>4. \A n \in Moments : n = Count \/ n = i
  BY <1>1, <1>2 DEF Moments
<1>5. ASSUME NEW o \in Orders PROVE ShowsPrefix(o, i)
  <2>1. Between(o)
    BY DEF History
  <2>2. CASE doc[o] = Absent
    <3>1. e # OrderAdded(o)
      BY <1>3, <2>2 DEF OrderAdded
    <3> QED
      BY <1>2, <2>1, <2>2, <3>1 DEF Between, Placed, ShowsPrefix
  <2>3. CASE doc[o] # Absent
    <3>1. doc[o].addressed /\ Placed(o, i)
      BY <1>2, <1>4, <2>1, <2>3 DEF Between, Placed
    <3>2. ASSUME NEW f \in Fields
          PROVE  doc[o].contents[f] = Rebuilt(log, o, i)[f]
      <4>1. PICK n \in Moments : doc[o].contents[f] = Rebuilt(log, o, n)[f]
        BY <2>1, <2>3 DEF Between
      <4>2. Rebuilt(log, o, i)[f] = IF e.order = o /\ e.field = f THEN e.value
                                    ELSE Rebuilt(log, o, i - 1)[f]
        BY <1>1, <1>3, RebuiltField
      <4>3. f # "order"
        BY OrderAssumption DEF Fields
      <4>4. i - 1 = Count
        BY <1>2
      <4> HIDE DEF i, e
      <4> QED
        BY <1>3, <1>4, <4>1, <4>2, <4>3, <4>4
    <3> QED
      BY <1>1, <1>3, <2>3, <3>1, <3>2, FieldsShow DEF History
  <2> QED
    BY <2>2, <2>3
<1> QED
  BY <1>5 DEF AtMoment

\* While no event is sent again the documents are at one moment: what is
\* acknowledged, or one event more.
LEMMA AtOneMoment ==
    ASSUME NEW d \in Daemons, History(d), ~Sent
    PROVE  AtMoment(Count) \/ (Count + 1 <= Len(log) /\ AtMoment(Count + 1))
<1> DEFINE i == Count + 1
           e == log[i]
           q == e.order
<1>1. /\ log \in Seq(Events) /\ Len(log) \in Nat /\ next \in 1..(Len(log) + 1)
      /\ replay \in 0..Len(log)
  BY HeldIsTyped DEF History
<1>2. Count \in Nat /\ Count < next /\ replay <= Count /\ Count <= Len(log)
  <2>1. Count \in Nat /\ Count < next
    BY DEF History, InOrder
  <2>2. ~(Count < replay)
    BY DEF Sent, Count
  <2> QED
    BY <1>1, <2>1, <2>2
<1>3. \A n \in Moments : n = Count \/ (n = i /\ i \in 1..Len(log))
  BY <1>1, <1>2 DEF Moments
<1>4. \A o \in Orders : Between(o)
  BY DEF History
<1>5. ASSUME NEW o \in Orders, \A n \in Moments : n = Count PROVE ShowsPrefix(o, Count)
  <2>1. CASE doc[o] = Absent
    BY <1>4, <2>1 DEF Between, ShowsPrefix
  <2>2. CASE doc[o] # Absent
    <3>1. /\ doc[o].addressed /\ Placed(o, Count)
          /\ \A f \in Fields : doc[o].contents[f] = Rebuilt(log, o, Count)[f]
      BY <1>4, <1>5, <2>2 DEF Between
    <3> QED
      BY <1>1, <1>2, <2>2, <3>1, FieldsShow DEF History
  <2> QED
    BY <2>1, <2>2
<1>6. CASE i \in 1..Len(log)
  <2>1. i - 1 = Count /\ e \in Events /\ q \in Orders
        /\ (e.field # "order" => e.field \in Fields)
    BY <1>2, <1>6, Logged DEF History
  <2>2. \A o : Placed(o, Count) => Placed(o, i)
    BY <1>2 DEF Placed
  <2>3. \A o : Placed(o, i) /\ e # OrderAdded(o) => Placed(o, Count)
    BY <1>2 DEF Placed
  <2>4. ASSUME NEW o \in Orders, NEW f \in Fields
        PROVE  Rebuilt(log, o, i)[f] = IF q = o /\ e.field = f THEN e.value
                                       ELSE Rebuilt(log, o, Count)[f]
    <3>1. Rebuilt(log, o, i)[f] = IF q = o /\ e.field = f THEN e.value
                                  ELSE Rebuilt(log, o, i - 1)[f]
      BY <1>1, <1>6, RebuiltField
    <3> HIDE DEF i, e, q
    <3> QED
      BY <2>1, <3>1
  <2>5. \A n \in Moments : n = Count \/ n = i
    BY <1>3
  <2>6. i \in 0..Len(log) /\ Count \in 0..Len(log)
    BY <1>1, <1>2, <1>6
  <2>7. q \in Orders => Placed(q, i)
    BY <1>6, PlacedByAny DEF History
  <2>8. e.field = "order" => e = OrderAdded(q)
    BY <2>1, EventShape, OrderAssumption
  <2> HIDE DEF i, e
  <2>9. ASSUME NEW o \in Orders, o # q
        PROVE  ShowsPrefix(o, Count) /\ ShowsPrefix(o, i)
    <3>1. Placed(o, i) <=> Placed(o, Count)
      BY <2>2, <2>3, <2>9 DEF OrderAdded, q
    <3>2. \A f \in Fields : Rebuilt(log, o, i)[f] = Rebuilt(log, o, Count)[f]
      BY <2>4, <2>9
    <3>3. CASE doc[o] = Absent
      BY <1>4, <3>1, <3>3 DEF Between, ShowsPrefix
    <3>4. CASE doc[o] # Absent
      <4>1. /\ doc[o].addressed /\ Placed(o, Count) /\ Placed(o, i)
            /\ \A f \in Fields : /\ doc[o].contents[f] = Rebuilt(log, o, Count)[f]
                                 /\ doc[o].contents[f] = Rebuilt(log, o, i)[f]
        BY <1>4, <2>5, <3>1, <3>2, <3>4 DEF Between
      <4> QED
        BY <2>6, <3>4, <4>1, FieldsShow DEF History
    <3> QED
      BY <3>3, <3>4
  <2>10. ShowsPrefix(q, Count) \/ ShowsPrefix(q, i)
    <3>1. CASE doc[q] = Absent
      BY <1>4, <2>1, <3>1 DEF Between, ShowsPrefix
    <3>2. CASE doc[q] # Absent
      <4>1. doc[q].addressed /\ Placed(q, i)
        BY <1>4, <2>1, <2>7, <3>2 DEF Between
      <4>2. \A f \in Fields : \E n \in {Count, i} :
               doc[q].contents[f] = Rebuilt(log, q, n)[f]
        BY <1>4, <2>1, <2>5, <3>2 DEF Between
      <4>3. \A f \in Fields : e.field # f => Rebuilt(log, q, i)[f] = Rebuilt(log, q, Count)[f]
        BY <2>1, <2>4
      <4>4. CASE e.field = "order"
        <5>1. \A f \in Fields : f # "order"
          BY OrderAssumption DEF Fields
        <5>2. \A f \in Fields : doc[q].contents[f] = Rebuilt(log, q, i)[f]
          BY <4>2, <4>3, <4>4, <5>1
        <5> QED
          BY <2>1, <2>6, <3>2, <4>1, <5>2, FieldsShow DEF History
      <4>5. CASE e.field # "order"
        <5>1. Placed(q, Count)
          BY <2>3, <4>1, <4>5 DEF OrderAdded
        <5>2. \/ \A f \in Fields : doc[q].contents[f] = Rebuilt(log, q, i)[f]
              \/ \A f \in Fields : doc[q].contents[f] = Rebuilt(log, q, Count)[f]
          BY <2>1, <4>2, <4>3, <4>5
        <5> QED
          BY <2>1, <2>6, <3>2, <4>1, <5>1, <5>2, FieldsShow DEF History
      <4> QED
        BY <4>4, <4>5
    <3> QED
      BY <3>1, <3>2
  <2>11. Count + 1 = i /\ i <= Len(log)
    BY <1>1, <1>6 DEF i
  <2> QED
    BY <2>9, <2>10, <2>11 DEF AtMoment
<1>7. CASE i \notin 1..Len(log)
  BY <1>3, <1>5, <1>7 DEF AtMoment
<1> QED
  BY <1>6, <1>7

-----------------------------------------------------------------------------
(* Every step is one of the read model, or none *)

Shown == IF Sent THEN Count ELSE Moment

LEMMA ShownIs ==
    /\ Moment = IF AtMoment(Count) THEN Count ELSE Count + 1
    /\ Sent <=> Count < replay
    /\ Sent \in BOOLEAN
BY DEF Moment, AtMoment, Count, Sent

LEMMA StillNotSent ==
    ASSUME ~Sent, ~Sent'
    PROVE  Sent' = Sent
BY DEF Sent

LEMMA InitShows ==
    ASSUME Init
    PROVE  OrderViews!Init
<1>1. /\ log = <<>> /\ acked = {} /\ replay = 0 /\ doc = [o \in Orders |-> Absent]
  BY DEF Init
<1>2. Count = 0 /\ ~Sent
  BY <1>1, FS_EmptySet, ShownIs DEF Count
<1>3. AtMoment(0)
  BY <1>1 DEF AtMoment, ShowsPrefix, Placed
<1>4. Shown = 0 /\ Views = ViewsAt(0)
  BY <1>2, <1>3, ShownIs, ViewsShowMoment DEF Shown
<1> QED
  BY <1>1, <1>2, <1>4, SameOperators DEF OrderViews!Init, Shown, Views, Count

\* What readers see is made of these.
LEMMA QuietShows ==
    ASSUME UNCHANGED <<log, doc, acked, replay>>
    PROVE  UNCHANGED OrderViews!vars
BY DEF OrderViews!vars, Sent, Moment, ShowsPrefix, Placed

LEMMA PublishShows ==
    ASSUME NEW d \in Daemons, History(d), NEW e \in Events, Publish(e)
    PROVE  OrderViews!Next
<1>1. \A o \in Orders : \A n \in 0..Len(log) :
         Rebuilt(log', o, n) = Rebuilt(log, o, n) /\ (Placed(o, n)' <=> Placed(o, n))
  BY PublishBetween
<1>2. Count \in 0..Len(log)
  <2>1. Count \in Nat /\ Count < next
    BY DEF History, InOrder
  <2> QED
    BY <2>1, HeldIsTyped DEF History
<1>3. log' = Append(log, e) /\ UNCHANGED <<doc, acked, replay>>
  BY DEF Publish, subscription
<1>4. Count' = Count /\ Sent' = Sent /\ Views' = Views
  BY <1>3 DEF Count, Sent, Views
<1>5. AtMoment(Count)' <=> AtMoment(Count)
  BY <1>1, <1>2, <1>3, <1>4 DEF AtMoment, ShowsPrefix
<1>6. Moment' = Moment
  <2>1. Moment' = IF AtMoment(Count)' THEN Count' ELSE Count' + 1
    BY DEF Moment, AtMoment, Count
  <2> QED
    BY <1>4, <1>5, <2>1, ShownIs
<1>7. Shown' = Shown
  BY <1>4, <1>6 DEF Shown
<1>8. OrderViews!Publish(e)
  BY <1>3, <1>4, <1>7 DEF OrderViews!Publish, Shown, Views, Count
<1> QED
  BY <1>8, SameOperators DEF OrderViews!Next

LEMMA RewindShows ==
    ASSUME NEW d \in Daemons, History(d), NEW k \in 0..MaxLog, Rewind(k)
    PROVE  OrderViews!Next \/ UNCHANGED OrderViews!vars
<1>1. /\ Count' = k /\ k <= Count
      /\ replay' >= replay /\ replay' >= next - 1 /\ replay' \in {replay, next - 1}
  BY RewindHistory
<1>2. /\ UNCHANGED <<log, doc>> /\ acked' = 1..k /\ Views' = Views
  BY DEF Rewind, Views
<1>3. Count \in Nat /\ acked = 1..Count /\ Count < next /\ next \in Nat /\ replay \in Nat /\ k \in Nat
  BY HeldIsTyped, DenormalizerAssumption DEF History, InOrder
<1>4. (Sent' <=> k < replay') /\ Shown' = IF Sent' THEN k ELSE Moment'
  BY <1>1 DEF Sent, Count, Shown
<1>5. CASE Sent'
  <2>1. Shown \in Nat /\ k <= Shown
    BY <1>1, <1>3, ShownIs DEF Shown
  <2>2. Shown' \in 0..Shown
    BY <1>3, <1>4, <1>5, <2>1
  <2>3. OrderViews!GoBack
    BY <1>2, <1>5, <2>2 DEF OrderViews!GoBack, Shown, Views, Count
  <2> QED
    BY <2>3 DEF OrderViews!Next
<1>6. CASE ~Sent'
  <2>1. ~(k < replay') /\ replay' \in Nat
    BY <1>1, <1>3, <1>4, <1>6
  <2>2. k = Count /\ ~(Count < replay)
    BY <1>1, <1>3, <2>1
  <2>3. acked' = acked /\ ~Sent
    BY <1>2, <1>3, <2>2, ShownIs
  <2>4. UNCHANGED OrderViews!vars
    BY <1>2, <1>6, <2>3, StillNotSent DEF OrderViews!vars, Moment, ShowsPrefix, Placed
  <2> QED
    BY <2>4
<1> QED
  BY <1>5, <1>6

\* The step that brings documents from one moment to the next, or finds them there.
LEMMA ToNextMoment ==
    ASSUME NEW d \in Daemons, History(d), ~Sent, Count + 1 <= Len(log), ~Sent',
           log' = log, Shown' \in {Count, Count + 1}, Views' = ViewsAt(Shown'),
           Shown' = Count => AtMoment(Count)
    PROVE  OrderViews!Next \/ UNCHANGED OrderViews!vars
<1>1. Count \in Nat /\ Len(log) \in Nat
  BY HeldIsTyped DEF History, InOrder
<1>2. Shown = IF AtMoment(Count) THEN Count ELSE Count + 1
  BY ShownIs DEF Shown
<1>3. Views = ViewsAt(Shown)
  BY <1>2, AtOneMoment, ViewsShowMoment
<1>6. Sent' = Sent
  BY StillNotSent
<1>4. CASE Shown' = Shown
  BY <1>3, <1>4, <1>6 DEF OrderViews!vars, Shown, Views, Count
<1>5. CASE Shown' # Shown
  <2>1. Shown = Count /\ Shown' = Shown + 1 /\ Shown < Len(log)
    BY <1>1, <1>2, <1>5
  <2>2. OrderViews!Moment(Shown') = ViewsAt(Shown')
    BY SameOperators
  <2>3. OrderViews!Advance
    BY <1>6, <2>1, <2>2 DEF OrderViews!Advance, Shown, Views, Count
  <2> QED
    BY <2>3 DEF OrderViews!Next
<1> QED
  BY <1>4, <1>5

\* SavedAtNext, after a step.
SavedBy(d) ==
    History(d) /\ work[d] # NoWork /\ work[d].stage = "saved" /\ mode[d] # "off"
        /\ replay <= Count + 1

AtNext == AtMoment(Count + 1)

LEMMA SavedAtNextAfter ==
    ASSUME NEW d \in Daemons
    PROVE  SavedBy(d)' => AtNext'
<1>1. SavedBy(d) => AtNext
  BY SavedAtNext DEF SavedBy, AtNext
<1> QED
  BY <1>1, PTL

LEMMA SaveShows ==
    ASSUME NEW d \in Daemons, History(d), History(d)', SaveWork(d)
    PROVE  OrderViews!Next \/ UNCHANGED OrderViews!vars
<1> DEFINE e == log[work[d].event]
           old == doc[e.order]
<1>1. /\ work[d].event \in 1..Len(log) /\ work[d].event > Count
      /\ e \in Events /\ e.order \in Orders
      /\ Handled(e, old) \in Document
      /\ doc' = [doc EXCEPT ![e.order] = Bumped(Handled(e, old))]
  BY SaveGoesThrough
<1>2. /\ UNCHANGED <<log, next, acked, mode, replay>> /\ Count' = Count /\ Sent' = Sent
      /\ work[d] # NoWork
      /\ work' = [work EXCEPT ![d] = [work[d] EXCEPT !.stage = "saved"]]
  BY DEF SaveWork, subscription, Count, Sent
<1>3. /\ doc \in [Orders -> Stored \cup {Absent}]
      /\ Len(log) \in Nat /\ replay \in 0..Len(log) /\ Count \in Nat
  BY HeldIsTyped DEF History, InOrder
<1>4. CASE Sent
  <2>1. Shown' = Shown
    BY <1>2, <1>4 DEF Shown
  <2>2. doc'[e.order] # Absent /\ doc'[e.order].contents \in Contents
    <3>1. doc'[e.order] = Bumped(Handled(e, old))
      BY <1>1, <1>3
    <3>2. Handled(e, old).contents \in Contents
      BY <1>1 DEF Document
    <3> QED
      BY <1>1, <3>1, <3>2, BumpedShape
  <2>3. \A p \in Orders \ {e.order} : doc'[p] = doc[p]
    BY <1>1, <1>3
  <2> HIDE DEF e, old
  <2>4. Views'[e.order] \in Contents
        /\ \A p \in Orders \ {e.order} : Views'[p] = Views[p]
    BY <1>1, <2>2, <2>3 DEF Views
  <2>5. PICK q \in Orders : q = e.order
    BY <1>1
  <2>6. OrderViews!Rewrite(q)
    BY <1>2, <1>4, <2>1, <2>4, <2>5, SameOperators DEF OrderViews!Rewrite, Shown, Views, Count
  <2> QED
    BY <2>6 DEF OrderViews!Next
<1>5. CASE ~Sent
  <2>1. ~(Count < replay) /\ replay <= Count + 1
    BY <1>3, <1>5, ShownIs
  <2>2. mode[d] # "off"
    BY <1>1, <1>2, <1>3, <2>1 DEF History, Working
  <2>3. work[d].event = Count + 1
    BY <1>2, <2>2 DEF History, InOrder
  <2>4. work'[d] # NoWork /\ work'[d].stage = "saved"
    <3>1. work[d] \in [event : Sequence, stage : {"read", "saved"}, copy : Document]
      BY <1>2 DEF History, Visible, IInv
    <3>2. work'[d] = [work[d] EXCEPT !.stage = "saved"]
      BY <1>2 DEF History, Visible, IInv
    <3>3. work'[d] \in [event : Sequence, stage : {"read", "saved"}, copy : Document]
      BY <3>1, <3>2
    <3> QED
      BY <3>1, <3>2, <3>3, IsWork DEF History
  <2>5. AtMoment(Count + 1)'
    <3>1. SavedBy(d)'
      BY <1>2, <2>1, <2>2, <2>4 DEF SavedBy
    <3> QED
      BY <3>1, SavedAtNextAfter DEF AtNext
  <2>8. Moment' = IF AtMoment(Count)' THEN Count ELSE Count + 1
    <3>1. Moment' = IF AtMoment(Count)' THEN Count' ELSE Count' + 1
      BY DEF Moment, AtMoment, Count
    <3> QED
      BY <1>2, <3>1
  <2>9. AtMoment(Count + 1)' <=> \A o \in Orders :
                 IF Placed(o, Count + 1)
                 THEN /\ doc'[o] # Absent /\ doc'[o].addressed
                      /\ doc'[o].contents = Rebuilt(log, o, Count + 1)
                 ELSE doc'[o] = Absent
    BY <1>2 DEF AtMoment, ShowsPrefix, Placed
  <2>10. AtMoment(Count)' <=> \A o \in Orders :
                 IF Placed(o, Count)
                 THEN /\ doc'[o] # Absent /\ doc'[o].addressed
                      /\ doc'[o].contents = Rebuilt(log, o, Count)
                 ELSE doc'[o] = Absent
    BY <1>2 DEF AtMoment, ShowsPrefix, Placed
  <2>11. Shown' = Moment'
    BY <1>2, <1>5 DEF Shown
  <2>12. Views' = ViewsAt(Shown') /\ Shown' \in {Count, Count + 1}
    BY <2>5, <2>8, <2>9, <2>10, <2>11 DEF Views, ViewsAt
  <2>13. CASE AtMoment(Count)
    BY <1>1, <1>2, <1>5, <2>3, <2>12, <2>13, ToNextMoment
  <2>14. CASE ~AtMoment(Count)
    <3>1. AtMoment(Count + 1)
      BY <1>5, <2>14, AtOneMoment
    <3>2. ~AtMoment(Count)'
      BY <2>5, <2>9, <2>10, <2>14, <3>1 DEF AtMoment, ShowsPrefix
    <3>3. Shown' = Count + 1
      BY <2>8, <2>11, <3>2
    <3> QED
      BY <1>1, <1>2, <1>3, <1>5, <2>3, <2>12, <3>3, ToNextMoment
  <2> QED
    BY <2>13, <2>14
<1> QED
  BY <1>4, <1>5

LEMMA AcknowledgeShows ==
    ASSUME NEW d \in Daemons, History(d), Acknowledge(d)
    PROVE  OrderViews!Next \/ UNCHANGED OrderViews!vars
<1>1. Count' = Count + 1 /\ acked' = 1..Count'
  BY AcknowledgeBetween
<1>2. /\ UNCHANGED <<log, doc, replay>> /\ mode[d] = "on" /\ Views' = Views
      /\ work[d] # NoWork /\ work[d].stage = "saved" /\ work[d].event = Count + 1
  BY DEF Acknowledge, History, InOrder, Views
<1>3. /\ Count \in Nat /\ Len(log) \in Nat /\ replay \in 0..Len(log)
      /\ Count + 1 \in 1..Len(log)
  BY <1>2, HeldIsTyped DEF History, InOrder
<1>4. ASSUME replay <= Count + 1
      PROVE  /\ ~Sent' /\ AtMoment(Count + 1)
             /\ Shown' = Count + 1 /\ Views = ViewsAt(Count + 1)
  <2>1. AtMoment(Count + 1)
    BY <1>2, <1>4, SavedAtNext
  <2>2. ~Sent'
    <3>1. Sent' <=> Count + 1 < replay
      BY <1>1, <1>2 DEF Sent, Count
    <3> QED
      BY <1>3, <1>4, <3>1
  <2>3. AtMoment(Count)' <=> AtMoment(Count + 1)
    BY <1>1, <1>2 DEF AtMoment, ShowsPrefix, Placed
  <2>4. Moment' = IF AtMoment(Count)' THEN Count' ELSE Count' + 1
    BY DEF Moment, AtMoment, Count
  <2>5. Shown' = Moment'
    BY <2>2 DEF Shown
  <2> QED
    BY <1>1, <2>1, <2>2, <2>3, <2>4, <2>5, ViewsShowMoment
<1>5. CASE ~Sent
  <2>1. replay <= Count + 1
    BY <1>3, <1>5, ShownIs
  <2>2. Views' = ViewsAt(Shown') /\ Shown' = Count + 1 /\ ~Sent'
    BY <1>2, <1>4, <2>1
  <2> QED
    BY <1>2, <1>3, <1>5, <2>2, ToNextMoment
<1>6. CASE Sent
  <2>1. Shown = Count /\ Count < replay
    BY <1>6, ShownIs DEF Shown
  <2>2. CASE Sent'
    <3>1. Shown' = Shown + 1
      BY <1>1, <2>1, <2>2 DEF Shown
    <3>2. Shown < Len(log)
      BY <1>3, <2>1
    <3>3. OrderViews!Repeated
      BY <1>2, <1>6, <2>2, <3>1, <3>2 DEF OrderViews!Repeated, Shown, Views, Count
    <3> QED
      BY <3>3 DEF OrderViews!Next
  <2>3. CASE ~Sent'
    <3>1. replay <= Count + 1
      <4>1. Sent' <=> Count + 1 < replay
        BY <1>1, <1>2 DEF Sent, Count
      <4> QED
        BY <1>3, <2>3, <4>1
    <3>2. Shown' = Shown + 1 /\ Shown < Len(log) /\ Views = ViewsAt(Shown')
      BY <1>3, <1>4, <2>1, <3>1
    <3>3. Views = OrderViews!Moment(Shown')
      BY <3>2, SameOperators
    <3>4. OrderViews!Repeated
      BY <1>2, <1>6, <2>3, <3>2, <3>3 DEF OrderViews!Repeated, Shown, Views, Count
    <3> QED
      BY <3>4 DEF OrderViews!Next
  <2> QED
    BY <2>2, <2>3
<1> QED
  BY <1>5, <1>6

LEMMA NextShows ==
    ASSUME NEW d, OneDaemon(d), History(d), History(d)', [Next]_vars
    PROVE  [OrderViews!Next]_OrderViews!vars
<1>1. d \in Daemons /\ \A c \in Daemons : c = d
  BY DEF OneDaemon
<1>2. CASE UNCHANGED vars
  BY <1>2, QuietShows DEF vars, subscription
<1>3. ASSUME NEW e \in Events, Publish(e) PROVE OrderViews!Next
  BY <1>1, <1>3, PublishShows
<1>4. ASSUME NEW k \in 0..MaxLog, Rewind(k)
      PROVE  OrderViews!Next \/ UNCHANGED OrderViews!vars
  BY <1>1, <1>4, RewindShows
<1>5. ~\E s \in late : LateSave(s)
  BY DEF History
<1>6. ASSUME DaemonStep(d), ~SaveWork(d), ~Acknowledge(d)
      PROVE  UNCHANGED OrderViews!vars
  BY <1>6, QuietShows DEF DaemonStep, Start, Deliver, BeginHandling, Lapse, HandlerFails,
     HandlerFailsBeforeSave, Stop, Stopped, Crash, Timeout, DropSubscription, subscription
<1>7. CASE DaemonStep(d)
  BY <1>1, <1>6, <1>7, SaveShows, AcknowledgeShows
<1> QED
  BY <1>1, <1>2, <1>3, <1>4, <1>5, <1>7 DEF Next

\* One daemon, however often it is stopped, dies or is sent events again, gives
\* readers the moments of the history one after the other, for any orders, items,
\* log and number of faults that leave no save behind.
THEOREM OneDaemonShowsHistory ==
    ASSUME NEW d, OneDaemon(d)
    PROVE  Spec => ReadersSeeHistory
<1>1. Init => OrderViews!Init
  BY InitShows
<1>2. History(d) /\ History(d)' /\ [Next]_vars => [OrderViews!Next]_OrderViews!vars
  BY NextShows
<1>3. Spec => []History(d)
  BY OneDaemonInOrder
<1> QED
  BY <1>1, <1>2, <1>3, PTL DEF Spec, ReadersSeeHistory, OrderViews!Spec
=============================================================================
