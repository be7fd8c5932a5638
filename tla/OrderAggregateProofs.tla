------------------------ MODULE OrderAggregateProofs ------------------------
(***************************************************************************)
(* What events replay to, for any sequence of events: the induction over   *)
(* the events that proofs about orders and their documents rest on.        *)
(***************************************************************************)
EXTENDS OrderAggregate, WellFoundedInduction, SequenceTheorems, TLAPS

\* A set of natural numbers has a smallest one.
LEMMA SmallestExists ==
    ASSUME NEW T \in SUBSET Nat, T # {}
    PROVE  \E x \in T : \A y \in T : x <= y
<1>1. PICK x \in T : \A y \in T : <<y, x>> \notin OpToRel(<, Nat)
  BY WFMin, NatLessThanWellFounded
<1>2. \A y \in T : ~(y < x)
  BY <1>1 DEF OpToRel
<1> QED
  BY <1>2

\* after is what the replay of the first m events runs through.
Replays(after, events, o, m) ==
    after = [n \in 0..m |->
                IF n = 0 THEN NewOrder
                ELSE IF events[n].order = o THEN Apply(after[n - 1], events[n])
                ELSE after[n - 1]]

LEMMA ReplayExists ==
    ASSUME NEW events, NEW o, NEW m \in Nat
    PROVE  \E after : Replays(after, events, o, m)
<1> DEFINE T == {n \in Nat : ~\E after : Replays(after, events, o, n)}
<1>1. ASSUME T # {} PROVE FALSE
  <2>1. PICK x \in T : \A y \in T : x <= y
    BY <1>1, SmallestExists
  <2>2. x # 0
    <3>1. Replays([n \in {0} |-> NewOrder], events, o, 0)
      BY DEF Replays
    <3> QED
      BY <2>1, <3>1
  <2>3. x - 1 \in Nat /\ x - 1 \notin T
    BY <2>1, <2>2
  <2>4. PICK f : Replays(f, events, o, x - 1)
    BY <2>3
  <2> DEFINE g == [n \in 0..x |-> IF n < x THEN f[n]
                   ELSE IF events[x].order = o THEN Apply(f[x - 1], events[x])
                   ELSE f[x - 1]]
  <2>5. Replays(g, events, o, x)
    <3>1. \A n \in 0..(x - 1) :
             f[n] = IF n = 0 THEN NewOrder
                    ELSE IF events[n].order = o THEN Apply(f[n - 1], events[n])
                    ELSE f[n - 1]
      BY <2>4 DEF Replays
    <3>2. ASSUME NEW n \in 0..x
          PROVE  g[n] = IF n = 0 THEN NewOrder
                        ELSE IF events[n].order = o THEN Apply(g[n - 1], events[n])
                        ELSE g[n - 1]
      <4>1. CASE n = x
        <5>1. n # 0 /\ g[n - 1] = f[x - 1]
          BY <2>2, <2>3, <4>1
        <5>2. g[n] = IF events[n].order = o THEN Apply(f[x - 1], events[n]) ELSE f[x - 1]
          BY <4>1
        <5> HIDE DEF g
        <5> QED
          BY <5>1, <5>2
      <4>2. CASE n # x
        <5>1. n \in 0..(x - 1) /\ g[n] = f[n] /\ (n # 0 => g[n - 1] = f[n - 1])
          BY <2>3, <4>2
        <5> HIDE DEF g
        <5> QED
          BY <3>1, <5>1
      <4> QED
        BY <4>1, <4>2
    <3>3. g = [n \in 0..x |-> g[n]]
      OBVIOUS
    <3> HIDE DEF g
    <3> QED
      BY <3>2, <3>3 DEF Replays
  <2> QED
    BY <2>1, <2>5
<1> QED
  BY <1>1

\* Replays of sequences that begin alike begin alike.
LEMMA ReplaysAgree ==
    ASSUME NEW e, NEW f, NEW o, NEW j, NEW k, NEW p \in Nat, NEW q \in Nat, NEW m \in Nat,
           Replays(j, e, o, p), Replays(k, f, o, q), m <= p, m <= q,
           \A i \in 1..m : e[i] = f[i]
    PROVE  j[m] = k[m]
<1> DEFINE T == {n \in 0..m : j[n] # k[n]}
<1>1. ASSUME T # {} PROVE FALSE
  <2>1. PICK x \in T : \A y \in T : x <= y
    <3>1. T \in SUBSET Nat
      OBVIOUS
    <3> HIDE DEF T
    <3> QED
      BY <1>1, <3>1, SmallestExists
  <2>2. x \in 0..p /\ x \in 0..q
    OBVIOUS
  <2>3. x # 0
    BY <2>2 DEF Replays
  <2>4. j[x - 1] = k[x - 1]
    <3>1. x - 1 \in 0..m /\ x - 1 \notin T
      BY <2>1, <2>3
    <3> QED
      BY <3>1
  <2>5. e[x] = f[x]
    BY <2>3
  <2>6. j[x] = IF e[x].order = o THEN Apply(j[x - 1], e[x]) ELSE j[x - 1]
    BY <2>2, <2>3 DEF Replays
  <2>7. k[x] = IF f[x].order = o THEN Apply(k[x - 1], f[x]) ELSE k[x - 1]
    BY <2>2, <2>3 DEF Replays
  <2> QED
    BY <2>4, <2>5, <2>6, <2>7
<1> QED
  BY <1>1

LEMMA ReplayedIsLast ==
    ASSUME NEW events, Len(events) \in Nat, NEW o
    PROVE  \E after : /\ Replays(after, events, o, Len(events))
                      /\ Replayed(events, o) = after[Len(events)]
<1> DEFINE a == CHOOSE after : Replays(after, events, o, Len(events))
<1>1. Replays(a, events, o, Len(events))
  BY ReplayExists
<1>2. Replayed(events, o) = a[Len(events)]
  BY DEF Replayed, Replays
<1> QED
  BY <1>1, <1>2

-----------------------------------------------------------------------------
(* The facts that other proofs use *)

LEMMA NothingReplayed ==
    ASSUME NEW o
    PROVE  Replayed(<<>>, o) = NewOrder
<1>1. PICK k : Replays(k, <<>>, o, 0) /\ Replayed(<<>>, o) = k[0]
  BY ReplayedIsLast
<1> QED
  BY <1>1 DEF Replays

\* What the first n events rebuild depends on these only.
LEMMA BeginningsRebuild ==
    ASSUME NEW S, NEW e \in Seq(S), NEW f \in Seq(S), NEW o, NEW n \in Nat,
           n <= Len(e), n <= Len(f), \A i \in 1..n : e[i] = f[i]
    PROVE  Rebuilt(e, o, n) = Rebuilt(f, o, n)
<1>1. SubSeq(e, 1, n) = SubSeq(f, 1, n)
  OBVIOUS
<1> QED
  BY <1>1 DEF Rebuilt

\* One more event.
LEMMA RebuiltNext ==
    ASSUME NEW S, NEW e \in Seq(S), NEW o, NEW n \in 1..Len(e)
    PROVE  Rebuilt(e, o, n) = IF e[n].order = o THEN Apply(Rebuilt(e, o, n - 1), e[n])
                              ELSE Rebuilt(e, o, n - 1)
<1> DEFINE a == SubSeq(e, 1, n)
           b == SubSeq(e, 1, n - 1)
<1>1. /\ Len(a) = n /\ Len(b) = n - 1 /\ a[n] = e[n]
      /\ \A i \in 1..(n - 1) : a[i] = b[i]
  OBVIOUS
<1>2. Rebuilt(e, o, n) = Replayed(a, o) /\ Rebuilt(e, o, n - 1) = Replayed(b, o)
  BY DEF Rebuilt
<1> HIDE DEF a, b
<1>3. PICK j : Replays(j, a, o, n) /\ Replayed(a, o) = j[n]
  BY <1>1, ReplayedIsLast
<1>4. PICK k : Replays(k, b, o, n - 1) /\ Replayed(b, o) = k[n - 1]
  BY <1>1, ReplayedIsLast
<1>5. j[n - 1] = k[n - 1]
  BY <1>1, <1>3, <1>4, ReplaysAgree
<1>6. j[n] = IF e[n].order = o THEN Apply(j[n - 1], e[n]) ELSE j[n - 1]
  BY <1>1, <1>3 DEF Replays
<1> QED
  BY <1>2, <1>3, <1>4, <1>5, <1>6

LEMMA NothingRebuilt ==
    ASSUME NEW S, NEW e \in Seq(S), NEW o
    PROVE  Rebuilt(e, o, 0) = NewOrder
<1>1. SubSeq(e, 1, 0) = <<>>
  OBVIOUS
<1> QED
  BY <1>1, NothingReplayed DEF Rebuilt

\* All events rebuild what they replay to.
LEMMA AllRebuilt ==
    ASSUME NEW S, NEW e \in Seq(S), NEW o
    PROVE  Rebuilt(e, o, Len(e)) = Replayed(e, o)
<1>1. SubSeq(e, 1, Len(e)) = e
  OBVIOUS
<1> QED
  BY <1>1 DEF Rebuilt

LEMMA NewOrderIsContents ==
    NewOrder \in Contents
BY OrderAssumption, StatusAssumption DEF NewOrder, Contents, Fields, Statuses

LEMMA EventShape ==
    ASSUME NEW e \in Events
    PROVE  /\ e.order \in Orders
           /\ \/ e.field = "order" /\ e = OrderAdded(e.order)
              \/ e.field = "status" /\ e.value \in Statuses
              \/ e.field \in Slots /\ e.value \in Items \cup {Nothing}
BY DEF Events, UpdateEvents, OrderAdded, StatusEvent, SlotEvent

LEMMA ApplyIsContents ==
    ASSUME NEW k \in Contents, NEW e \in Events
    PROVE  Apply(k, e) \in Contents
<1>1. k \in [Fields -> Items \cup {Nothing} \cup Statuses]
  BY DEF Contents
<1>2. CASE e.field = "order"
  BY <1>2 DEF Apply
<1>3. CASE e.field = "status" /\ e.value \in Statuses
  BY <1>1, <1>3, OrderAssumption DEF Apply, Contents, Fields
<1>4. CASE e.field \in Slots /\ e.value \in Items \cup {Nothing}
  BY <1>1, <1>4, OrderAssumption, StatusAssumption DEF Apply, Contents, Fields
<1> QED
  BY <1>2, <1>3, <1>4, EventShape

\* Whatever the events, what they rebuild is an order's contents.
THEOREM RebuiltIsContents ==
    ASSUME NEW e \in Seq(Events), NEW o, NEW n \in 0..Len(e)
    PROVE  Rebuilt(e, o, n) \in Contents
<1> DEFINE T == {i \in 0..Len(e) : Rebuilt(e, o, i) \notin Contents}
<1>1. ASSUME T # {} PROVE FALSE
  <2>1. PICK x \in T : \A y \in T : x <= y
    <3>1. T \in SUBSET Nat
      OBVIOUS
    <3> HIDE DEF T
    <3> QED
      BY <1>1, <3>1, SmallestExists
  <2>2. x # 0
    BY NothingRebuilt, NewOrderIsContents
  <2>3. x \in 1..Len(e) /\ e[x] \in Events
    BY <2>2
  <2>4. Rebuilt(e, o, x - 1) \in Contents
    <3>1. x - 1 \in 0..Len(e) /\ x - 1 \notin T
      BY <2>1, <2>2
    <3> QED
      BY <3>1
  <2>5. Rebuilt(e, o, x) \in Contents
    BY <2>3, <2>4, RebuiltNext, ApplyIsContents
  <2> QED
    BY <2>5
<1> QED
  BY <1>1

\* Events of other orders rebuild nothing.
LEMMA OthersRebuildNothing ==
    ASSUME NEW S, NEW e \in Seq(S), NEW o, NEW n \in 0..Len(e),
           \A i \in 1..n : e[i].order # o
    PROVE  Rebuilt(e, o, n) = NewOrder
<1> DEFINE T == {i \in 0..n : Rebuilt(e, o, i) # NewOrder}
<1>1. ASSUME T # {} PROVE FALSE
  <2>1. PICK x \in T : \A y \in T : x <= y
    <3>1. T \in SUBSET Nat
      OBVIOUS
    <3> HIDE DEF T
    <3> QED
      BY <1>1, <3>1, SmallestExists
  <2>2. x # 0
    BY NothingRebuilt
  <2>3. x \in 1..Len(e) /\ x \in 1..n
    BY <2>2
  <2>4. Rebuilt(e, o, x - 1) = NewOrder
    <3>1. x - 1 \in 0..n /\ x - 1 \notin T
      BY <2>1, <2>2
    <3> QED
      BY <3>1
  <2>5. Rebuilt(e, o, x) = NewOrder
    BY <2>3, <2>4, RebuiltNext
  <2> QED
    BY <2>5
<1> QED
  BY <1>1

\* An event sets the field that it names, of its order, and nothing else.
LEMMA RebuiltField ==
    ASSUME NEW e \in Seq(Events), NEW o, NEW n \in 1..Len(e), NEW f \in Fields
    PROVE  Rebuilt(e, o, n)[f] = IF e[n].order = o /\ e[n].field = f THEN e[n].value
                                 ELSE Rebuilt(e, o, n - 1)[f]
<1>1. Rebuilt(e, o, n) = IF e[n].order = o THEN Apply(Rebuilt(e, o, n - 1), e[n])
                         ELSE Rebuilt(e, o, n - 1)
  BY RebuiltNext
<1>2. Rebuilt(e, o, n - 1) \in Contents
  BY RebuiltIsContents
<1>3. \A k \in Contents : Apply(k, e[n])[f] = IF e[n].field = f THEN e[n].value ELSE k[f]
  BY OrderAssumption DEF Apply, Contents, Fields
<1> QED
  BY <1>1, <1>2, <1>3
=============================================================================
