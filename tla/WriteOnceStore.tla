---------------------------- MODULE WriteOnceStore ----------------------------
(***************************************************************************)
(* What the command services of orders and of the menu amount to, for      *)
(* whoever calls them: a store of things that are written once.  A thing   *)
(* is created with its value, at most one caller being answered about it   *)
(* then; later it is shown on the read side, where others find it.  There  *)
(* is no step that changes or removes a thing.  OrderRequests and          *)
(* MenuRequests implement this store.                                      *)
(***************************************************************************)
EXTENDS Naturals

CONSTANTS
    Ids,     \* identities of the things
    Values   \* what a thing can be created with

VARIABLES
    writes,  \* events in the stream of each thing
    value,   \* what its events say, once there are any
    shown,   \* things with a document on the read side
    told     \* things that some caller was told are there

vars == <<writes, value, shown, told>>

Init ==
    /\ writes = [i \in Ids |-> 0]
    /\ value \in [Ids -> Values]
    /\ shown = {}
    /\ told = {}

\* The first event of i is stored; its creator hears of it now or never.
Create(i) ==
    /\ writes[i] = 0
    /\ writes' = [writes EXCEPT ![i] = 1]
    /\ value' \in [Ids -> Values]
    /\ \A j \in Ids \ {i} : value'[j] = value[j]
    /\ told' \in {told, told \cup {i}}
    /\ UNCHANGED shown

\* The document of i appears.
Show(i) ==
    /\ writes[i] > 0
    /\ shown' = shown \cup {i}
    /\ UNCHANGED <<writes, value, told>>

\* A caller finds the document.
Tell(i) ==
    /\ i \in shown
    /\ told' = told \cup {i}
    /\ UNCHANGED <<writes, value, shown>>

Next == \E i \in Ids : Create(i) \/ Show(i) \/ Tell(i)

Spec == Init /\ [][Next]_vars
=============================================================================
