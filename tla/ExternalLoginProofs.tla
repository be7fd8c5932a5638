------------------------- MODULE ExternalLoginProofs -------------------------
(***************************************************************************)
(* Proofs about ExternalLogin for any number of browsers, persons and      *)
(* names, whatever the provider says and however often the process ends.   *)
(***************************************************************************)
EXTENDS ExternalLogin, WellFoundedInduction, TLAPS

\* The part of the type invariant that needs nothing of what claims look like.
Types ==
    /\ key \in [Browsers -> Keys]
    /\ stage \in [Browsers -> Stages]
    /\ account \in [Browsers -> Names \cup {NoAccount}]
    /\ accounts \subseteq Names
    /\ logins \in [Keys -> accounts \cup {NoAccount}]
    /\ claims = [n \in Names |-> claims[n]]

\* A login that is being added has its account.
LinkHasAccount == \A b \in Browsers : stage[b] = "link" => account[b] \in accounts

\* From the moment the login is there, or was found, the account in hand is the
\* one it leads to.
Linked ==
    \A b \in Browsers : stage[b] \in {"enter", "answer", "in"} =>
        account[b] # NoAccount /\ logins[key[b]] = account[b]

\* Whoever is signed in, or about to be told so, has an account that can be read.
SignedInReadable ==
    \A b \in Browsers : stage[b] \in {"answer", "in"} => ~Unreadable(account[b])

\* The inductive invariant.
IInv == Types /\ LinkHasAccount /\ Linked /\ SignedInReadable

\* Browser b moves to stage s with account n in its hands.
Moves(b, s, n) ==
    /\ key' = key
    /\ stage' = [stage EXCEPT ![b] = s]
    /\ account' = [account EXCEPT ![b] = n]

\* A browser whose hands are empty afterwards disturbs nothing.
LEMMA LetsGo ==
    ASSUME IInv, NEW b \in Browsers, NEW s \in {"out", "away", "back", "form", "leaving"},
           Moves(b, s, NoAccount), UNCHANGED store
    PROVE  IInv'
BY DEF IInv, Types, LinkHasAccount, Linked, SignedInReadable, Moves, store, Stages, Unreadable

\* The process ends: who was being handled lets go, the others stay as they are.
LEMMA RestartKeeps ==
    ASSUME IInv, ProcessRestarts
    PROVE  IInv'
<1>1. UNCHANGED <<key, accounts, logins, claims>>
  BY DEF ProcessRestarts, store
<1>2. \A b \in Browsers :
        \/ stage'[b] = "out" /\ account'[b] = NoAccount
        \/ stage'[b] = stage[b] /\ account'[b] = account[b]
  BY DEF ProcessRestarts
<1>3. /\ stage' \in [Browsers -> Stages]
      /\ account' \in [Browsers -> Names \cup {NoAccount}]
  BY <1>2 DEF ProcessRestarts, IInv, Types, Stages
<1> QED
  BY <1>1, <1>2, <1>3 DEF IInv, Types, LinkHasAccount, Linked, SignedInReadable, Unreadable

\* What a refresh stores has a value.
LEMMA StoresValues ==
    ASSUME Types, NEW b \in Browsers, StoreClaims(b), NEW n \in Names, Unreadable(n)'
    PROVE  Unreadable(n)
<1> DEFINE r == refresh[b]
           new == IF r.found = {} THEN claims[r.account] \cup {r.mapped[i] : i \in r.due}
                  ELSE WithClaim(claims[r.account], r)
<1>1. ~Throws(r) /\ r.due # {}
  BY DEF StoreClaims
<1>2. claims' = [claims EXCEPT ![r.account] = new]
  BY DEF StoreClaims
<1>3. \A c \in new : c \in claims[r.account] \/ ~IsNull(c)
  <2>1. CASE r.found = {}
    BY <1>1, <2>1 DEF Throws
  <2>2. CASE r.found # {}
    BY <1>1, <2>2 DEF Throws, WithClaim, DueNow
  <2> QED
    BY <2>1, <2>2
<1>4. claims'[n] = claims[n] \/ (n = r.account /\ claims'[n] = new)
  <2>1. n \in DOMAIN claims
    BY DEF Types
  <2> HIDE DEF new, r
  <2> QED
    BY <1>2, <2>1
<1>5. PICK c \in claims'[n] : IsNull(c)
  BY DEF Unreadable
<1> QED
  BY <1>3, <1>4, <1>5 DEF Unreadable

\* In every reachable state the account in a browser's hands is the one its login
\* leads to, and can be read.
THEOREM Invariance == Spec => []IInv
<1>1. Init => IInv
  BY LoginAssumption DEF Init, IInv, Types, LinkHasAccount, Linked, SignedInReadable, Stages
<1>2. IInv /\ [Next]_vars => IInv'
  <2> SUFFICES ASSUME IInv, [Next]_vars PROVE IInv'
    OBVIOUS
  <2>1. CASE UNCHANGED vars
    BY <2>1 DEF vars, browser, store, IInv, Types, LinkHasAccount, Linked,
       SignedInReadable, Unreadable
  <2>2. CASE Restart
    BY <2>2, RestartKeeps DEF Restart
  <2>3. ASSUME NEW b \in Browsers, BrowserStep(b) PROVE IInv'
    <3>1. CASE \/ Challenge(b)
               \/ PropertiesAreGone(b)
               \/ RequestFails(b)
               \/ GiveUp(b)
               \/ Logout(b)
               \/ Redirect(b)
      <4>1. UNCHANGED store /\ \E s \in {"away", "out", "leaving"} : Moves(b, s, NoAccount)
        BY <3>1 DEF Challenge, PropertiesAreGone, RequestFails, GiveUp, Logout,
           Redirect, Go, Moves
      <4> QED
        BY <4>1, LetsGo
    <3>2. CASE ReturnFromProvider(b)
      BY <3>2 DEF ReturnFromProvider, store, IInv, Types, LinkHasAccount, Linked,
         SignedInReadable, Unreadable, Stages
    <3>3. CASE ExternalLoginCallback(b)
      <4> DEFINE n == logins[key[b]]
      <4>1. UNCHANGED <<key, store>>
        BY <3>3 DEF ExternalLoginCallback
      <4>2. CASE Moves(b, "out", NoAccount)
        BY <4>1, <4>2, LetsGo
      <4>3. CASE stage' = [stage EXCEPT ![b] = "form"] /\ UNCHANGED account
        BY <4>1, <4>3 DEF store, IInv, Types, LinkHasAccount, Linked,
           SignedInReadable, Unreadable, Stages
      <4>4. CASE n # NoAccount /\ ~Unreadable(n) /\ Moves(b, "answer", n)
        BY <4>1, <4>4 DEF store, Moves, IInv, Types, LinkHasAccount, Linked,
           SignedInReadable, Unreadable, Stages
      <4> QED
        BY <3>3, <4>2, <4>3, <4>4 DEF ExternalLoginCallback, Go, GoToForm, Moves
    <3>4. CASE AnswerCallback(b)
      BY <3>4 DEF AnswerCallback, Go, store, IInv, Types, LinkHasAccount, Linked,
         SignedInReadable, Unreadable, Stages
    <3>5. ASSUME NEW n \in Names, Create(b, n) PROVE IInv'
      <4>1. /\ n \notin accounts
            /\ accounts' = accounts \cup {n}
            /\ Moves(b, "link", n)
            /\ UNCHANGED logins
        BY <3>5 DEF Create, Go, Moves
      <4>2. PICK cs : claims' = [claims EXCEPT ![n] = cs]
        BY <3>5 DEF Create
      <4>3. Types'
        BY <4>1, <4>2 DEF IInv, Types, Moves, Stages
      <4>4. LinkHasAccount' /\ Linked'
        BY <4>1 DEF IInv, Types, LinkHasAccount, Linked, Moves
      <4>5. SignedInReadable'
        <5> SUFFICES ASSUME NEW c \in Browsers, stage'[c] \in {"answer", "in"}
                     PROVE  ~Unreadable(account[c])'
          BY DEF SignedInReadable
        <5>1. c # b /\ stage'[c] = stage[c] /\ account'[c] = account[c]
          BY <4>1 DEF IInv, Types, Moves
        <5>2. account[c] \in accounts /\ account[c] # n
          BY <4>1, <5>1 DEF IInv, Types, Linked
        <5>3. claims'[account[c]] = claims[account[c]]
          BY <4>2, <5>2 DEF IInv, Types
        <5> QED
          BY <5>1, <5>3 DEF IInv, SignedInReadable, Unreadable
      <4> QED
        BY <4>3, <4>4, <4>5 DEF IInv
    <3>6. CASE AddLogin(b)
      <4>1. stage[b] = "link" /\ account[b] \in accounts /\ account[b] # NoAccount
        BY <3>6, LoginAssumption DEF AddLogin, IInv, Types, LinkHasAccount
      <4>2. UNCHANGED <<key, accounts, claims>>
        BY <3>6 DEF AddLogin
      <4>3. CASE /\ logins[key[b]] = NoAccount
                 /\ logins' = [logins EXCEPT ![key[b]] = account[b]]
                 /\ Moves(b, "enter", account[b])
        BY <4>1, <4>2, <4>3 DEF Moves, IInv, Types, LinkHasAccount, Linked,
           SignedInReadable, Unreadable, Stages
      <4>4. CASE UNCHANGED logins /\ Moves(b, "form", NoAccount)
        BY <4>2, <4>4, LetsGo DEF store
      <4> QED
        BY <3>6, <4>2, <4>3, <4>4 DEF AddLogin, Go, Moves
    <3>7. CASE SignIn(b)
      BY <3>7 DEF SignIn, Go, store, IInv, Types, LinkHasAccount, Linked,
         SignedInReadable, Unreadable, Stages
    <3>8. CASE ReadClaims(b)
      BY <3>8 DEF ReadClaims, browser, store, IInv, Types, LinkHasAccount, Linked,
         SignedInReadable, Unreadable
    <3>9. CASE StoreClaims(b)
      <4>1. UNCHANGED <<key, stage, account, accounts, logins>>
        BY <3>9 DEF StoreClaims, browser
      <4>2. claims' = [n \in Names |-> claims'[n]]
        BY <3>9 DEF StoreClaims, IInv, Types
      <4>3. SignedInReadable'
        BY <3>9, <4>1, StoresValues DEF IInv, Types, Linked, SignedInReadable
      <4> QED
        BY <4>1, <4>2, <4>3 DEF IInv, Types, LinkHasAccount, Linked
    <3>10. CASE RefreshThrows(b)
      BY <3>10, RestartKeeps DEF RefreshThrows
    <3> QED
      BY <2>3, <3>1, <3>2, <3>3, <3>4, <3>5, <3>6, <3>7, <3>8, <3>9, <3>10 DEF BrowserStep
  <2> QED
    BY <2>1, <2>2, <2>3 DEF Next
<1> QED
  BY <1>1, <1>2, PTL DEF Spec

\* Whoever is signed in is so under the account linked to his identity.
THEOREM SignedInAreLinked == Spec => []SignedInIsLinked
<1>1. IInv => SignedInIsLinked
  BY DEF IInv, Linked, SignedInIsLinked
<1> QED
  BY <1>1, Invariance, PTL

\* Nobody is signed in under an account that can not be read.
THEOREM UnreadableKeptOut == Spec => []UnreadableStayOut
<1>1. IInv => UnreadableStayOut
  BY DEF IInv, SignedInReadable, UnreadableStayOut
<1> QED
  BY <1>1, Invariance, PTL

\* A step makes nobody link an account that is there and that nobody is linking.
LEMMA OrphanStep ==
    ASSUME IInv, Next, NEW n \in Names, Orphan(n)
    PROVE  Orphan(n)'
<1>1. CASE ProcessRestarts
  BY <1>1 DEF ProcessRestarts, store, Orphan
<1>2. ASSUME NEW b \in Browsers, AddLogin(b) PROVE Orphan(n)'
  <2>1. account[b] # n
    BY <1>2 DEF AddLogin, Orphan
  <2> QED
    BY <1>2, <2>1 DEF AddLogin, Go, Orphan, IInv, Types
<1>3. ASSUME NEW b \in Browsers, NEW m \in Names, Create(b, m) PROVE Orphan(n)'
  <2>1. m # n
    BY <1>3 DEF Create, Orphan
  <2> QED
    BY <1>3, <2>1 DEF Create, Go, Orphan, IInv, Types
<1>4. ASSUME NEW b \in Browsers,
             UNCHANGED <<accounts, logins>>,
             \A c \in Browsers : stage'[c] = "link" => stage[c] = "link" /\ account'[c] = account[c]
      PROVE  Orphan(n)'
  BY <1>4 DEF Orphan
<1>5. ASSUME NEW b \in Browsers, BrowserStep(b), ~ProcessRestarts, ~AddLogin(b),
             \A m \in Names : ~Create(b, m)
      PROVE  Orphan(n)'
  <2>1. UNCHANGED <<accounts, logins>>
    BY <1>5 DEF BrowserStep, Challenge, ReturnFromProvider, PropertiesAreGone,
       ExternalLoginCallback, AnswerCallback, SignIn, GiveUp, Logout, Redirect,
       RequestFails, ReadClaims, StoreClaims, RefreshThrows, store
  <2>2. \/ UNCHANGED <<stage, account>>
        \/ stage' = [stage EXCEPT ![b] = "back"] /\ UNCHANGED account
        \/ stage' = [stage EXCEPT ![b] = "form"] /\ UNCHANGED account
        \/ \E s \in Stages \ {"link"} : \E a : Moves(b, s, a)
    BY <1>5 DEF BrowserStep, Challenge, ReturnFromProvider, PropertiesAreGone,
       ExternalLoginCallback, AnswerCallback, SignIn, GiveUp, Logout, Redirect,
       RequestFails, ReadClaims, StoreClaims, RefreshThrows, browser, Go, GoToForm,
       Moves, Stages
  <2>3. \A c \in Browsers : stage'[c] = "link" => stage[c] = "link" /\ account'[c] = account[c]
    BY <2>2 DEF IInv, Types, Moves
  <2> QED
    BY <1>4, <2>1, <2>3
<1> QED
  BY <1>1, <1>2, <1>3, <1>5 DEF Next, Restart, BrowserStep

\* An account that was created and not linked is never linked.
THEOREM OrphansForGood == Spec => OrphansStay
<1>1. IInv /\ [Next]_vars => [\A n \in Names : Orphan(n) => Orphan(n)']_vars
  BY OrphanStep
<1> QED
  BY <1>1, Invariance, PTL DEF Spec, OrphansStay

-----------------------------------------------------------------------------
(* Types *)

\* The first of some places is one of them.
LEMMA MinIsIn ==
    ASSUME NEW S \in SUBSET Nat, S # {}
    PROVE  Min(S) \in S
<1>1. PICK a \in S : \A y \in S : <<y, a>> \notin OpToRel(<, Nat)
  BY WFMin, NatLessThanWellFounded
<1>2. \A y \in S : ~(y < a)
  BY <1>1 DEF OpToRel
<1>3. \A y \in S : a <= y
  BY <1>2
<1> QED
  BY <1>3 DEF Min

LEMMA FirstType ==
    ASSUME NEW s \in Seq(Claim), NEW t, First(s, t) > 0
    PROVE  First(s, t) \in 1..Len(s)
<1> DEFINE I == {i \in 1..Len(s) : s[i].type = t}
<1>1. First(s, t) = IF \E i \in DOMAIN s : s[i].type = t
                    THEN IF I # {} THEN Min(I) ELSE 0 ELSE 0
  BY DEF First, SelectInSeq
<1>2. I \in SUBSET Nat /\ I \subseteq 1..Len(s)
  OBVIOUS
<1> HIDE DEF I
<1>3. I # {} => Min(I) \in I
  BY <1>2, MinIsIn
<1>4. First(s, t) = 0 \/ (I # {} /\ First(s, t) = Min(I))
  BY <1>1
<1>5. First(s, t) # 0
  <2>1. PICK n : n = First(s, t)
    OBVIOUS
  <2>2. n > 0
    BY <2>1
  <2> QED
    BY <2>1, <2>2
<1>6. First(s, t) \in I
  BY <1>3, <1>4, <1>5, Zenon
<1> QED
  BY <1>2, <1>6, Zenon

LEMMA ClaimParts ==
    ASSUME NEW c \in Claim
    PROVE  c.value \in Seq(Words)
<1>1. PICK S : S = Seq(Words)
  OBVIOUS
<1>2. c \in [type : ClaimTypes, value : S]
  BY <1>1 DEF Claim
<1>3. c.value \in S
  BY <1>2
<1> QED
  BY <1>1, <1>3

LEMMA ClaimIs ==
    ASSUME NEW t \in ClaimTypes, NEW v \in Seq(Words)
    PROVE  [type |-> t, value |-> v] \in Claim
<1>1. PICK S : S = Seq(Words)
  OBVIOUS
<1>2. [type |-> t, value |-> v] \in [type : ClaimTypes, value : S]
  BY <1>1
<1> QED
  BY <1>1, <1>2 DEF Claim

\* What is mapped from claims are claims.
LEMMA MapClaimsType ==
    ASSUME NEW s \in Seq(Claim)
    PROVE  MapClaims(s) \in Seq(Claim)
<1> DEFINE g == First(s, "given")
           f == First(s, "family")
           Named(v) == Append(s, [type |-> "name", value |-> v])
<1>1. ASSUME NEW v \in Seq(Words) PROVE Named(v) \in Seq(Claim)
  <2>1. [type |-> "name", value |-> v] \in Claim
    <3>1. "name" \in ClaimTypes
      BY LoginAssumption
    <3> QED
      BY <3>1, ClaimIs
  <2> QED
    BY <2>1
<1>2. \A i \in 1..Len(s) : s[i].value \in Seq(Words)
  <2>1. \A i \in 1..Len(s) : s[i] \in Claim
    OBVIOUS
  <2> QED
    BY <2>1, ClaimParts
<1>3. /\ g > 0 => g \in 1..Len(s)
      /\ f > 0 => f \in 1..Len(s)
  BY FirstType
<1>4. MapClaims(s) =
        CASE First(s, "name") > 0 -> s
          [] First(s, "name") = 0 /\ g > 0 /\ f > 0 -> Named(s[g].value \o s[f].value)
          [] First(s, "name") = 0 /\ g > 0 /\ f = 0 -> Named(<<>>)
          [] First(s, "name") = 0 /\ g = 0 /\ f > 0 -> Named(s[f].value)
          [] OTHER -> s
  BY DEF MapClaims
<1> HIDE DEF g, f, Named
<1>5. MapClaims(s) = s \/ \E v \in Seq(Words) : MapClaims(s) = Named(v)
  <2>1. CASE First(s, "name") > 0
    BY <1>4, <2>1
  <2>2. CASE First(s, "name") = 0 /\ g > 0 /\ f > 0
    <3>1. s[g].value \o s[f].value \in Seq(Words)
      BY <1>2, <1>3, <2>2
    <3>2. MapClaims(s) = Named(s[g].value \o s[f].value)
      BY <1>4, <2>2
    <3> QED
      BY <3>1, <3>2
  <2>3. CASE First(s, "name") = 0 /\ g > 0 /\ f = 0
    <3>1. MapClaims(s) = Named(<<>>) /\ <<>> \in Seq(Words)
      BY <1>4, <2>3
    <3> QED
      BY <3>1
  <2>4. CASE First(s, "name") = 0 /\ g = 0 /\ f > 0
    <3>1. MapClaims(s) = Named(s[f].value)
      BY <1>4, <2>4
    <3> QED
      BY <1>2, <1>3, <2>4, <3>1
  <2>5. CASE /\ ~(First(s, "name") > 0)
             /\ ~(First(s, "name") = 0 /\ g > 0 /\ f > 0)
             /\ ~(First(s, "name") = 0 /\ g > 0 /\ f = 0)
             /\ ~(First(s, "name") = 0 /\ g = 0 /\ f > 0)
    BY <1>4, <2>5
  <2> QED
    BY <2>1, <2>2, <2>3, <2>4, <2>5
<1> QED
  BY <1>1, <1>5

\* A refresh that has something to do has one of the accounts there are, and its
\* claims.
Sound(r, names) ==
    /\ r \in Refresh /\ r.account \in names \cup {NoAccount}
    /\ r.due \subseteq DOMAIN r.mapped
    /\ r # Doomed => r.account \in names

Typed ==
    /\ key \in Owners
    /\ offer \in [Browsers -> Offers \cup {<<>>}]
    /\ cached \subseteq Browsers
    /\ \A n \in Names : \A c \in claims[n] : n \in accounts /\ c \in Claim
    /\ DOMAIN refresh = Browsers /\ refresh = [b \in Browsers |-> refresh[b]]
    /\ \A b \in Browsers : refresh[b] # NoRefresh => Sound(refresh[b], accounts)
    /\ faults \in 0..MaxFaults

\* What is kept of a refresh.
LEMMA RefreshParts ==
    ASSUME NEW r \in Refresh
    PROVE  /\ r = [account |-> r.account, mapped |-> r.mapped, found |-> r.found,
                   due |-> r.due, alone |-> r.alone]
           /\ r.account \in Names \cup {NoAccount} /\ r.mapped \in Seq(Claim)
           /\ r.found \in SUBSET Claim /\ r.due \in SUBSET Nat /\ r.alone \in BOOLEAN
           /\ r # NoRefresh
BY LoginAssumption DEF Refresh

LEMMA RefreshIs ==
    ASSUME NEW n \in Names \cup {NoAccount}, NEW m \in Seq(Claim), NEW s \in SUBSET Claim,
           NEW d \in SUBSET Nat, NEW a \in BOOLEAN
    PROVE  [account |-> n, mapped |-> m, found |-> s, due |-> d, alone |-> a] \in Refresh
BY DEF Refresh

LEMMA DoomedType == \A names : Sound(Doomed, names)
<1>1. Doomed \in Refresh
  <2>1. <<>> \in Seq(Claim) /\ {} \in SUBSET Claim /\ {} \in SUBSET Nat
    OBVIOUS
  <2> QED
    BY <2>1 DEF Doomed, Refresh
<1> QED
  BY <1>1 DEF Sound, Doomed

\* What has something due, or is alone, is of an account.
LEMMA SoundAccount ==
    ASSUME NEW r, NEW names, Sound(r, names), r.due # {} \/ r.alone
    PROVE  r.account \in names
BY DEF Sound, Doomed
\* A refresh starts, and the others of its account are no longer alone.
Started(b, n, o) ==
    /\ refresh' = [c \in Browsers |-> refresh'[c]]
    /\ refresh'[b] = [account |-> n, mapped |-> MapClaims(o), found |-> {}, due |-> {},
                      alone |-> \A c \in Browsers \ {b} :
                                    refresh[c] # NoRefresh => refresh[c].account # n]
    /\ \A c \in Browsers \ {b} :
          \/ refresh'[c] = refresh[c] /\ (refresh[c] # NoRefresh => refresh[c].account # n)
          \/ /\ refresh[c] # NoRefresh /\ refresh[c].account = n
             /\ refresh'[c] = [account |-> n, mapped |-> refresh[c].mapped,
                               found |-> refresh[c].found, due |-> refresh[c].due,
                               alone |-> FALSE]


\* A refresh that is no longer alone, or of which something else is due.
LEMMA RefreshParted ==
    ASSUME NEW r \in Refresh
    PROVE  \E a, m, f, u, x :
             /\ r = [account |-> a, mapped |-> m, found |-> f, due |-> u, alone |-> x]
             /\ r.account = a /\ r.mapped = m /\ r.found = f /\ r.due = u /\ r.alone = x
BY RefreshParts

LEMMA ExceptAlone ==
    ASSUME NEW r \in Refresh
    PROVE  [r EXCEPT !.alone = FALSE] =
                 [account |-> r.account, mapped |-> r.mapped, found |-> r.found,
                  due |-> r.due, alone |-> FALSE]
<1>1. ASSUME NEW a, NEW m, NEW f, NEW u, NEW x, NEW q, NEW z,
             q = [account |-> a, mapped |-> m, found |-> f, due |-> u, alone |-> x]
      PROVE  [q EXCEPT !.alone = z] =
                [account |-> a, mapped |-> m, found |-> f, due |-> u, alone |-> z]
  BY <1>1
<1>2. ASSUME NEW z
      PROVE  [r EXCEPT !.alone = z] =
                 [account |-> r.account, mapped |-> r.mapped, found |-> r.found,
                  due |-> r.due, alone |-> z]
  BY <1>1, RefreshParted
<1> QED
  BY <1>2, Zenon

LEMMA ExceptDue ==
    ASSUME NEW r \in Refresh, NEW d
    PROVE  [r EXCEPT !.due = d] =
                 [account |-> r.account, mapped |-> r.mapped, found |-> r.found,
                  due |-> d, alone |-> r.alone]
<1>1. ASSUME NEW a, NEW m, NEW f, NEW u, NEW x, NEW q,
             q = [account |-> a, mapped |-> m, found |-> f, due |-> u, alone |-> x]
      PROVE  [q EXCEPT !.due = d] =
                [account |-> a, mapped |-> m, found |-> f, due |-> d, alone |-> x]
  BY <1>1
<1> QED
  BY <1>1, RefreshParted

LEMMA StartEffect ==
    ASSUME Typed, NEW b \in Browsers, NEW n, NEW o, StartRefresh(b, n, o), o # <<>>
    PROVE  Started(b, n, o)
<1> DEFINE others == {c \in Browsers \ {b} : refresh[c] # NoRefresh /\ refresh[c].account = n}
<1>1. refresh' = [c \in Browsers |->
                    IF c = b THEN [account |-> n, mapped |-> MapClaims(o), found |-> {},
                                   due |-> {}, alone |-> others = {}]
                    ELSE IF c \in others THEN [refresh[c] EXCEPT !.alone = FALSE]
                    ELSE refresh[c]]
  BY DEF StartRefresh
<1>2. (others = {}) = \A c \in Browsers \ {b} :
                        refresh[c] # NoRefresh => refresh[c].account # n
  OBVIOUS
<1>3. ASSUME NEW c \in others
      PROVE  [refresh[c] EXCEPT !.alone = FALSE] =
                [account |-> n, mapped |-> refresh[c].mapped, found |-> refresh[c].found,
                 due |-> refresh[c].due, alone |-> FALSE]
  <2>1. refresh[c] \in Refresh /\ refresh[c].account = n
    BY DEF Typed, Sound
  <2>2. PICK r : r = refresh[c]
    OBVIOUS
  <2>3. [r EXCEPT !.alone = FALSE] =
            [account |-> r.account, mapped |-> r.mapped, found |-> r.found,
             due |-> r.due, alone |-> FALSE]
    BY <2>1, <2>2, ExceptAlone
  <2> QED
    BY <2>1, <2>2, <2>3
<1>4. refresh'[b] = [account |-> n, mapped |-> MapClaims(o), found |-> {}, due |-> {},
                     alone |-> \A c \in Browsers \ {b} :
                                   refresh[c] # NoRefresh => refresh[c].account # n]
  <2>1. refresh'[b] = [account |-> n, mapped |-> MapClaims(o), found |-> {}, due |-> {},
                       alone |-> others = {}]
    BY <1>1
  <2> HIDE DEF others
  <2> QED
    BY <1>2, <2>1
<1>5. ASSUME NEW c \in Browsers \ {b}
      PROVE  \/ refresh'[c] = refresh[c] /\ (refresh[c] # NoRefresh => refresh[c].account # n)
             \/ /\ refresh[c] # NoRefresh /\ refresh[c].account = n
                /\ refresh'[c] = [account |-> n, mapped |-> refresh[c].mapped,
                                  found |-> refresh[c].found, due |-> refresh[c].due,
                                  alone |-> FALSE]
  <2>1. CASE c \in others
    BY <1>1, <1>3, <2>1
  <2>2. CASE c \notin others
    <3>1. refresh'[c] = refresh[c]
      BY <1>1, <2>2
    <3> QED
      BY <2>2, <3>1
  <2> QED
    BY <2>1, <2>2
<1> QED
  BY <1>1, <1>4, <1>5 DEF Started

\* Claims are read: those that differ are due.
LEMMA ReadEffect ==
    ASSUME NEW b \in Browsers, NEW r, r = refresh[b], ReadClaims(b)
    PROVE  /\ r # NoRefresh /\ r # Doomed /\ r.due = {}
           /\ \E s \in FirstOfEach(claims[r.account]) : \E due :
                 /\ due = {i \in DOMAIN r.mapped : r.mapped[i] \notin s}
                 /\ refresh' = [refresh EXCEPT ![b] =
                       IF due = {} THEN NoRefresh
                       ELSE [account |-> r.account, mapped |-> r.mapped,
                             found |-> s, due |-> due, alone |-> r.alone]]
           /\ UNCHANGED <<browser, cached, store, faults>>
BY DEF ReadClaims

\* Claims are stored: all that are due, or the first of them.
LEMMA StoreEffect ==
    ASSUME NEW b \in Browsers, NEW r, r = refresh[b], StoreClaims(b)
    PROVE  /\ r # NoRefresh /\ r.due # {}
           /\ UNCHANGED <<browser, cached, accounts, logins, faults>>
           /\ \/ /\ r.found = {}
                 /\ claims' = [claims EXCEPT ![r.account] = @ \cup {r.mapped[i] : i \in r.due}]
                 /\ refresh' = [refresh EXCEPT ![b] = NoRefresh]
              \/ /\ r.found # {}
                 /\ claims' = [claims EXCEPT ![r.account] = WithClaim(@, r)]
                 /\ refresh' = [refresh EXCEPT ![b] =
                       IF r.due = {Min(r.due)} THEN NoRefresh
                       ELSE [r EXCEPT !.due = @ \ {Min(@)}]]
<1>1. CASE r.found = {}
  BY <1>1 DEF StoreClaims
<1>2. CASE r.found # {}
  BY <1>2 DEF StoreClaims
<1> QED
  BY <1>1, <1>2

\* A refresh that no other overlaps is the only one of its account.
Alone ==
    \A b, c \in Browsers :
        /\ b # c /\ refresh[b] # NoRefresh /\ refresh[c] # NoRefresh
        /\ refresh[b].alone
        => refresh[c].account # refresh[b].account

\* What such a refresh has left behind is with the account, and what it is to
\* replace still is.
Pending ==
    \A b \in Browsers : LET r == refresh[b] IN
        /\ r # NoRefresh
        /\ r.alone /\ r.due # {} /\ OneEach(r.mapped)
        => /\ \A i \in DOMAIN r.mapped \ r.due : r.mapped[i] \in claims[r.account]
           /\ \A i \in r.due : \A f \in r.found :
                 f.type = r.mapped[i].type => f \in claims[r.account]

\* The invariant of the refreshes.
RInv == Typed /\ Alone /\ Pending

\* A step that starts no refresh and goes on with none.
Quiet ==
    /\ DOMAIN refresh' = Browsers /\ refresh' = [b \in Browsers |-> refresh'[b]]
    /\ \A b \in Browsers : refresh'[b] \in {refresh[b], NoRefresh, Doomed}
    /\ accounts \subseteq accounts'
    /\ \A n \in accounts : claims'[n] = claims[n]

\* Who has more accounts has those of a refresh.
LEMMA SoundGrows ==
    ASSUME NEW r, NEW A, NEW B, A \subseteq B, Sound(r, A)
    PROVE  Sound(r, B)
BY DEF Sound

LEMMA QuietKeeps ==
    ASSUME Types, RInv, Quiet
    PROVE  /\ \A b \in Browsers : refresh'[b] # NoRefresh => Sound(refresh'[b], accounts')
           /\ Alone' /\ Pending'
<1>1. \A b \in Browsers : refresh'[b] # NoRefresh => Sound(refresh'[b], accounts')
  <2> SUFFICES ASSUME NEW b \in Browsers, refresh'[b] # NoRefresh
               PROVE  Sound(refresh'[b], accounts')
    OBVIOUS
  <2>1. CASE refresh'[b] = refresh[b]
    <3>1. Sound(refresh[b], accounts) /\ accounts \subseteq accounts'
      BY <2>1 DEF RInv, Typed, Quiet
    <3>2. Sound(refresh[b], accounts')
      BY <3>1, SoundGrows
    <3> QED
      BY <2>1, <3>2
  <2>2. CASE refresh'[b] = Doomed
    BY <2>2, DoomedType
  <2> QED
    BY <2>1, <2>2 DEF Quiet
<1>2. Doomed.alone = FALSE /\ Doomed.account = NoAccount
  BY DEF Doomed
<1>3. \A b \in Browsers : refresh'[b] # NoRefresh /\ refresh'[b].alone =>
        refresh'[b] = refresh[b] /\ refresh[b].account \in accounts
  BY <1>2, SoundAccount DEF Quiet, RInv, Typed
<1>4. Alone'
  <2> SUFFICES ASSUME NEW b \in Browsers, NEW c \in Browsers, b # c,
                      refresh'[b] # NoRefresh, refresh'[c] # NoRefresh, refresh'[b].alone
               PROVE  refresh'[c].account # refresh'[b].account
    BY DEF Alone
  <2>1. refresh'[b] = refresh[b] /\ refresh[b].account \in accounts
    BY <1>3
  <2>2. CASE refresh'[c] = refresh[c]
    BY <2>1, <2>2 DEF RInv, Alone
  <2>3. CASE refresh'[c] = Doomed
    <3>1. NoAccount \notin accounts
      BY LoginAssumption, <2>1 DEF Types
    <3> QED
      BY <1>2, <2>1, <2>3, <3>1
  <2> QED
    BY <2>2, <2>3 DEF Quiet
<1>5. Pending'
  <2> SUFFICES ASSUME NEW b \in Browsers, refresh'[b] # NoRefresh, refresh'[b].alone,
                      refresh'[b].due # {}, OneEach(refresh'[b].mapped)
               PROVE  /\ \A i \in DOMAIN refresh'[b].mapped \ refresh'[b].due :
                            refresh'[b].mapped[i] \in claims'[refresh'[b].account]
                      /\ \A i \in refresh'[b].due : \A f \in refresh'[b].found :
                            f.type = refresh'[b].mapped[i].type =>
                               f \in claims'[refresh'[b].account]
    BY DEF Pending, OneEach
  <2>1. refresh'[b] = refresh[b] /\ claims'[refresh[b].account] = claims[refresh[b].account]
    BY <1>3 DEF Quiet
  <2> QED
    BY <2>1 DEF RInv, Pending
<1> QED
  BY <1>1, <1>4, <1>5

\* What is kept beside the refreshes and the claims.
Kept ==
    /\ key \in Owners
    /\ offer \in [Browsers -> Offers \cup {<<>>}]
    /\ cached \subseteq Browsers
    /\ faults \in 0..MaxFaults

LEMMA KeptStep ==
    ASSUME Kept, Next
    PROVE  Kept'
<1>1. \A f \in 0..MaxFaults : f > 0 => f - 1 \in 0..MaxFaults
  BY LoginAssumption
<1>2. CASE Restart
  BY <1>1, <1>2 DEF Kept, Restart, Fault, ProcessRestarts
<1>3. ASSUME NEW b \in Browsers, BrowserStep(b) PROVE Kept'
  <2>1. key' = key
    BY <1>3 DEF BrowserStep, Challenge, ReturnFromProvider, PropertiesAreGone,
       ExternalLoginCallback, AnswerCallback, Create, AddLogin, SignIn, GiveUp, Logout,
       Redirect, RequestFails, ReadClaims, StoreClaims, RefreshThrows, ProcessRestarts,
       browser
  <2>2. faults' = faults \/ Fault
    BY <1>3 DEF BrowserStep, Challenge, ReturnFromProvider, PropertiesAreGone,
       ExternalLoginCallback, AnswerCallback, Create, AddLogin, SignIn, GiveUp, Logout,
       Redirect, RequestFails, ReadClaims, StoreClaims, RefreshThrows
  <2>3. cached' \in {cached, cached \cup {b}, cached \ {b}, {}}
    BY <1>3 DEF BrowserStep, Challenge, ReturnFromProvider, PropertiesAreGone,
       ExternalLoginCallback, AnswerCallback, Create, AddLogin, SignIn, GiveUp, Logout,
       Redirect, RequestFails, ReadClaims, StoreClaims, RefreshThrows, ProcessRestarts
  <2>4. \/ offer' = offer
        \/ \E o \in Offers \cup {<<>>} : offer' = [offer EXCEPT ![b] = o]
        \/ ProcessRestarts
    <3>1. ASSUME NEW s, NEW n, Go(b, s, n)
          PROVE  \E o \in Offers \cup {<<>>} : offer' = [offer EXCEPT ![b] = o]
      <4>1. offer[b] \in Offers \cup {<<>>}
        BY DEF Kept
      <4>2. CASE s \in {"form", "link"}
        BY <3>1, <4>1, <4>2 DEF Go
      <4>3. CASE s \notin {"form", "link"}
        BY <3>1, <4>3 DEF Go
      <4> QED
        BY <4>2, <4>3
    <3>2. ASSUME NEW o \in Offers, GoToForm(b, o)
          PROVE  \E p \in Offers \cup {<<>>} : offer' = [offer EXCEPT ![b] = p]
      BY <3>2 DEF GoToForm
    <3>3. \/ offer' = offer
          \/ \E s, n : Go(b, s, n)
          \/ \E o \in Offers : GoToForm(b, o)
          \/ ProcessRestarts
      BY <1>3 DEF BrowserStep, Challenge, ReturnFromProvider, PropertiesAreGone,
         ExternalLoginCallback, AnswerCallback, Create, AddLogin, SignIn, GiveUp, Logout,
         Redirect, RequestFails, ReadClaims, StoreClaims, RefreshThrows, browser
    <3> QED
      BY <3>1, <3>2, <3>3
  <2>5. offer' \in [Browsers -> Offers \cup {<<>>}]
    <3>1. CASE \E o \in Offers \cup {<<>>} : offer' = [offer EXCEPT ![b] = o]
      BY <3>1 DEF Kept
    <3>2. CASE ProcessRestarts
      BY <3>2 DEF ProcessRestarts, Kept
    <3> QED
      BY <2>4, <3>1, <3>2 DEF Kept
  <2>6. faults' \in 0..MaxFaults
    BY <1>1, <2>2 DEF Fault, Kept
  <2> QED
    BY <2>1, <2>3, <2>5, <2>6 DEF Kept
<1> QED
  BY <1>2, <1>3 DEF Next

\* What is known of the refresh of a browser.
LEMMA RefreshOf ==
    ASSUME RInv, NEW b \in Browsers, NEW r, r = refresh[b], r # NoRefresh
    PROVE  /\ Sound(r, accounts) /\ r \in Refresh
           /\ r.mapped \in Seq(Claim) /\ r.found \in SUBSET Claim
           /\ r.due \in SUBSET Nat /\ r.alone \in BOOLEAN
           /\ r.due \subseteq DOMAIN r.mapped
<1>1. Sound(r, accounts)
  BY DEF RInv, Typed
<1>2. r \in Refresh /\ r.due \subseteq DOMAIN r.mapped
  BY <1>1 DEF Sound
<1> QED
  BY <1>1, <1>2, RefreshParts

\* A sign-in starts the refresh of its account.
LEMMA StartKeeps ==
    ASSUME Types, RInv, NEW b \in Browsers, NEW n \in accounts, NEW o \in Offers,
           refresh[b] = NoRefresh, StartRefresh(b, n, o), UNCHANGED store
    PROVE  RInv' \/ ~Kept'
<1> SUFFICES ASSUME Kept' PROVE RInv'
  OBVIOUS
<1>1. CASE o = <<>>
  <2>1. Quiet
    BY <1>1 DEF StartRefresh, Quiet, store, RInv, Typed
  <2> QED
    BY <2>1, QuietKeeps DEF RInv, Typed, Kept, store, Quiet
<1>2. CASE o # <<>>
  <2>1. Started(b, n, o)
    BY <1>2, StartEffect DEF RInv
  <2>2. DOMAIN refresh' = Browsers /\ refresh' = [c \in Browsers |-> refresh'[c]]
    BY <2>1 DEF Started
  <2>3. MapClaims(o) \in Seq(Claim)
    BY LoginAssumption, MapClaimsType
  <2>4. PICK x \in BOOLEAN :
          /\ x = \A c \in Browsers \ {b} : refresh[c] # NoRefresh => refresh[c].account # n
          /\ refresh'[b] = [account |-> n, mapped |-> MapClaims(o), found |-> {}, due |-> {},
                            alone |-> x]
    BY <2>1 DEF Started
  <2>5. n \in Names
    BY DEF Types
  <2>6. Sound(refresh'[b], accounts')
    <3>1. refresh'[b] \in Refresh
      BY <2>3, <2>4, <2>5, RefreshIs
    <3> QED
      BY <2>4, <3>1 DEF Sound, store
  <2>7. ASSUME NEW c \in Browsers \ {b}, refresh'[c] # refresh[c]
        PROVE  /\ Sound(refresh'[c], accounts') /\ refresh[c] # NoRefresh
               /\ refresh'[c].account = n /\ refresh[c].account = n
               /\ refresh'[c].alone = FALSE
    <3>1. PICK r : r = refresh[c]
      OBVIOUS
    <3>2. /\ r # NoRefresh /\ r.account = n
          /\ refresh'[c] = [account |-> n, mapped |-> r.mapped, found |-> r.found,
                            due |-> r.due, alone |-> FALSE]
      BY <2>1, <2>7, <3>1 DEF Started
    <3>3. r.mapped \in Seq(Claim) /\ r.found \in SUBSET Claim
          /\ r.due \in SUBSET Nat /\ r.due \subseteq DOMAIN r.mapped
      BY <3>1, <3>2, RefreshOf
    <3>4. refresh'[c] \in Refresh
      BY <2>5, <3>2, <3>3, RefreshIs
    <3>5. refresh'[c].due = r.due /\ refresh'[c].mapped = r.mapped
          /\ refresh'[c].account = n /\ refresh'[c].alone = FALSE
      BY <3>2
    <3>6. Sound(refresh'[c], accounts')
      BY <3>3, <3>4, <3>5 DEF Sound, store
    <3> QED
      BY <3>1, <3>2, <3>5, <3>6
  <2>8. \A c \in Browsers : refresh'[c] # NoRefresh => Sound(refresh'[c], accounts')
    <3> SUFFICES ASSUME NEW c \in Browsers, refresh'[c] # NoRefresh
                 PROVE  Sound(refresh'[c], accounts')
      OBVIOUS
    <3>1. CASE c = b
      BY <2>6, <3>1
    <3>2. CASE c # b /\ refresh'[c] = refresh[c]
      BY <3>2 DEF RInv, Typed, store
    <3>3. CASE c # b /\ refresh'[c] # refresh[c]
      BY <2>7, <3>3
    <3> QED
      BY <3>1, <3>2, <3>3
  <2>9. Alone'
    <3> SUFFICES ASSUME NEW c \in Browsers, NEW d \in Browsers, c # d,
                        refresh'[c] # NoRefresh, refresh'[d] # NoRefresh,
                        refresh'[c].alone
                 PROVE  refresh'[d].account # refresh'[c].account
      BY DEF Alone
    <3>1. CASE c = b
      <4>1. refresh[d] # NoRefresh => refresh[d].account # n
        BY <2>4, <3>1
      <4>2. refresh'[d] = refresh[d]
        BY <2>7, <3>1, <4>1
      <4> QED
        BY <2>4, <3>1, <4>1, <4>2
    <3>2. CASE c # b
      <4>1. refresh'[c] = refresh[c]
        BY <2>7, <3>2
      <4>2. refresh[c].account # n
        BY <2>1, <3>2, <4>1 DEF Started
      <4>3. CASE d = b
        BY <2>4, <4>1, <4>2, <4>3
      <4>4. CASE d # b /\ refresh'[d] = refresh[d]
        BY <4>1, <4>4 DEF RInv, Alone
      <4>5. CASE d # b /\ refresh'[d] # refresh[d]
        BY <2>7, <4>1, <4>2, <4>5
      <4> QED
        BY <4>3, <4>4, <4>5
    <3> QED
      BY <3>1, <3>2
  <2>10. Pending'
    <3>1. ASSUME NEW c \in Browsers, refresh'[c] # NoRefresh, refresh'[c].alone,
                 refresh'[c].due # {}
          PROVE  refresh'[c] = refresh[c]
      <4>1. refresh'[b].due = {}
        BY <2>4
      <4>2. c \in Browsers \ {b}
        BY <3>1, <4>1
      <4>3. refresh'[c] # refresh[c] => refresh'[c].alone = FALSE
        BY <2>7, <4>2
      <4> QED
        BY <3>1, <4>3
    <3>2. claims' = claims
      BY DEF store
    <3> SUFFICES ASSUME NEW c \in Browsers, refresh'[c] # NoRefresh, refresh'[c].alone,
                        refresh'[c].due # {}, OneEach(refresh'[c].mapped)
                 PROVE  /\ \A i \in DOMAIN refresh'[c].mapped \ refresh'[c].due :
                              refresh'[c].mapped[i] \in claims'[refresh'[c].account]
                        /\ \A i \in refresh'[c].due : \A f \in refresh'[c].found :
                              f.type = refresh'[c].mapped[i].type =>
                                 f \in claims'[refresh'[c].account]
      BY DEF Pending, OneEach
    <3>3. refresh'[c] = refresh[c]
      BY <3>1
    <3> QED
      BY <3>2, <3>3 DEF RInv, Pending
  <2>11. \A m \in Names : \A c \in claims'[m] : m \in accounts' /\ c \in Claim
    BY DEF RInv, Typed, store
  <2> QED
    BY <2>2, <2>8, <2>9, <2>10, <2>11 DEF RInv, Typed, Kept
<1> QED
  BY <1>1, <1>2

\* The claims that differ from those of the account are due.
LEMMA ReadKeeps ==
    ASSUME Types, RInv, NEW b \in Browsers, ReadClaims(b)
    PROVE  RInv' \/ ~Kept'
<1> SUFFICES ASSUME Kept' PROVE RInv'
  OBVIOUS
<1>1. PICK r : r = refresh[b]
  OBVIOUS
<1>2. /\ r # NoRefresh /\ r # Doomed /\ r.due = {}
      /\ UNCHANGED <<browser, cached, store, faults>>
  BY <1>1, ReadEffect
<1>a. PICK s \in FirstOfEach(claims[r.account]) : \E due :
        /\ due = {i \in DOMAIN r.mapped : r.mapped[i] \notin s}
        /\ refresh' = [refresh EXCEPT ![b] =
              IF due = {} THEN NoRefresh
              ELSE [account |-> r.account, mapped |-> r.mapped,
                    found |-> s, due |-> due, alone |-> r.alone]]
  BY <1>1, ReadEffect
<1>3. PICK due :
        /\ s \in FirstOfEach(claims[r.account])
        /\ due = {i \in DOMAIN r.mapped : r.mapped[i] \notin s}
        /\ refresh' = [refresh EXCEPT ![b] =
              IF due = {} THEN NoRefresh
              ELSE [account |-> r.account, mapped |-> r.mapped,
                    found |-> s, due |-> due, alone |-> r.alone]]
  BY <1>a
<1>4. /\ r.account \in accounts /\ r.mapped \in Seq(Claim) /\ r.alone \in BOOLEAN
  BY <1>1, <1>2, RefreshOf DEF Sound
<1>5. r.account \in Names
  BY <1>4 DEF Types
<1>6. s \subseteq claims[r.account] /\ s \in SUBSET Claim
  BY <1>3, <1>5 DEF FirstOfEach, RInv, Typed
<1>7. DOMAIN refresh = Browsers /\ refresh = [c \in Browsers |-> refresh[c]]
  BY DEF RInv, Typed
<1>8. CASE due = {}
  <2>1. Quiet
    BY <1>2, <1>3, <1>7, <1>8 DEF Quiet, store
  <2> QED
    BY <1>2, <2>1, QuietKeeps DEF RInv, Typed, Kept, store, Quiet
<1>9. CASE due # {}
  <2> DEFINE q == [account |-> r.account, mapped |-> r.mapped, found |-> s, due |-> due,
                   alone |-> r.alone]
  <2>1. refresh'[b] = q /\ \A c \in Browsers \ {b} : refresh'[c] = refresh[c]
    BY <1>3, <1>7, <1>9
  <2>2. DOMAIN refresh' = Browsers /\ refresh' = [c \in Browsers |-> refresh'[c]]
    BY <1>3, <1>7
  <2>3. due \in SUBSET Nat /\ due \subseteq DOMAIN r.mapped
    BY <1>3, <1>4
  <2>4. q \in Refresh
    BY <1>4, <1>5, <1>6, <2>3, RefreshIs
  <2>5. /\ q.account = r.account /\ q.mapped = r.mapped /\ q.due = due /\ q.found = s
        /\ q.alone = r.alone
    OBVIOUS
  <2> HIDE DEF q
  <2>6. Sound(q, accounts')
    BY <1>2, <1>4, <2>3, <2>4, <2>5 DEF Sound, store
  <2>7. \A c \in Browsers : refresh'[c] # NoRefresh => Sound(refresh'[c], accounts')
    BY <1>2, <2>1, <2>6 DEF RInv, Typed, store
  <2>8. Alone'
    BY <1>1, <1>2, <2>1, <2>5 DEF RInv, Alone
  <2>9. Pending'
    <3> SUFFICES ASSUME NEW c \in Browsers, refresh'[c] # NoRefresh, refresh'[c].alone,
                        refresh'[c].due # {}, OneEach(refresh'[c].mapped)
                 PROVE  /\ \A i \in DOMAIN refresh'[c].mapped \ refresh'[c].due :
                              refresh'[c].mapped[i] \in claims'[refresh'[c].account]
                        /\ \A i \in refresh'[c].due : \A f \in refresh'[c].found :
                              f.type = refresh'[c].mapped[i].type =>
                                 f \in claims'[refresh'[c].account]
      BY DEF Pending, OneEach
    <3>1. claims' = claims
      BY <1>2 DEF store
    <3>2. CASE c = b
      BY <1>3, <1>6, <2>1, <2>5, <3>1, <3>2
    <3>3. CASE c # b
      BY <2>1, <3>1, <3>3 DEF RInv, Pending
    <3> QED
      BY <3>2, <3>3
  <2>10. \A m \in Names : \A c \in claims'[m] : m \in accounts' /\ c \in Claim
    BY <1>2 DEF RInv, Typed, store
  <2> QED
    BY <2>2, <2>7, <2>8, <2>9, <2>10 DEF RInv, Typed, Kept
<1> QED
  BY <1>8, <1>9

\* The claims a refresh stores: they are claims, and what is not of the type of
\* the claim that is stored stays.
LEMMA Stored ==
    ASSUME Types, RInv, NEW b \in Browsers, StoreClaims(b), NEW r, r = refresh[b]
    PROVE  /\ r # NoRefresh /\ r.account \in accounts /\ r.account \in Names
           /\ DueNow(r) \in Claim /\ Min(r.due) \in r.due
           /\ \A i \in r.due : r.mapped[i] \in Claim
<1>1. r # NoRefresh /\ r.due # {}
  BY StoreEffect
<1>2. /\ r.mapped \in Seq(Claim) /\ r.due \in SUBSET Nat /\ r.due \subseteq DOMAIN r.mapped
      /\ Sound(r, accounts)
  BY <1>1, RefreshOf
<1>3. r.account \in accounts /\ r.account \in Names
  BY <1>1, <1>2, SoundAccount DEF Types
<1>4. Min(r.due) \in r.due
  BY <1>1, <1>2, MinIsIn
<1>5. \A i \in r.due : r.mapped[i] \in Claim
  BY <1>2
<1> QED
  BY <1>1, <1>3, <1>4, <1>5 DEF DueNow

\* The claims that are due are stored, or the first of them.
LEMMA StoreKeeps ==
    ASSUME Types, RInv, NEW b \in Browsers, StoreClaims(b)
    PROVE  RInv' \/ ~Kept'
<1> SUFFICES ASSUME Kept' PROVE RInv'
  OBVIOUS
<1>1. PICK r : r = refresh[b]
  OBVIOUS
<1>2. /\ r # NoRefresh /\ r.account \in accounts /\ r.account \in Names
      /\ DueNow(r) \in Claim /\ Min(r.due) \in r.due
      /\ \A i \in r.due : r.mapped[i] \in Claim
  BY <1>1, Stored
<1>3. /\ r.mapped \in Seq(Claim) /\ r.found \in SUBSET Claim
      /\ r.due \in SUBSET Nat /\ r.alone \in BOOLEAN /\ r.due \subseteq DOMAIN r.mapped
      /\ Sound(r, accounts) /\ r \in Refresh
  BY <1>1, <1>2, RefreshOf
<1>4. UNCHANGED <<browser, cached, accounts, logins, faults>>
  BY <1>1, StoreEffect
<1>5. DOMAIN refresh = Browsers /\ refresh = [c \in Browsers |-> refresh[c]]
  BY DEF RInv, Typed
<1>6. DOMAIN claims = Names
  BY DEF Types
<1>7. CASE /\ r.found = {}
           /\ claims' = [claims EXCEPT ![r.account] = @ \cup {r.mapped[i] : i \in r.due}]
           /\ refresh' = [refresh EXCEPT ![b] = NoRefresh]
  <2>1. \A m \in Names : \A c \in claims'[m] : m \in accounts' /\ c \in Claim
    BY <1>2, <1>4, <1>6, <1>7 DEF RInv, Typed
  <2>2. \A m \in Names : claims[m] \subseteq claims'[m]
    BY <1>2, <1>6, <1>7
  <2>3. /\ refresh'[b] = NoRefresh /\ \A c \in Browsers \ {b} : refresh'[c] = refresh[c]
        /\ DOMAIN refresh' = Browsers /\ refresh' = [c \in Browsers |-> refresh'[c]]
    BY <1>5, <1>7
  <2>4. \A c \in Browsers : refresh'[c] # NoRefresh => Sound(refresh'[c], accounts')
    BY <1>4, <2>3 DEF RInv, Typed
  <2>5. Alone'
    BY <2>3 DEF RInv, Alone
  <2>6. Pending'
    <3> SUFFICES ASSUME NEW c \in Browsers, refresh'[c] # NoRefresh, refresh'[c].alone,
                        refresh'[c].due # {}, OneEach(refresh'[c].mapped)
                 PROVE  /\ \A i \in DOMAIN refresh'[c].mapped \ refresh'[c].due :
                              refresh'[c].mapped[i] \in claims'[refresh'[c].account]
                        /\ \A i \in refresh'[c].due : \A f \in refresh'[c].found :
                              f.type = refresh'[c].mapped[i].type =>
                                 f \in claims'[refresh'[c].account]
      BY DEF Pending, OneEach
    <3>1. refresh'[c] = refresh[c]
      BY <2>3
    <3>2. refresh[c].account \in Names
      BY <3>1, SoundAccount DEF RInv, Typed, Types
    <3>3. claims[refresh[c].account] \subseteq claims'[refresh[c].account]
      BY <2>2, <3>2
    <3> QED
      BY <3>1, <3>3 DEF RInv, Pending
  <2> QED
    BY <2>1, <2>3, <2>4, <2>5, <2>6 DEF RInv, Typed, Kept
<1>8. CASE /\ r.found # {}
           /\ claims' = [claims EXCEPT ![r.account] = WithClaim(@, r)]
           /\ refresh' = [refresh EXCEPT ![b] =
                 IF r.due = {Min(r.due)} THEN NoRefresh
                 ELSE [r EXCEPT !.due = @ \ {Min(@)}]]
  <2> DEFINE cs == claims[r.account]
             new == WithClaim(cs, r)
             old == {f \in r.found : f.type = DueNow(r).type}
  <2>1. /\ claims'[r.account] = new
        /\ \A m \in Names : m # r.account => claims'[m] = claims[m]
    <3>1. claims' = [claims EXCEPT ![r.account] = new]
      BY <1>8
    <3> HIDE DEF new
    <3> QED
      BY <1>2, <1>6, <3>1
  <2>2. new \subseteq cs \cup {DueNow(r)}
    BY DEF WithClaim
  <2>3. \A m \in Names : \A c \in claims'[m] : m \in accounts' /\ c \in Claim
    <3> HIDE DEF new
    <3>1. \A c \in new : c \in Claim
      BY <1>2, <2>2 DEF RInv, Typed
    <3> QED
      BY <1>2, <1>4, <2>1, <3>1 DEF RInv, Typed
  <2>4. /\ \A c \in Browsers \ {b} : refresh'[c] = refresh[c]
        /\ DOMAIN refresh' = Browsers /\ refresh' = [c \in Browsers |-> refresh'[c]]
    BY <1>5, <1>8
  <2>5. PICK q : /\ q = refresh'[b]
                 /\ \/ q = NoRefresh
                    \/ q = [account |-> r.account, mapped |-> r.mapped, found |-> r.found,
                            due |-> r.due \ {Min(r.due)}, alone |-> r.alone]
                       /\ r.due # {Min(r.due)}
    <3>1. [r EXCEPT !.due = r.due \ {Min(r.due)}] =
             [account |-> r.account, mapped |-> r.mapped, found |-> r.found,
              due |-> r.due \ {Min(r.due)}, alone |-> r.alone]
      BY <1>3, ExceptDue
    <3>2. refresh'[b] = IF r.due = {Min(r.due)} THEN NoRefresh
                        ELSE [r EXCEPT !.due = r.due \ {Min(r.due)}]
      BY <1>5, <1>8
    <3> QED
      BY <3>1, <3>2
  <2>6. q # NoRefresh =>
          /\ q.account = r.account /\ q.mapped = r.mapped /\ q.found = r.found
          /\ q.due = r.due \ {Min(r.due)} /\ q.alone = r.alone
    BY <2>5
  <2>7. q # NoRefresh => Sound(q, accounts')
    <3> SUFFICES ASSUME q # NoRefresh PROVE Sound(q, accounts')
      OBVIOUS
    <3>1. r.due \ {Min(r.due)} \in SUBSET Nat
      BY <1>3
    <3>2. [account |-> r.account, mapped |-> r.mapped, found |-> r.found,
           due |-> r.due \ {Min(r.due)}, alone |-> r.alone] \in Refresh
      BY <1>2, <1>3, <3>1, RefreshIs
    <3>3. q \in Refresh
      BY <2>5, <3>2, Zenon
    <3>4. q.account \in accounts' /\ q.due \subseteq DOMAIN q.mapped
      BY <1>2, <1>3, <1>4, <2>6
    <3> QED
      BY <3>3, <3>4 DEF Sound
  <2>8. \A c \in Browsers : refresh'[c] # NoRefresh => Sound(refresh'[c], accounts')
    BY <1>4, <2>4, <2>5, <2>7 DEF RInv, Typed
  <2>9. Alone'
    BY <1>1, <1>2, <2>4, <2>5, <2>6 DEF RInv, Alone
  <2>10. Pending'
    <3> SUFFICES ASSUME NEW c \in Browsers, refresh'[c] # NoRefresh, refresh'[c].alone,
                        refresh'[c].due # {}, OneEach(refresh'[c].mapped)
                 PROVE  /\ \A i \in DOMAIN refresh'[c].mapped \ refresh'[c].due :
                              refresh'[c].mapped[i] \in claims'[refresh'[c].account]
                        /\ \A i \in refresh'[c].due : \A f \in refresh'[c].found :
                              f.type = refresh'[c].mapped[i].type =>
                                 f \in claims'[refresh'[c].account]
      BY DEF Pending, OneEach
    <3>1. CASE c # b
      <4>1. refresh'[c] = refresh[c]
        BY <2>4, <3>1
      <4>2. refresh[c].account \in Names
        BY <4>1, SoundAccount DEF RInv, Typed, Types
      <4>3. refresh[c].account # r.account
        BY <1>1, <1>2, <3>1, <4>1 DEF RInv, Alone
      <4>4. claims'[refresh[c].account] = claims[refresh[c].account]
        BY <2>1, <4>2, <4>3
      <4> QED
        BY <4>1, <4>4 DEF RInv, Pending
    <3>2. CASE c = b
      <4>1. /\ q # NoRefresh /\ r.alone /\ r.due # {} /\ OneEach(r.mapped)
        BY <1>2, <2>5, <2>6, <3>2 DEF OneEach
      <4>2. /\ \A i \in DOMAIN r.mapped \ r.due : r.mapped[i] \in cs
            /\ \A i \in r.due : \A f \in r.found : f.type = r.mapped[i].type => f \in cs
        BY <1>1, <1>2, <4>1 DEF RInv, Pending
      <4>3. new = (cs \ old) \cup {DueNow(r)}
        BY <1>2, <4>2 DEF WithClaim, DueNow
      <4>4. \A i \in DOMAIN r.mapped : i # Min(r.due) => r.mapped[i].type # DueNow(r).type
        BY <1>2, <1>3, <4>1 DEF OneEach, DueNow
      <4> HIDE DEF new
      <4>5. \A i \in DOMAIN r.mapped \ (r.due \ {Min(r.due)}) : r.mapped[i] \in new
        BY <4>2, <4>3, <4>4 DEF DueNow
      <4>6. \A i \in r.due \ {Min(r.due)} : \A f \in r.found :
               f.type = r.mapped[i].type => f \in new
        BY <1>3, <4>2, <4>3, <4>4
      <4> QED
        BY <2>1, <2>5, <2>6, <3>2, <4>1, <4>5, <4>6
    <3> QED
      BY <3>1, <3>2
  <2> QED
    BY <2>3, <2>4, <2>8, <2>9, <2>10 DEF RInv, Typed, Kept
<1> QED
  BY <1>1, <1>7, <1>8, StoreEffect

\* The other steps start no refresh and go on with none.
LEMMA OtherSteps ==
    ASSUME IInv, RInv, NEW b \in Browsers, BrowserStep(b),
           ~ReadClaims(b), ~StoreClaims(b), ~ExternalLoginCallback(b),
           \A n \in Names : ~Create(b, n)
    PROVE  Quiet /\ claims' = claims /\ accounts' = accounts
<1>1. claims' = claims /\ accounts' = accounts
  BY DEF BrowserStep, Challenge, ReturnFromProvider, PropertiesAreGone,
     AnswerCallback, AddLogin, SignIn, GiveUp, Logout, Redirect, RequestFails,
     RefreshThrows, ProcessRestarts, store
<1>2. \/ refresh' = refresh
      \/ refresh' = Abandoned(b)
      \/ refresh' = [c \in Browsers |-> NoRefresh]
  BY DEF BrowserStep, Challenge, ReturnFromProvider, PropertiesAreGone,
     AnswerCallback, AddLogin, SignIn, GiveUp, Logout, Redirect, RequestFails,
     RefreshThrows, ProcessRestarts
<1>3. DOMAIN refresh = Browsers /\ refresh = [c \in Browsers |-> refresh[c]]
  BY DEF RInv, Typed
<1>4. /\ DOMAIN refresh' = Browsers /\ refresh' = [c \in Browsers |-> refresh'[c]]
      /\ \A c \in Browsers : refresh'[c] \in {refresh[c], NoRefresh, Doomed}
  <2>1. CASE refresh' = refresh
    BY <1>3, <2>1
  <2>2. CASE refresh' = Abandoned(b)
    BY <1>3, <2>2 DEF Abandoned
  <2>3. CASE refresh' = [c \in Browsers |-> NoRefresh]
    BY <2>3
  <2> QED
    BY <1>2, <2>1, <2>2, <2>3
<1> QED
  BY <1>1, <1>4 DEF Quiet

LEMMA RInvInit == Init => RInv
<1> SUFFICES ASSUME Init PROVE RInv
  OBVIOUS
<1>1. Typed
  BY LoginAssumption DEF Init, Typed
<1>2. Alone /\ Pending
  BY DEF Init, Alone, Pending
<1> QED
  BY <1>1, <1>2 DEF RInv

LEMMA RInvStep ==
    ASSUME IInv, RInv, Next
    PROVE  RInv'
<1>1. Kept'
  BY KeptStep DEF RInv, Typed, Kept
<1>2. ASSUME Quiet, \A n \in Names : \A c \in claims'[n] : n \in accounts' /\ c \in Claim
      PROVE  RInv'
  BY <1>1, <1>2, QuietKeeps DEF IInv, RInv, Typed, Kept, Quiet
<1>3. CASE Restart
  <2>1. Quiet /\ claims' = claims /\ accounts' = accounts
    BY <1>3 DEF Restart, ProcessRestarts, store, Quiet
  <2> QED
    BY <1>2, <2>1 DEF RInv, Typed
<1>4. ASSUME NEW b \in Browsers, BrowserStep(b) PROVE RInv'
  <2>1. CASE ReadClaims(b)
    BY <1>1, <2>1, ReadKeeps DEF IInv
  <2>2. CASE StoreClaims(b)
    BY <1>1, <2>2, StoreKeeps DEF IInv
  <2>3. CASE ExternalLoginCallback(b)
    <3>1. UNCHANGED store
      BY <2>3 DEF ExternalLoginCallback
    <3>2. CASE UNCHANGED refresh
      <4>1. Quiet
        BY <3>1, <3>2 DEF store, Quiet, RInv, Typed
      <4> QED
        BY <1>2, <3>1, <4>1 DEF store, RInv, Typed
    <3>3. ASSUME NEW o \in Offers, NEW n, n = logins[key[b]], n # NoAccount,
                 refresh[b] = NoRefresh, StartRefresh(b, n, o)
          PROVE  RInv'
      <4>1. n \in accounts
        BY <3>3 DEF IInv, Types
      <4> QED
        BY <1>1, <3>1, <3>3, <4>1, StartKeeps DEF IInv
    <3> QED
      BY <2>3, <3>2, <3>3 DEF ExternalLoginCallback
  <2>4. ASSUME NEW n \in Names, Create(b, n) PROVE RInv'
    <3>1. /\ n \notin accounts /\ accounts' = accounts \cup {n} /\ refresh' = refresh
          /\ claims' = [claims EXCEPT ![n] = Range(MapClaims(offer[b]))]
      BY <2>4 DEF Create
    <3>2. DOMAIN claims = Names
      BY DEF IInv, Types
    <3>3. Quiet
      BY <3>1, <3>2 DEF Quiet, RInv, Typed
    <3>4. offer[b] \in Seq(Claim)
      <4>1. offer[b] \in Offers \/ offer[b] = <<>>
        BY DEF RInv, Typed
      <4>2. <<>> \in Seq(Claim)
        OBVIOUS
      <4> QED
        BY <4>1, <4>2, LoginAssumption
    <3>5. \A c \in Range(MapClaims(offer[b])) : c \in Claim
      BY <3>4, MapClaimsType DEF Range
    <3>6. \A m \in Names : \A c \in claims'[m] : m \in accounts' /\ c \in Claim
      BY <3>1, <3>2, <3>5 DEF RInv, Typed
    <3> QED
      BY <1>2, <3>3, <3>6
  <2>5. CASE /\ ~ReadClaims(b) /\ ~StoreClaims(b) /\ ~ExternalLoginCallback(b)
             /\ \A n \in Names : ~Create(b, n)
    <3>1. Quiet /\ claims' = claims /\ accounts' = accounts
      BY <1>4, <2>5, OtherSteps
    <3> QED
      BY <1>2, <3>1 DEF RInv, Typed
  <2> QED
    BY <2>1, <2>2, <2>3, <2>4, <2>5
<1> QED
  BY <1>3, <1>4 DEF Next

\* In every reachable state the refreshes are of accounts there are, and what one
\* that is alone has done is still there.
THEOREM RefreshInvariance == Spec => []RInv
<1>1. Init => RInv
  BY RInvInit
<1>2. IInv /\ RInv /\ [Next]_vars => RInv'
  <2>1. ASSUME RInv, UNCHANGED vars PROVE RInv'
    BY <2>1 DEF vars, browser, store, RInv, Typed, Alone, Pending, OneEach
  <2> QED
    BY <2>1, RInvStep
<1> QED
  BY <1>1, <1>2, Invariance, PTL DEF Spec

\* The program's state is what it is declared to be: whoever is on his way in has
\* an account in his hands, logins lead to accounts there are, only accounts have
\* claims, and a refresh that goes on is of one of them.
THEOREM TypeCorrect == Spec => []TypeOK
<1>1. IInv /\ RInv => TypeOK
  <2> SUFFICES ASSUME IInv, RInv PROVE TypeOK
    OBVIOUS
  <2>1. /\ key \in Owners /\ offer \in [Browsers -> Offers \cup {<<>>}]
        /\ cached \subseteq Browsers /\ faults \in 0..MaxFaults
        /\ \A n \in Names : \A c \in claims[n] : n \in accounts /\ c \in Claim
    BY DEF RInv, Typed
  <2>2. /\ stage \in [Browsers -> Stages]
        /\ account \in [Browsers -> Names \cup {NoAccount}]
        /\ accounts \subseteq Names /\ logins \in [Keys -> accounts \cup {NoAccount}]
    BY DEF IInv, Types
  <2>3. \A b \in Browsers :
          stage[b] \in {"link", "enter", "answer", "in"} => account[b] \in accounts
    BY <2>1, <2>2, LoginAssumption DEF IInv, LinkHasAccount, Linked
  <2>4. refresh \in [Browsers -> Refresh \cup {NoRefresh}]
    BY DEF RInv, Typed, Sound
  <2>5. \A b \in Browsers : refresh[b] # NoRefresh =>
          refresh[b].account \in accounts \cup {NoAccount}
    BY DEF RInv, Typed, Sound
  <2> QED
    BY <2>1, <2>2, <2>3, <2>4, <2>5 DEF TypeOK
<1> QED
  BY <1>1, Invariance, RefreshInvariance, PTL

\* A refresh that ends leaves the account with all that was said, if nobody else
\* refreshed it meanwhile.
LEMMA EndsCurrent ==
    ASSUME Types, RInv, NEW b \in Browsers, ReadClaims(b) \/ StoreClaims(b),
           refresh'[b] = NoRefresh, refresh[b].alone, OneEach(refresh[b].mapped)
    PROVE  Range(refresh[b].mapped) \subseteq claims'[refresh[b].account]
<1>1. PICK r : r = refresh[b]
  OBVIOUS
<1>2. DOMAIN refresh = Browsers /\ DOMAIN claims = Names
  BY DEF RInv, Typed, Types
<1>3. CASE ReadClaims(b)
  <2>1. r # NoRefresh /\ UNCHANGED store
    BY <1>1, <1>3, ReadEffect
  <2>a. PICK s \in FirstOfEach(claims[r.account]) : \E due :
          /\ due = {i \in DOMAIN r.mapped : r.mapped[i] \notin s}
          /\ refresh' = [refresh EXCEPT ![b] =
                IF due = {} THEN NoRefresh
                ELSE [account |-> r.account, mapped |-> r.mapped,
                      found |-> s, due |-> due, alone |-> r.alone]]
    BY <1>1, <1>3, ReadEffect
  <2>2. PICK due :
          /\ s \in FirstOfEach(claims[r.account])
          /\ due = {i \in DOMAIN r.mapped : r.mapped[i] \notin s}
          /\ refresh' = [refresh EXCEPT ![b] =
                IF due = {} THEN NoRefresh
                ELSE [account |-> r.account, mapped |-> r.mapped,
                      found |-> s, due |-> due, alone |-> r.alone]]
    BY <2>a
  <2>3. due = {}
    <3>1. Sound(r, accounts)
      BY <1>1, <2>1 DEF RInv, Typed
    <3>2. /\ r.account \in Names /\ r.mapped \in Seq(Claim) /\ r.alone \in BOOLEAN
          /\ r \in Refresh
      BY <1>1, <2>1, <3>1, RefreshOf, SoundAccount DEF Types
    <3>3. s \in SUBSET Claim
      BY <2>2, <3>2 DEF FirstOfEach, RInv, Typed
    <3>4. due \in SUBSET Nat
      BY <2>2, <3>2
    <3>5. [account |-> r.account, mapped |-> r.mapped, found |-> s, due |-> due,
           alone |-> r.alone] \in Refresh
      BY <3>2, <3>3, <3>4, RefreshIs
    <3>6. NoRefresh \notin Refresh
      BY LoginAssumption
    <3> QED
      BY <1>2, <2>2, <3>5, <3>6
  <2>4. s \subseteq claims[r.account] /\ claims' = claims
    BY <2>1 DEF FirstOfEach, store
  <2> QED
    BY <1>1, <2>2, <2>3, <2>4 DEF Range
<1>4. CASE StoreClaims(b)
  <2>1. /\ r # NoRefresh /\ r.account \in accounts /\ r.account \in Names
        /\ DueNow(r) \in Claim /\ Min(r.due) \in r.due
        /\ \A i \in r.due : r.mapped[i] \in Claim
    BY <1>1, <1>4, Stored
  <2>2. /\ r \in Refresh /\ r.mapped \in Seq(Claim) /\ r.due \in SUBSET Nat
        /\ r.due \subseteq DOMAIN r.mapped
    BY <1>1, <2>1, RefreshOf
  <2>3. /\ \A i \in DOMAIN r.mapped \ r.due : r.mapped[i] \in claims[r.account]
        /\ \A i \in r.due : \A f \in r.found :
              f.type = r.mapped[i].type => f \in claims[r.account]
    BY <1>1, <2>1 DEF RInv, Pending
  <2>4. CASE claims' = [claims EXCEPT ![r.account] = @ \cup {r.mapped[i] : i \in r.due}]
    BY <1>1, <1>2, <2>1, <2>3, <2>4 DEF Range
  <2>5. CASE /\ claims' = [claims EXCEPT ![r.account] = WithClaim(@, r)]
             /\ refresh' = [refresh EXCEPT ![b] =
                   IF r.due = {Min(r.due)} THEN NoRefresh
                   ELSE [r EXCEPT !.due = @ \ {Min(@)}]]
    <3> DEFINE old == {f \in r.found : f.type = DueNow(r).type}
    <3>1. r.due = {Min(r.due)}
      <4>1. r.due \ {Min(r.due)} \in SUBSET Nat
        BY <2>2
      <4>2. [r EXCEPT !.due = r.due \ {Min(r.due)}] # NoRefresh
        <5>1. /\ r.account \in Names \cup {NoAccount} /\ r.found \in SUBSET Claim
              /\ r.alone \in BOOLEAN
          BY <2>2, RefreshParts
        <5>2. [account |-> r.account, mapped |-> r.mapped, found |-> r.found,
               due |-> r.due \ {Min(r.due)}, alone |-> r.alone] \in Refresh
          BY <2>2, <4>1, <5>1, RefreshIs
        <5>3. [r EXCEPT !.due = r.due \ {Min(r.due)}] \in Refresh
          BY <2>2, <5>2, ExceptDue
        <5> QED
          BY <5>3, LoginAssumption
      <4> QED
        BY <1>2, <2>5, <4>2
    <3>2. WithClaim(claims[r.account], r) = (claims[r.account] \ old) \cup {DueNow(r)}
      BY <2>1, <2>3 DEF WithClaim, DueNow
    <3>3. \A i \in DOMAIN r.mapped : i # Min(r.due) => r.mapped[i].type # DueNow(r).type
      BY <1>1, <2>1, <2>2 DEF OneEach, DueNow
    <3>4. \A i \in DOMAIN r.mapped : r.mapped[i] \in WithClaim(claims[r.account], r)
      <4> SUFFICES ASSUME NEW i \in DOMAIN r.mapped
                   PROVE  r.mapped[i] \in WithClaim(claims[r.account], r)
        OBVIOUS
      <4>1. CASE i = Min(r.due)
        BY <3>2, <4>1 DEF DueNow
      <4>2. CASE i # Min(r.due)
        <5>1. r.mapped[i] \in claims[r.account]
          BY <2>3, <3>1, <4>2
        <5> QED
          BY <3>2, <3>3, <4>2, <5>1
      <4> QED
        BY <4>1, <4>2
    <3>5. claims'[r.account] = WithClaim(claims[r.account], r)
      BY <1>2, <2>1, <2>5
    <3> QED
      BY <1>1, <3>4, <3>5 DEF Range
  <2> QED
    BY <1>1, <1>4, <2>4, <2>5, StoreEffect
<1> QED
  BY <1>3, <1>4

\* A refresh that no other overlapped leaves the account with what the provider
\* said, if it said one thing of each type.
THEOREM RefreshLeavesCurrent == Spec => RefreshedIsCurrent
<1>1. IInv /\ RInv /\ [Next]_vars =>
        [\A b \in Browsers :
            LET r == refresh[b]
            IN  /\ ReadClaims(b) \/ StoreClaims(b)
                /\ refresh'[b] = NoRefresh
                /\ r.alone /\ OneEach(r.mapped)
                => Range(r.mapped) \subseteq claims'[r.account]]_vars
  BY EndsCurrent DEF IInv
<1> QED
  BY <1>1, Invariance, RefreshInvariance, PTL DEF Spec, RefreshedIsCurrent
=============================================================================
