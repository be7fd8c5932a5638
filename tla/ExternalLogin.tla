---------------------------- MODULE ExternalLogin ----------------------------
(***************************************************************************)
(* The identity server: signing in through the external provider, the      *)
(* account that is made up for whoever has none, the refresh of its claims *)
(* at every later sign-in, and signing out.                                *)
(*                                                                         *)
(* A browser belongs to one person, that is, one identity at the provider; *)
(* a person may use several.  Accounts are named by the e-mail address     *)
(* given on the confirmation page, of which ASP.NET Identity allows one    *)
(* each.  The refresh is "async void": the callback does not wait for it,  *)
(* and what it throws ends the process, with its cache and all requests.   *)
(* It works with the user manager and the database context of the request, *)
(* which are disposed once the request is answered: its next call throws.  *)
(* A claim's value is a sequence of words, empty for null.  Two factors    *)
(* and lock-out, which nothing switches on, are left out.                  *)
(***************************************************************************)
EXTENDS Naturals, SequencesExt

CONSTANTS
    Browsers,
    Keys,        \* identities at the provider
    Owners,      \* who the browsers may belong to
    Names,       \* e-mail addresses
    ClaimTypes,  \* of which "name", "given" and "family" are looked at
    Words,       \* that make up the values of claims
    Offers,      \* what the provider may say of a person: sequences of claims
    NoAccount,
    NoRefresh,
    MaxFaults    \* bound: restarts, calls that fail, logins that expire

Claim == [type : ClaimTypes, value : Seq(Words)]

\* A refresh: what the provider said, mapped, the claims of the account that were
\* found, the places of those that are due, and whether no other has overlapped it.
Refresh ==
    [account : Names \cup {NoAccount}, mapped : Seq(Claim), found : SUBSET Claim,
     due : SUBSET Nat, alone : BOOLEAN]

ASSUME LoginAssumption ==
    /\ Owners \subseteq [Browsers -> Keys]
    /\ NoAccount \notin Names /\ NoRefresh \notin Refresh
    /\ {"name", "given", "family"} \subseteq ClaimTypes
    /\ \A o \in Offers : o \in Seq(Claim)
    /\ MaxFaults \in Nat

VARIABLES
    key,       \* the identity of each browser's owner
    stage,     \* how far each browser is
    account,   \* the account in its hands, or in its cookie
    offer,     \* what the provider said of its owner, for the confirmation
    cached,    \* browsers whose login properties are in the cache
    accounts,  \* names that have an account
    logins,    \* the account of each identity
    claims,    \* the claims of each account
    refresh,   \* the refresh of claims that each browser's sign-in has started
    faults     \* faults left

browser == <<key, stage, account, offer>>
store == <<accounts, logins, claims>>
vars == <<browser, cached, store, refresh, faults>>

Stages == {"out", "away", "back", "form", "link", "enter", "answer", "in", "leaving"}

\* Stages in which a request of the browser is being handled.
Requested == {"back", "link", "enter", "answer"}

Init ==
    /\ key \in Owners
    /\ stage = [b \in Browsers |-> "out"]
    /\ account = [b \in Browsers |-> NoAccount]
    /\ offer = [b \in Browsers |-> <<>>]
    /\ cached = {}
    /\ accounts = {}
    /\ logins = [k \in Keys |-> NoAccount]
    /\ claims = [n \in Names |-> {}]
    /\ refresh = [b \in Browsers |-> NoRefresh]
    /\ faults = MaxFaults

Go(b, s, n) ==
    /\ stage' = [stage EXCEPT ![b] = s]
    /\ account' = [account EXCEPT ![b] = n]
    /\ offer' = [offer EXCEPT ![b] = IF s \in {"form", "link"} THEN @ ELSE <<>>]

\* The confirmation page; what the provider said is in the external cookie.
GoToForm(b, o) ==
    /\ stage' = [stage EXCEPT ![b] = "form"]
    /\ offer' = [offer EXCEPT ![b] = o]
    /\ UNCHANGED account

Fault == faults > 0 /\ faults' = faults - 1

-----------------------------------------------------------------------------
(* ApplicationUserExtensions *)

First(offered, type) ==
    IF \E i \in DOMAIN offered : offered[i].type = type
    THEN SelectInSeq(offered, LAMBDA c : c.type = type) ELSE 0

\* MapClaimsFromPrincipal: without a display name one is made of the given and
\* the family name; of a given name only it is the family name, null.
MapClaims(offered) ==
    LET g == First(offered, "given")
        f == First(offered, "family")
        Named(v) == Append(offered, [type |-> "name", value |-> v])
    IN  CASE First(offered, "name") > 0 -> offered
          [] First(offered, "name") = 0 /\ g > 0 /\ f > 0 ->
                 Named(offered[g].value \o offered[f].value)
          [] First(offered, "name") = 0 /\ g > 0 /\ f = 0 -> Named(<<>>)
          [] First(offered, "name") = 0 /\ g = 0 /\ f > 0 -> Named(offered[f].value)
          [] OTHER -> offered

IsNull(c) == c.value = <<>>

\* The claims of such an account can not be read: ToClaim throws.
Unreadable(n) == \E c \in claims[n] : IsNull(c)

\* The claims of the account that FirstOrDefault finds, one of each type.
FirstOfEach(cs) ==
    {s \in SUBSET cs : \A c \in cs : Cardinality({d \in s : d.type = c.type}) = 1}

\* RefreshExternalClaims starts: it has nothing to do if nothing was said.
StartRefresh(b, n, o) ==
    IF o = <<>> THEN UNCHANGED refresh
    ELSE LET others == {c \in Browsers \ {b} : refresh[c] # NoRefresh /\ refresh[c].account = n}
         IN  refresh' = [c \in Browsers |->
                IF c = b THEN [account |-> n, mapped |-> MapClaims(o), found |-> {},
                               due |-> {}, alone |-> others = {}]
                ELSE IF c \in others THEN [refresh[c] EXCEPT !.alone = FALSE]
                ELSE refresh[c]]

\* A refresh whose request has been answered, with a call still to make.
Doomed == [account |-> NoAccount, mapped |-> <<>>, found |-> {}, due |-> {}, alone |-> FALSE]

\* GetClaimsAsync.  Claims that are found as they are need nothing; the others
\* are due.
ReadClaims(b) ==
    LET r == refresh[b]
    IN  /\ r \notin {NoRefresh, Doomed}
        /\ r.due = {}
        /\ \E s \in FirstOfEach(claims[r.account]) :
              LET due == {i \in DOMAIN r.mapped : r.mapped[i] \notin s}
              IN  refresh' = [refresh EXCEPT ![b] =
                     IF due = {} THEN NoRefresh
                     ELSE [account |-> r.account, mapped |-> r.mapped, found |-> s,
                           due |-> due, alone |-> r.alone]]
        /\ UNCHANGED <<browser, cached, store, faults>>

\* The claim whose turn it is.
DueNow(r) == r.mapped[Min(r.due)]

\* Mutant: ToClaim takes a null value.
ThrowsNever(r) == FALSE

\* The claim to be added or replaced by is null: ToClaim throws.  For an account
\* without claims the whole list is converted at once.
Throws(r) ==
    /\ r.due # {}
    /\ IF r.found = {} THEN \E i \in r.due : IsNull(r.mapped[i]) ELSE IsNull(DueNow(r))

\* Mutant: ReplaceClaimAsync with its arguments swapped.
WithClaimSwapped(cs, r) ==
    LET c == DueNow(r)
        old == {f \in r.found : f.type = c.type}
    IN  IF old = {} THEN cs \cup {c}
        ELSE IF c \in cs THEN (cs \ {c}) \cup old ELSE cs

\* AddClaimAsync, or ReplaceClaimAsync of rows that are still as they were read.
WithClaim(cs, r) ==
    LET c == DueNow(r)
        old == {f \in r.found : f.type = c.type}
    IN  IF old = {} THEN cs \cup {c}
        ELSE IF old \subseteq cs THEN (cs \ old) \cup {c} ELSE cs

\* AddClaimsAsync for an account without claims; else the next turn of the loop
\* that has something to do.
StoreClaims(b) ==
    LET r == refresh[b]
        all == r.found = {}
    IN  /\ r # NoRefresh
        /\ r.due # {}
        /\ ~Throws(r)
        /\ claims' = [claims EXCEPT ![r.account] =
                         IF all THEN @ \cup {r.mapped[i] : i \in r.due} ELSE WithClaim(@, r)]
        /\ refresh' = [refresh EXCEPT ![b] =
                          IF all \/ r.due = {Min(r.due)} THEN NoRefresh
                          ELSE [r EXCEPT !.due = @ \ {Min(@)}]]
        /\ UNCHANGED <<browser, cached, accounts, logins, faults>>

-----------------------------------------------------------------------------
(* The process *)

\* The process ends and another starts: what was in memory is gone, and requests
\* that were being handled fail; the database and the browsers' cookies remain.
ProcessRestarts ==
    /\ cached' = {}
    /\ refresh' = [b \in Browsers |-> NoRefresh]
    /\ stage' = [b \in Browsers |-> IF stage[b] \in Requested THEN "out" ELSE stage[b]]
    /\ account' = [b \in Browsers |-> IF stage[b] \in Requested THEN NoAccount ELSE account[b]]
    /\ offer' = [b \in Browsers |-> IF stage[b] \in Requested THEN <<>> ELSE offer[b]]
    /\ UNCHANGED <<key, store>>

Restart == Fault /\ ProcessRestarts

\* An exception leaves an "async void" method.
RefreshThrows(b) ==
    /\ refresh[b] # NoRefresh
    /\ refresh[b] = Doomed \/ Throws(refresh[b])
    /\ ProcessRestarts
    /\ UNCHANGED faults

\* What becomes of the refresh when its request ends.
Abandoned(b) == [refresh EXCEPT ![b] = IF @ = NoRefresh THEN @ ELSE Doomed]

\* A call to the database fails, the provider reports an error, or the external
\* cookie has expired before the confirmation page is posted.
RequestFails(b) ==
    /\ Fault
    /\ stage[b] \in Requested \cup {"away", "form"}
    /\ Go(b, "out", NoAccount)
    /\ cached' = cached \ {b}
    /\ refresh' = Abandoned(b)
    /\ UNCHANGED <<key, store>>

-----------------------------------------------------------------------------
(* AccountController and CachedPropertiesDataFormat *)

\* ExternalLogin: Protect puts the login properties in the cache, under a key
\* that travels with the browser.
Challenge(b) ==
    /\ stage[b] = "out"
    /\ Go(b, "away", NoAccount)
    /\ cached' = cached \cup {b}
    /\ UNCHANGED <<key, store, refresh, faults>>

\* The provider sends the browser back; Unprotect finds the properties.  (Their
\* entry stays in the cache for good, but nothing asks for it again.)
ReturnFromProvider(b) ==
    /\ stage[b] = "away"
    /\ b \in cached
    /\ stage' = [stage EXCEPT ![b] = "back"]
    /\ cached' = cached \ {b}
    /\ UNCHANGED <<key, account, offer, store, refresh, faults>>

\* Mutant: the browser is sent away again, with the same key.
PropertiesAreGoneAskedAgain(b) ==
    /\ stage[b] = "away"
    /\ b \notin cached
    /\ Go(b, "away", NoAccount)
    /\ UNCHANGED <<key, cached, store, refresh, faults>>

\* ... or does not, and deserialises null.
PropertiesAreGone(b) ==
    /\ stage[b] = "away"
    /\ b \notin cached
    /\ Go(b, "out", NoAccount)
    /\ UNCHANGED <<key, cached, store, refresh, faults>>

\* ExternalLoginCallback: what the provider said is read from the external cookie.
\* (Bound: one refresh per browser at a time.)
ExternalLoginCallback(b) ==
    LET n == logins[key[b]]
    IN  /\ stage[b] = "back"
        /\ \E o \in Offers :
              \/ n = NoAccount /\ GoToForm(b, o) /\ UNCHANGED refresh
              \/ n # NoAccount /\ Unreadable(n) /\ Go(b, "out", NoAccount) /\ UNCHANGED refresh
              \/ /\ n # NoAccount /\ ~Unreadable(n)
                 /\ refresh[b] = NoRefresh
                 /\ StartRefresh(b, n, o)
                 /\ Go(b, "answer", n)
        /\ UNCHANGED <<key, cached, store, faults>>

\* Its last call, FindByLoginAsync; the browser gets its cookie.
AnswerCallback(b) ==
    /\ stage[b] = "answer"
    /\ Go(b, "in", account[b])
    /\ refresh' = Abandoned(b)
    /\ UNCHANGED <<key, cached, store, faults>>

\* Mutant: a name that is taken is taken over.
CreateOver(b, n) ==
    /\ stage[b] = "form"
    /\ accounts' = accounts \cup {n}
    /\ claims' = [claims EXCEPT ![n] = Range(MapClaims(offer[b]))]
    /\ Go(b, "link", n)
    /\ UNCHANGED <<key, cached, logins, refresh, faults>>

\* Mutant: the login is added to an account that is not saved yet.
CreateNotAwaited(b, n) ==
    /\ stage[b] = "form"
    /\ n \notin accounts
    /\ Go(b, "link", n)
    /\ UNCHANGED <<key, cached, store, refresh, faults>>

\* ExternalLoginConfirmation: CreateAsync.  A name that is taken is an error,
\* with which the page is shown again.
Create(b, n) ==
    /\ stage[b] = "form"
    /\ n \notin accounts
    /\ accounts' = accounts \cup {n}
    /\ claims' = [claims EXCEPT ![n] = Range(MapClaims(offer[b]))]
    /\ Go(b, "link", n)
    /\ UNCHANGED <<key, cached, logins, refresh, faults>>

\* Mutant: whether AddLoginAsync has succeeded is not looked at.
AddLoginUnchecked(b) ==
    /\ stage[b] = "link"
    /\ logins' = IF logins[key[b]] = NoAccount
                 THEN [logins EXCEPT ![key[b]] = account[b]] ELSE logins
    /\ Go(b, "enter", account[b])
    /\ UNCHANGED <<key, cached, accounts, claims, refresh, faults>>

\* AddLoginAsync: an identity that has a login is an error, and the page is shown
\* again; the account stays.
AddLogin(b) ==
    /\ stage[b] = "link"
    /\ IF logins[key[b]] = NoAccount
       THEN /\ logins' = [logins EXCEPT ![key[b]] = account[b]]
            /\ Go(b, "enter", account[b])
       ELSE Go(b, "form", NoAccount) /\ UNCHANGED logins
    /\ UNCHANGED <<key, cached, accounts, claims, refresh, faults>>

\* SignInAsync, which reads the account's claims.
SignIn(b) ==
    /\ stage[b] = "enter"
    /\ IF Unreadable(account[b]) THEN Go(b, "out", NoAccount) ELSE Go(b, "in", account[b])
    /\ UNCHANGED <<key, cached, store, refresh, faults>>

\* The person leaves the confirmation page.
GiveUp(b) ==
    /\ stage[b] = "form"
    /\ Go(b, "out", NoAccount)
    /\ UNCHANGED <<key, cached, store, refresh, faults>>

\* Logout: the cookie is deleted, the page shown.
Logout(b) ==
    /\ stage[b] = "in"
    /\ Go(b, "leaving", NoAccount)
    /\ UNCHANGED <<key, cached, store, refresh, faults>>

\* signout-redirect.js, or the person, takes the browser back to the application.
Redirect(b) ==
    /\ stage[b] = "leaving"
    /\ Go(b, "out", NoAccount)
    /\ UNCHANGED <<key, cached, store, refresh, faults>>

-----------------------------------------------------------------------------
BrowserStep(b) ==
    \/ Challenge(b)
    \/ ReturnFromProvider(b)
    \/ PropertiesAreGone(b)
    \/ ExternalLoginCallback(b)
    \/ AnswerCallback(b)
    \/ \E n \in Names : Create(b, n)
    \/ AddLogin(b)
    \/ SignIn(b)
    \/ GiveUp(b)
    \/ Logout(b)
    \/ Redirect(b)
    \/ RequestFails(b)
    \/ ReadClaims(b)
    \/ StoreClaims(b)
    \/ RefreshThrows(b)

Next == Restart \/ \E b \in Browsers : BrowserStep(b)

Spec == Init /\ [][Next]_vars

\* The server handles what it has begun, the provider and the script answer, and
\* a person who is not signed in goes on trying, with one name and another.
Fairness ==
    \A b \in Browsers :
        /\ WF_vars(Challenge(b))
        /\ WF_vars(ReturnFromProvider(b))
        /\ WF_vars(PropertiesAreGone(b))
        /\ WF_vars(ExternalLoginCallback(b))
        /\ WF_vars(AnswerCallback(b))
        /\ \A n \in Names : SF_vars(Create(b, n))
        /\ WF_vars(AddLogin(b))
        /\ WF_vars(SignIn(b))
        /\ WF_vars(GiveUp(b))
        /\ WF_vars(Redirect(b))
        /\ WF_vars(ReadClaims(b) \/ StoreClaims(b) \/ RefreshThrows(b))

FairSpec == Spec /\ Fairness

-----------------------------------------------------------------------------
(* Properties *)

TypeOK ==
    /\ key \in Owners
    /\ stage \in [Browsers -> Stages]
    /\ account \in [Browsers -> Names \cup {NoAccount}]
    /\ \A b \in Browsers :
          stage[b] \in {"link", "enter", "answer", "in"} => account[b] \in accounts
    /\ offer \in [Browsers -> Offers \cup {<<>>}]
    /\ cached \subseteq Browsers
    /\ accounts \subseteq Names
    /\ logins \in [Keys -> accounts \cup {NoAccount}]
    /\ \A n \in Names : \A c \in claims[n] : n \in accounts /\ c \in Claim
    /\ refresh \in [Browsers -> Refresh \cup {NoRefresh}]
    /\ \A b \in Browsers : refresh[b] # NoRefresh =>
          refresh[b].account \in accounts \cup {NoAccount}
    /\ faults \in 0..MaxFaults

\* Whoever is signed in is so under the one account that is linked to his
\* identity, whatever was left half done before or is being done elsewhere.
SignedInIsLinked ==
    \A b \in Browsers : stage[b] = "in" => logins[key[b]] = account[b]

\* An account without a login that nobody is about to link.
Orphan(n) ==
    /\ n \in accounts
    /\ \A k \in Keys : logins[k] # n
    /\ \A b \in Browsers : ~(stage[b] = "link" /\ account[b] = n)

\* An account that was created and not linked is lost, and its name with it:
\* no later sign-in or confirmation ever links it.
OrphansStay == [][\A n \in Names : Orphan(n) => Orphan(n)']_vars

\* Nobody is signed in under an account that has a claim without a value: what a
\* refresh is given never puts one there.
UnreadableStayOut ==
    \A b \in Browsers : stage[b] = "in" => ~Unreadable(account[b])

OneEach(cs) == \A i, j \in DOMAIN cs : cs[i].type = cs[j].type => i = j

\* A refresh that no other overlapped leaves the account with what the provider
\* said, if it said one thing of each type.
RefreshedIsCurrent ==
    [][\A b \in Browsers :
          LET r == refresh[b]
          IN  /\ ReadClaims(b) \/ StoreClaims(b)
              /\ refresh'[b] = NoRefresh
              /\ r.alone /\ OneEach(r.mapped)
              => Range(r.mapped) \subseteq claims'[r.account]]_vars

\* Neither waiting nor trying again helps: the account can not be read, or there
\* is none and every name is taken.
LockedOut(b) ==
    LET n == logins[key[b]]
    IN  IF n = NoAccount THEN Names \subseteq accounts ELSE Unreadable(n)

\* Whoever keeps trying is signed in or is locked out in the end, unless a refresh
\* ends the process again and again.
EveryoneGetsIn ==
    \/ []<><<\E b \in Browsers : RefreshThrows(b)>>_vars
    \/ \A b \in Browsers : <>(stage[b] = "in" \/ LockedOut(b))
=============================================================================
