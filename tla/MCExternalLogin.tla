--------------------------- MODULE MCExternalLogin ---------------------------
(* Instance of ExternalLogin for TLC.  The provider gives a display name, a    *)
(* family name, a given name only, or nothing.                                 *)
EXTENDS ExternalLogin, TLC

Given == [type |-> "given", value |-> <<"Ann">>]
Name(w) == [type |-> "name", value |-> <<w>>]
Family(w) == [type |-> "family", value |-> <<w>>]

CONSTANTS b1, b2, k1, k2

\* Both browsers are one person's, or two persons have one each.
OneOrTwoPersons == {b1 :> k1 @@ b2 :> k1, b1 :> k1 @@ b2 :> k2}

SomeOffers == {<<Name("Lee")>>, <<Family("Ray")>>, <<Given>>, <<>>}
=============================================================================
