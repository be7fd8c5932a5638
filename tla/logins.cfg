CONSTANTS
    b1 = b1
    b2 = b2
    k1 = k1
    k2 = k2
    n1 = n1
    n2 = n2
    Browsers = {b1, b2}
    Keys = {k1, k2}
    Owners <- OneOrTwoPersons
    Names = {n1, n2}
    ClaimTypes = {"name", "given", "family"}
    Words = {"Ann", "Lee", "Ray"}
    Offers <- SomeOffers
    NoAccount = NoAccount
    NoRefresh = NoRefresh
    MaxFaults = 1
SPECIFICATION FairSpec
INVARIANTS
    TypeOK
    SignedInIsLinked
    UnreadableStayOut
PROPERTIES
    RefreshedIsCurrent
    OrphansStay
    EveryoneGetsIn
