\* Three calls that want one name, others that take it too; one API failure; the server
\* may stop.
CONSTANTS
    Foreign = Foreign
    NoPod = NoPod
    Calls = {c1, c2, c3}
    Names = {n1}
    Failures = 1
    Stops = TRUE
SPECIFICATION FairSpec
INVARIANTS
    LeaksExplained
PROPERTIES
    HitsStrangersOnlyOnceRobbed
    DeletedWhileServing
