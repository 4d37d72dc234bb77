SPECIFICATION Spec
CONSTANTS
    Pods = {a, b}
    KindOf <- MCKindOf
    Traits <- MCTraits
    Stored <- MCStored
    Backends = {"natural", "index"}
    Requests <- MCRequests
    Actors <- MCActors
    Weight <- MCWeight
    Limit = 1
    StoredLinks <- MCStoredLinks
    WriteTexts = {2, 3}
    MaxWrites = 1
    MaxSearches = 2
INVARIANTS NothingHiddenIsShown  BestMatchIsNotOutvoted 
SYMMETRY PodSymmetry
CHECK_DEADLOCK FALSE
