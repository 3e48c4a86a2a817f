SPECIFICATION Spec
CONSTANTS
    r1 = r1
    r2 = r2
    r3 = r3
    None = None
    Requests = {r1, r2, r3}
    Events <- MCEvents
    Identified <- MCIdentified
    Malformed <- MCMalformed
    Kind <- MCKind
    User <- MCUser
    Scope <- MCScope
    Entered <- MCEntered
    EntryTime <- MCEntryTime
    Messages <- LinkMessages
    AllowLists <- TrustMode
    Before = 1
    After = 0
    MaxTime = 1
SYMMETRY RequestSymmetry
PROPERTIES
    LinkKept
