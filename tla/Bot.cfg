SPECIFICATION FairSpec
CONSTANTS
    r1 = r1
    r2 = r2
    r3 = r3
    None = None
    Requests = {r1, r2}
    Events <- MCEvents
    Identified <- MCIdentified
    Malformed <- MCMalformed
    Kind <- MCKind
    User <- MCUser
    Scope <- MCScope
    Entered <- MCEntered
    EntryTime <- MCEntryTime
    Messages <- MixedMessages
    AllowLists <- TrustAndOneUser
    Before = 1
    After = 0
    MaxTime = 0
INVARIANTS
    UniqueEventId
    OkReplyStored
    DuplicateNamesRow
PROPERTIES
    IngestSpec
    RequestsEnd
