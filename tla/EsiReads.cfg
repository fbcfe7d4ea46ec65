\* Two walks at once over the pages of a private list; the cache has room for
\* half of what two characters may put there.
CONSTANTS
    Walks = {w1, w2}
    Users = {u1, u2}
    Endpoints = {e1}
    Private = {e1}
    TotalPages = 3
    MaxPages = 2
    MaxEntries = 2
    MaxBytes = 2
    MaxCachedBody = 2
    TTL = 1
    MaxFlight = 1
    None = None
    MaxVer = 2
    MaxChanges = 1
    MaxTime = 3
SPECIFICATION Spec
SYMMETRY Symmetry
INVARIANTS
    TypeOK
    CacheBounded
    AnswersWhatWasAsked
    AgeHonest
    ConfirmedIsServed
    WholeOrNothing
