\* One user with two links and two updates handled at a time, against a crash.
SPECIFICATION Spec
CONSTANTS
    alice = alice
    s1 = s1
    s2 = s2
    k1 = k1
    k2 = k2
    NoUser = NoUser
    NoPath = NoPath
    NoTime = NoTime
    NoSecret = NoSecret
    User = {alice}
    Path = {}
    Secret = {s1, s2}
    Task = {k1, k2}
    Drafts <- WithAndWithoutPin
    OpenLimit = 3
    TokenLimit = 1
    PinMax = 1
    MaxUpdates = 5
    MaxEvents = 1
INVARIANTS
    TypeOK
    PinBeforeOpen
    ConfirmationBeforeOpen
    AttemptsBounded
SYMMETRY Symmetry
CHECK_DEADLOCK FALSE
