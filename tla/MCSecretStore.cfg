\* One secret under every protection, two bot sessions against the worker.
SPECIFICATION Spec
CONSTANTS
    alice = alice
    bob = bob
    s1 = s1
    s2 = s2
    p1 = p1
    p2 = p2
    f1 = f1
    NoUser = NoUser
    NoPath = NoPath
    NoTime = NoTime
    User = {alice, bob}
    Path = {f1}
    Secret = {s1}
    Session = {p1, p2}
    Drafts <- ProtectionDrafts
    MaxTime = 3
    MaxAborts = 1
INVARIANTS
    TypeOK
    OpensWithinAllowance
    OpenersEntitled
    OpensInTime
    InactiveWiped
    DecidedOnCurrentRow
PROPERTIES
    EndsOnce
    ImplementsOneTimeSecret
SYMMETRY Symmetry
