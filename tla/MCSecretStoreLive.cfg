\* Two secrets, one session against the worker: overdue secrets end under fairness.
SPECIFICATION FairSpec
CONSTANTS
    alice = alice
    bob = bob
    s1 = s1
    s2 = s2
    p1 = p1
    p2 = p2
    f1 = f1
    NoUser = NoUser
    NoPath = NoPath
    NoTime = NoTime
    User = {alice}
    Path = {f1}
    Secret = {s1, s2}
    Session = {p1}
    Drafts <- BulkDrafts
    MaxTime = 2
    MaxAborts = 1
PROPERTIES
    OverdueIsEnded
