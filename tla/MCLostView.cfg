\* Two viewers of one two-view file: what the earlier one receives.
SPECIFICATION FSpec
CONSTANTS
    alice = alice
    bob = bob
    s1 = s1
    s2 = s2
    p1 = p1
    p2 = p2
    f1 = f1
    f2 = f2
    f3 = f3
    NoUser = NoUser
    NoPath = NoPath
    NoTime = NoTime
    Path = {f1, f2, f3}
    RelayTTL = 1
    MaxAborts = 0
    User = {alice, bob}
    Secret = {s1}
    Session = {p1, p2}
    Drafts <- OnlyFiles
    MaxTime = 0
    Pressed = {"edit", "finalize", "drop", "forget"}
    MaxUploads = 1
    MaxFaults = 0
INVARIANTS
    EveryViewDelivered
SYMMETRY Symmetry
