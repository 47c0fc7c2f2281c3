\* Two updates at a time and one fault, from a file to a secret bound to bob or to nobody.
SPECIFICATION Spec
CONSTANTS
    bob = bob
    k1 = k1
    k2 = k2
    s1 = s1
    s2 = s2
    f1 = f1
    f2 = f2
    NoUser = NoUser
    NoPath = NoPath
    Recipient = {bob}
    Charset = {"gen_upper", "gen_digits"}
    Pressed <- OnlyForward
    Task = {k1, k2}
    Secret = {s1}
    Path = {f1}
    MaxFaults = 1
INVARIANTS
    RecipientFitsMode
    UploadPlaintextRemoved
SYMMETRY Symmetry
