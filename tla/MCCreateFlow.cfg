\* A patient user: one update at a time, every button and message but two twins, no faults.
SPECIFICATION Spec
CONSTANTS
    bob = bob
    k1 = k1
    k2 = k2
    s1 = s1
    s2 = s2
    f1 = f1
    f2 = f2
    NoUser = NoUser
    NoPath = NoPath
    Recipient = {bob}
    Charset = {"gen_upper", "gen_digits"}
    Pressed <- AllButTwins
    Task = {k1}
    Secret = {s1}
    Path = {f1, f2}
    MaxFaults = 0
INVARIANTS
    FlowTypeOK
    CalmSecretsKeepFiles
    CalmAlphabetNotEmpty
SYMMETRY Symmetry
