\* A hasty user: two updates at a time.
SPECIFICATION Spec
CONSTANTS
    bob = bob
    k1 = k1
    k2 = k2
    s1 = s1
    s2 = s2
    f1 = f1
    f2 = f2
    NoUser = NoUser
    NoPath = NoPath
    Recipient = {bob}
    Charset = {"gen_upper", "gen_digits"}
    Pressed <- FileForBob
    Task = {k1, k2}
    Secret = {s1, s2}
    Path = {f1, f2}
    MaxFaults = 0
INVARIANTS
    SecretsKeepFiles
SYMMETRY Symmetry
