\* Access: a user and an administrator, two updates at a time, two orders. Emojis: two
\* administrators, two slots, two handlers at a time. Answers: one user with two links, two updates at a time.
SPECIFICATION Spec
CONSTANTS
    u1 = u1
    boss = boss
    k1 = k1
    k2 = k2
    a1 = a1
    a2 = a2
    lock = lock
    plus = plus
    e1 = e1
    e2 = e2
    r1 = r1
    r2 = r2
    NoTime = NoTime
    NoEmoji = NoEmoji
    NoRow = NoRow
    NoSlot = NoSlot
    NoRequest = NoRequest
    User = {u1, boss}
    Admin = {boss}
    Call = {k1, k2}
    Kind = {"create"}
    RateLimit <- Limits
    BanTime = 1
    MaxClock = 2
    MaxHits = 3
    MaxOrders = 2
    Editor = {a1, a2}
    Catalog <- TwoSlots
    Emoji = {e1, e2}
    Work = {k1, k2}
    MaxTaps = 4
    MaxMishaps = 1
    Request = {r1, r2}
    Sender = {u1}
    Update = {k1, k2}
    MaxInputs = 6
    MaxFailures = 1
INVARIANTS
    AccessTypeOK
    OrdersStand
    HandledAsOrdered
    DeniedForCause
    RateHonoured
    EmojiTypeOK
    CacheMatchesTable
    WizardMissesNothing
    AnswerTypeOK
    AnswersWhereMeant
SYMMETRY Symmetry
CHECK_DEADLOCK FALSE
