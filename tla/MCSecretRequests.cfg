\* One request, two sessions racing to answer or cancel it, two secrets, the whole store.
SPECIFICATION RSpec
CONSTANTS
    alice = alice
    bob = bob
    s1 = s1
    s2 = s2
    p1 = p1
    q1 = q1
    q2 = q2
    r1 = r1
    NoUser = NoUser
    NoPath = NoPath
    NoTime = NoTime
    User = {alice, bob}
    Path = {}
    Secret = {s1, s2}
    Session = {p1}
    Request = {r1}
    ReqSession = {q1, q2}
    Drafts <- AnswerDrafts
    RequestTTL = 1
    AnswerTTL = 2
    MaxTime = 2
    MaxAborts = 1
INVARIANTS
    RTypeOK
    OneAnswerPerRequest
    AnswersReachTheOwner
    AnsweredInTime
    ClosedRequestWiped
PROPERTIES
    RequestClosesOnce
SYMMETRY Symmetry
