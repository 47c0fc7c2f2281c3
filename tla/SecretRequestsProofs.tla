------------------------- MODULE SecretRequestsProofs -------------------------
(***************************************************************************)
(* Proofs about SecretRequests for every set of users, requests, secrets   *)
(* and sessions and for every TTL. To the secret store every step of this  *)
(* module is one of its own, so RSpec implements Spec and the invariant of *)
(* SecretStoreProofs holds here too. On top of it, a request agrees with   *)
(* what became of it, a transaction that holds a request decided on the    *)
(* request as it still is, and an answer keeps the promise it was created  *)
(* with.                                                                   *)
(***************************************************************************)
EXTENDS SecretRequests, SecretStoreProofs, FiniteSetTheorems

-----------------------------------------------------------------------------
(* The inductive invariant *)

Closed == {"fulfilled", "cancelled", "expired"}

\* What the row of a request and the record of its answers say of each other.
RequestAgrees(row, a) ==
    /\ row.status # "absent" => row.owner \in User /\ row.max_uses = 1
    /\ row.status = "fulfilled" => row.uses = 1 /\ \E s \in Secret : a.secrets = {s}
    /\ row.status # "fulfilled" => row.uses = 0 /\ a.secrets = {}
    /\ row.status \in Closed => ~row.token
    /\ row.status \in {"cancelled", "expired"} => ~row.prompt
    /\ row.status \in {"absent", "active"} => a.times = {}
    /\ \A t \in a.times : t < row.expires_at

\* Whoever holds a request is alone with it, and what he decided on is still so.
DecidedOnCurrentRequest ==
    /\ \A p, q \in ReqSession :
           rtx[p] # Idle /\ rtx[q] # Idle /\ rtx[p].request = rtx[q].request => p = q
    /\ \A q \in ReqSession :
           /\ rtx[q].op \in {"fulfil", "cancel"} => requests[rtx[q].request].status = "active"
           /\ rtx[q].op = "fulfil" => rtx[q].at < requests[rtx[q].request].expires_at

\* An answer is in the store, for one view by the owner of its request.
AnswerKept(s, owner) ==
    /\ rows[s].status # "absent"
    /\ rows[s].views_allowed = 1
    /\ ledger[s].audience = {owner}

RInv ==
    /\ IInv
    /\ RTypeOK
    /\ DecidedOnCurrentRequest
    /\ \A r \in Request : RequestAgrees(requests[r], answers[r])
    /\ \A r \in Request : \A s \in answers[r].secrets : AnswerKept(s, requests[r].owner)

-----------------------------------------------------------------------------
(* To the store, every step is one of its own *)

\* The commit of an answer is a create_secret.
LEMMA AnswerIsCreate ==
    ASSUME NEW u \in User, NEW owner \in User, NEW s \in Secret, NEW t \in Nat,
           now \in Nat, Create(u, AnswerDraft(owner), NoPath, s, t)
    PROVE  NewSecret
<1>1. AnswerDraft(owner) \in Drafts
  BY AnswerDraftAssumption
<1>2. t \in 0..now
  BY DEF Create
<1> QED
  BY <1>1, <1>2 DEF NewSecret

LEMMA StepIsStoreStep ==
    ASSUME RInv, [RNext]_allvars
    PROVE  [Next]_vars
<1>1. CASE StoreStep
  BY <1>1 DEF StoreStep, Next
<1>2. ASSUME NEW q \in ReqSession, FulfilCommit(q)
      PROVE  Next
  <2> DEFINE t == rtx[q]
             owner == requests[t.request].owner
  <2>1. t \in FulfilTx
    BY <1>2 DEF FulfilCommit, RInv, RTypeOK, FulfilTx, CancelTx, DeniedTx, Idle
  <2>2. /\ t.request \in Request /\ t.sender \in User /\ t.secret \in Secret /\ t.at \in Nat
        /\ now \in Nat
    BY <2>1 DEF FulfilTx, RInv, IInv, TypeOK
  <2>3. requests[t.request] \in RequestRow /\ requests[t.request].status = "active"
    BY <1>2, <2>2 DEF FulfilCommit, RInv, RTypeOK, DecidedOnCurrentRequest
  <2>4. owner \in User
    BY <2>2, <2>3 DEF RInv, RequestAgrees
  <2>5. [requests[t.request] EXCEPT !.uses = @ + 1].owner = owner
    BY <2>3 DEF RequestRow
  <2>6. Create(t.sender, AnswerDraft(owner), NoPath, t.secret, t.at)
    BY <1>2, <2>5 DEF FulfilCommit
  <2> HIDE DEF t, owner
  <2> QED
    BY <2>2, <2>4, <2>6, AnswerIsCreate DEF Next
<1>3. ASSUME \/ \E u \in User, r \in Request : RequestCreate(u, r)
             \/ \E q \in ReqSession, u \in User, r \in Request, s \in Secret : Fulfil(q, u, r, s)
             \/ \E q \in ReqSession, u \in User, r \in Request :
                    FulfilDenied(q, u, r) \/ Cancel(q, u, r)
             \/ \E q \in ReqSession : CancelCommit(q) \/ DeniedCommit(q) \/ ReqAbort(q)
             \/ ReqExpireUpdate \/ ReqExpireCommit \/ ReqExpireAbort
      PROVE  UNCHANGED vars
  BY <1>3 DEF RequestCreate, Fulfil, FulfilDenied, Cancel, Begin, CancelCommit, DeniedCommit,
              ReqAbort, ReqExpireUpdate, ReqExpireCommit, ReqExpireAbort
<1>4. CASE UNCHANGED allvars
  BY <1>4 DEF allvars, vars
<1> QED
  BY <1>1, <1>2, <1>3, <1>4 DEF RNext

-----------------------------------------------------------------------------
(* What the store never changes of a secret *)

SamePromise(s) ==
    /\ rows'[s].status # "absent"
    /\ rows'[s].views_allowed = rows[s].views_allowed
    /\ ledger'[s].audience = ledger[s].audience

\* Wiping rows changes nothing of what was promised.
LEMMA WipeKeepsPromise ==
    ASSUME IInv, NEW S \in SUBSET Secret, \A x \in S : IsActive(rows[x]),
           NEW reason \in Reason, NEW status \in {"expired", "destroyed"},
           rows' = [x \in Secret |-> IF x \in S THEN Destroyed(rows[x], reason, status)
                                    ELSE rows[x]],
           UNCHANGED ledger,
           NEW s \in Secret, rows[s].status # "absent"
    PROVE  SamePromise(s)
<1>1. rows[s] \in Row /\ status \in Status \ {"active"} /\ status # "absent"
  BY DEF IInv, TypeOK, Status
<1>2. CASE s \in S
  <2> DEFINE d == Destroyed(rows[s], reason, status)
  <2>1. d.status = status /\ d.views_allowed = rows[s].views_allowed
    BY <1>1, DestroyedFields
  <2>2. rows'[s] = d
    BY <1>2
  <2> HIDE DEF d
  <2> QED
    BY <1>1, <2>1, <2>2 DEF SamePromise
<1>3. CASE s \notin S
  BY <1>3 DEF SamePromise
<1> QED
  BY <1>2, <1>3

\* The commit of a viewer or of the creator does not either.
LEMMA CommitKeepsPromise ==
    ASSUME IInv, NEW p \in Session, Commit(p), NEW s \in Secret, rows[s].status # "absent"
    PROVE  SamePromise(s)
<1> DEFINE x == tx[p].secret
           viewer == tx[p].viewer
           new == tx[p].row
<1>1. /\ tx[p] \in RowTx /\ x \in Secret /\ new \in Row /\ tx[p].at \in Nat
      /\ viewer \in User \cup {NoUser}
      /\ rows[x] \in Row /\ ledger[x] \in Entry /\ RowAgrees(rows[x], ledger[x])
      /\ rows \in [Secret -> Row] /\ ledger \in [Secret -> Entry]
  BY DEF Commit, IInv, TypeOK, RowTx, PanicTx, Idle
<1>2. rows[x].status # "absent" /\ FairDecision(rows[x], new, viewer, tx[p].at)
  BY DEF Commit, IInv, DecidedOnCurrentRow
<1>3. rows' = [rows EXCEPT ![x] = new]
  BY DEF Commit
<1>4. CASE viewer = NoUser
  <2>1. ledger' = ledger
    BY <1>4 DEF Commit
  <2>2. CASE new = rows[x]
    BY <1>1, <1>3, <2>1, <2>2 DEF SamePromise
  <2>3. ASSUME NEW reason \in Reason, NEW status \in {"expired", "destroyed"},
               new = Destroyed(rows[x], reason, status)
        PROVE  SamePromise(s)
    <3> DEFINE d == Destroyed(rows[x], reason, status)
    <3>1. status \in Status \ {"active"} /\ status # "absent"
      BY DEF Status
    <3>2. d.status = status /\ d.views_allowed = rows[x].views_allowed
      BY <1>1, <3>1, DestroyedFields
    <3>3. new = d
      BY <2>3
    <3> HIDE DEF d
    <3> QED
      BY <1>1, <1>3, <2>1, <3>1, <3>2, <3>3 DEF SamePromise
  <2>4. "expired" \in Reason /\ "manual" \in Reason
    BY DEF Reason
  <2> QED
    BY <1>2, <1>4, <2>2, <2>3, <2>4 DEF FairDecision
<1>5. CASE viewer # NoUser
  <2>1. MayOpen(rows[x], viewer, tx[p].at) /\ new = Opened(rows[x], viewer, tx[p].at)
    BY <1>2, <1>5 DEF FairDecision
  <2>2. new.status # "absent" /\ new.views_allowed = rows[x].views_allowed
    BY <1>1, <1>5, <2>1, OpenedAgrees
  <2>3. ledger' = [ledger EXCEPT ![x] = EntryAfter(ledger[x], viewer, tx[p].at)]
    BY <1>5 DEF Commit
  <2>4. EntryAfter(ledger[x], viewer, tx[p].at).audience = ledger[x].audience
    BY <1>1 DEF EntryAfter, Entry
  <2> HIDE DEF x, viewer, new
  <2> QED
    BY <1>1, <1>3, <2>2, <2>3, <2>4 DEF SamePromise
<1> QED
  BY <1>4, <1>5

\* No step of the store brings a secret back to absent, widens its audience or its allowance.
LEMMA PromiseKept ==
    ASSUME IInv, [Next]_vars, NEW s \in Secret, rows[s].status # "absent"
    PROVE  SamePromise(s)
<1>1. ASSUME NEW u \in User, NEW d \in Drafts, NEW path \in Path \cup {NoPath},
             NEW x \in Secret, NEW t, Create(u, d, path, x, t)
      PROVE  SamePromise(s)
  BY <1>1 DEF Create, SamePromise, IInv, TypeOK
<1>2. ASSUME NEW p \in Session, Commit(p)
      PROVE  SamePromise(s)
  BY <1>2, CommitKeepsPromise
<1>3. ASSUME NEW p \in Session, PanicCommit(p)
      PROVE  SamePromise(s)
  <2> DEFINE S == tx[p].targets \cap OwnedActive(tx[p].user)
  <2>1. S \in SUBSET Secret /\ \A x \in S : IsActive(rows[x])
    BY DEF OwnedActive
  <2>2. /\ rows' = [x \in Secret |-> IF x \in S THEN Destroyed(rows[x], "manual", "destroyed")
                                     ELSE rows[x]]
        /\ UNCHANGED ledger /\ "manual" \in Reason
    BY <1>3 DEF PanicCommit, Reason
  <2> HIDE DEF S
  <2> QED
    BY <2>1, <2>2, WipeKeepsPromise
<1>4. CASE ExpireCommit
  <2> DEFINE S == worker.targets \cap OverdueActive(worker.cutoff)
  <2>1. S \in SUBSET Secret /\ \A x \in S : IsActive(rows[x])
    BY DEF OverdueActive
  <2>2. /\ rows' = [x \in Secret |-> IF x \in S THEN Destroyed(rows[x], "expired", "expired")
                                     ELSE rows[x]]
        /\ UNCHANGED ledger /\ "expired" \in Reason
    BY <1>4 DEF ExpireCommit, Reason
  <2> HIDE DEF S
  <2> QED
    BY <2>1, <2>2, WipeKeepsPromise
<1>5. ASSUME UNCHANGED <<rows, ledger>>
      PROVE  SamePromise(s)
  BY <1>5 DEF SamePromise
<1>6. ASSUME NEW p \in Session, NEW u \in User, NEW x \in Secret,
             \/ ConsumeExpired(p, u, x)
             \/ ConsumeDenied(p, u, x)
             \/ ConsumeGranted(p, u, x)
             \/ DestroyOwned(p, u, x)
      PROVE  UNCHANGED <<rows, ledger>>
  BY <1>6 DEF ConsumeExpired, ConsumeDenied, ConsumeGranted, DestroyOwned, Decide
<1>7. CASE \/ Tick
           \/ \E p \in Session, u \in User : PanicSelect(p, u)
           \/ \E p \in Session : PanicUpdate(p) \/ Abort(p)
           \/ ExpireSelect \/ ExpireUpdate \/ WorkerAbort
           \/ UNCHANGED vars
  BY <1>5, <1>7 DEF Tick, PanicSelect, PanicUpdate, Abort, ExpireSelect, ExpireUpdate,
                    WorkerAbort, vars
<1> QED
  BY <1>1, <1>2, <1>3, <1>4, <1>5, <1>6, <1>7 DEF Next, NewSecret, SessionStep, WorkerStep

-----------------------------------------------------------------------------
(* The transactions of a request *)

ReqTx == {Idle} \cup FulfilTx \cup CancelTx \cup DeniedTx

\* What a step keeps when no answer comes to be and no request changes its owner.
LEMMA OldAnswersKept ==
    ASSUME RInv, [Next]_vars,
           \A r \in Request : /\ answers'[r].secrets = answers[r].secrets
                              /\ answers[r].secrets # {} => requests'[r].owner = requests[r].owner
    PROVE  \A r \in Request : \A s \in answers'[r].secrets : AnswerKept(s, requests[r].owner)'
<1> SUFFICES ASSUME NEW r \in Request, NEW s \in answers'[r].secrets
             PROVE  AnswerKept(s, requests[r].owner)'
  OBVIOUS
<1>1. s \in answers[r].secrets /\ requests'[r].owner = requests[r].owner
  OBVIOUS
<1>2. s \in Secret /\ AnswerKept(s, requests[r].owner) /\ requests[r].owner \in User
  BY <1>1 DEF RInv, RTypeOK, RequestAgrees
<1>3. SamePromise(s)
  BY <1>2, PromiseKept DEF RInv, AnswerKept
<1> QED
  BY <1>1, <1>2, <1>3 DEF AnswerKept, SamePromise

\* SELECT ... FOR UPDATE on a request, and the verdict.
LEMMA BeginStep ==
    ASSUME RInv, IInv', [Next]_vars, NEW q \in ReqSession, NEW r \in Request,
           NEW txn \in FulfilTx \cup CancelTx \cup DeniedTx, txn.request = r,
           txn.op \in {"fulfil", "cancel"} => requests[r].status = "active",
           txn.op = "fulfil" => txn.at < requests[r].expires_at,
           Begin(q, r, txn)
    PROVE  RInv'
<1>1. /\ rtx' = [rtx EXCEPT ![q] = txn]
      /\ UNCHANGED <<requests, rworker, answers>>
      /\ ~HeldRequest(r)
      /\ rtx \in [ReqSession -> ReqTx] /\ requests \in [Request -> RequestRow]
  BY DEF Begin, RInv, RTypeOK, ReqTx
<1>2. RTypeOK'
  BY <1>1 DEF RInv, RTypeOK
<1>3. DecidedOnCurrentRequest'
  <2>1. rtx'[q] = txn /\ \A p \in ReqSession \ {q} : rtx'[p] = rtx[p]
    BY <1>1
  <2>2. \A p \in ReqSession : rtx[p] # Idle => rtx[p].request # r
    BY <1>1 DEF HeldRequest
  <2>3. ASSUME NEW p1 \in ReqSession, NEW p2 \in ReqSession,
               rtx'[p1] # Idle, rtx'[p2] # Idle, rtx'[p1].request = rtx'[p2].request
        PROVE  p1 = p2
    BY <2>1, <2>2, <2>3 DEF RInv, DecidedOnCurrentRequest
  <2>4. ASSUME NEW p \in ReqSession
        PROVE  /\ rtx'[p].op \in {"fulfil", "cancel"} =>
                      requests'[rtx'[p].request].status = "active"
               /\ rtx'[p].op = "fulfil" => rtx'[p].at < requests'[rtx'[p].request].expires_at
    <3>1. CASE p = q
      BY <1>1, <2>1, <3>1
    <3>2. CASE p # q
      BY <1>1, <2>1, <3>2 DEF RInv, DecidedOnCurrentRequest
    <3> QED
      BY <3>1, <3>2
  <2> QED
    BY <2>3, <2>4 DEF DecidedOnCurrentRequest
<1>4. \A x \in Request : RequestAgrees(requests[x], answers[x])'
  BY <1>1 DEF RInv, RequestAgrees
<1> QED
  BY <1>1, <1>2, <1>3, <1>4, OldAnswersKept DEF RInv

\* The end of a transaction on request r, which may change r and nothing else.
LEMMA ReleaseStep ==
    ASSUME RInv, NEW q \in ReqSession, NEW r \in Request, rtx[q] # Idle, rtx[q].request = r,
           rtx' = [rtx EXCEPT ![q] = Idle],
           requests' \in [Request -> RequestRow],
           \A x \in Request \ {r} : requests'[x] = requests[x]
    PROVE  /\ rtx' \in [ReqSession -> ReqTx]
           /\ DecidedOnCurrentRequest'
<1>1. /\ rtx \in [ReqSession -> ReqTx]
      /\ rtx'[q] = Idle /\ \A p \in ReqSession \ {q} : rtx'[p] = rtx[p]
  BY DEF RInv, RTypeOK, ReqTx
<1>2. ASSUME NEW p \in ReqSession, rtx'[p] # Idle
      PROVE  p # q /\ rtx'[p] = rtx[p] /\ rtx[p].request # r /\ rtx[p].request \in Request
  <2>1. p # q /\ rtx'[p] = rtx[p]
    BY <1>1, <1>2
  <2>2. rtx[p].request # r
    BY <1>2, <2>1 DEF RInv, DecidedOnCurrentRequest
  <2>3. rtx[p].request \in Request
    BY <1>1, <1>2, <2>1 DEF ReqTx, FulfilTx, CancelTx, DeniedTx
  <2> QED
    BY <2>1, <2>2, <2>3
<1>3. Idle.op \notin {"fulfil", "cancel"}
  BY DEF Idle
<1>4. DecidedOnCurrentRequest'
  <2>1. ASSUME NEW p1 \in ReqSession, NEW p2 \in ReqSession,
               rtx'[p1] # Idle, rtx'[p2] # Idle, rtx'[p1].request = rtx'[p2].request
        PROVE  p1 = p2
    BY <1>2, <2>1 DEF RInv, DecidedOnCurrentRequest
  <2>2. ASSUME NEW p \in ReqSession, rtx'[p].op \in {"fulfil", "cancel"}
        PROVE  /\ requests'[rtx'[p].request].status = "active"
               /\ rtx'[p].op = "fulfil" => rtx'[p].at < requests'[rtx'[p].request].expires_at
    <3>1. rtx'[p] # Idle
      BY <1>3, <2>2
    <3> QED
      BY <1>2, <2>2, <3>1 DEF RInv, DecidedOnCurrentRequest
  <2> QED
    BY <2>1, <2>2 DEF DecidedOnCurrentRequest
<1> QED
  BY <1>1, <1>4 DEF ReqTx, Idle

\* The answer: request, secret and record are written by one commit.
LEMMA FulfilStep ==
    ASSUME RInv, IInv', [Next]_vars, NEW q \in ReqSession, FulfilCommit(q)
    PROVE  RInv'
<1> DEFINE t == rtx[q]
           r == t.request
           old == requests[r]
           new == requests'[r]
<1>1. t \in FulfilTx
  BY DEF FulfilCommit, RInv, RTypeOK, FulfilTx, CancelTx, DeniedTx, Idle
<1>2. /\ r \in Request /\ t.sender \in User /\ t.secret \in Secret /\ t.at \in Nat
      /\ t # Idle /\ t.op = "fulfil"
  BY <1>1 DEF FulfilTx, Idle
<1>3. /\ old \in RequestRow /\ old.status = "active" /\ t.at < old.expires_at
      /\ requests \in [Request -> RequestRow]
      /\ answers \in [Request -> [secrets: SUBSET Secret, times: SUBSET Nat]]
  BY <1>2 DEF RInv, RTypeOK, DecidedOnCurrentRequest
<1>4. /\ old.owner \in User /\ old.max_uses = 1 /\ old.uses = 0
      /\ answers[r].secrets = {} /\ answers[r].times = {}
  BY <1>2, <1>3 DEF RInv, RequestAgrees
<1>5. requests' = [requests EXCEPT ![r] =
          [old EXCEPT !.uses = 1, !.status = "fulfilled", !.token = FALSE]]
  <2>1. [old EXCEPT !.uses = @ + 1] = [old EXCEPT !.uses = 1]
    BY <1>3, <1>4 DEF RequestRow
  <2>2. [old EXCEPT !.uses = 1].uses >= [old EXCEPT !.uses = 1].max_uses
    BY <1>3, <1>4 DEF RequestRow
  <2>3. [[old EXCEPT !.uses = 1] EXCEPT !.status = "fulfilled", !.token = FALSE]
            = [old EXCEPT !.uses = 1, !.status = "fulfilled", !.token = FALSE]
    BY <1>3 DEF RequestRow
  <2>4. requests' = [requests EXCEPT ![r] =
            IF [old EXCEPT !.uses = @ + 1].uses >= [old EXCEPT !.uses = @ + 1].max_uses
            THEN [[old EXCEPT !.uses = @ + 1] EXCEPT !.status = "fulfilled", !.token = FALSE]
            ELSE [old EXCEPT !.uses = @ + 1]]
    BY DEF FulfilCommit
  <2> QED
    BY <2>1, <2>2, <2>3, <2>4
<1>6. /\ new \in RequestRow /\ new.status = "fulfilled" /\ new.owner = old.owner
      /\ new.uses = 1 /\ new.max_uses = 1 /\ ~new.token /\ new.expires_at = old.expires_at
  BY <1>2, <1>3, <1>4, <1>5 DEF RequestRow, RequestStatus
<1>7. /\ answers' = [answers EXCEPT ![r].secrets = @ \cup {t.secret},
                                    ![r].times = @ \cup {t.at}]
      /\ rtx' = [rtx EXCEPT ![q] = Idle]
      /\ rworker' = rworker
  BY DEF FulfilCommit
<1>8. /\ answers'[r].secrets = {t.secret} /\ answers'[r].times = {t.at}
      /\ \A x \in Request \ {r} : answers'[x] = answers[x]
      /\ answers' \in [Request -> [secrets: SUBSET Secret, times: SUBSET Nat]]
  BY <1>2, <1>3, <1>4, <1>7
<1>9. /\ requests' \in [Request -> RequestRow]
      /\ \A x \in Request \ {r} : requests'[x] = requests[x]
  BY <1>3, <1>5, <1>6
<1>10. rtx' \in [ReqSession -> ReqTx] /\ DecidedOnCurrentRequest'
  BY <1>2, <1>7, <1>9, ReleaseStep
<1>11. RTypeOK'
  BY <1>7, <1>8, <1>9, <1>10 DEF RInv, RTypeOK, ReqTx
<1>12. ASSUME NEW x \in Request
       PROVE  RequestAgrees(requests'[x], answers'[x])
  <2>1. CASE x = r
    BY <1>2, <1>3, <1>4, <1>6, <1>8, <2>1 DEF RequestAgrees, Closed
  <2>2. CASE x # r
    BY <1>8, <1>9, <2>2 DEF RInv
  <2> QED
    BY <2>1, <2>2
<1>13. ASSUME NEW x \in Request, NEW s \in answers'[x].secrets
       PROVE  AnswerKept(s, requests[x].owner)'
  <2>1. CASE x = r
    <3>1. Create(t.sender, AnswerDraft(old.owner), NoPath, t.secret, t.at)
      <4>1. [old EXCEPT !.uses = @ + 1].owner = old.owner
        BY <1>3 DEF RequestRow
      <4> QED
        BY <4>1 DEF FulfilCommit
    <3>2. /\ rows'[t.secret] = NewRow(t.sender, AnswerDraft(old.owner), NoPath, t.at)
          /\ ledger'[t.secret] = NewEntry(AnswerDraft(old.owner), t.at)
      BY <1>2, <3>1 DEF Create, RInv, IInv, TypeOK
    <3>3. /\ rows'[t.secret].status = "active" /\ rows'[t.secret].views_allowed = 1
          /\ ledger'[t.secret].audience = {old.owner}
      BY <3>2 DEF NewRow, NewEntry, NoEntry, AnswerDraft
    <3>4. s = t.secret
      BY <1>8, <1>13, <2>1
    <3> QED
      BY <1>6, <2>1, <3>3, <3>4 DEF AnswerKept
  <2>2. CASE x # r
    <3>1. s \in answers[x].secrets /\ requests'[x] = requests[x]
      BY <1>8, <1>9, <1>13, <2>2
    <3>2. s \in Secret /\ AnswerKept(s, requests[x].owner) /\ requests[x].owner \in User
      BY <3>1 DEF RInv, RTypeOK, RequestAgrees
    <3>3. AnswerKept(s, requests[x].owner)
      BY <3>2
    <3>4. SamePromise(s)
      BY <3>2, PromiseKept DEF RInv, AnswerKept
    <3> QED
      BY <3>1, <3>3, <3>4 DEF AnswerKept, SamePromise
  <2> QED
    BY <2>1, <2>2
<1> QED
  BY <1>10, <1>11, <1>12, <1>13 DEF RInv

\* cancel_request: nothing became of the request, and nothing will.
LEMMA CancelStep ==
    ASSUME RInv, IInv', [Next]_vars, NEW q \in ReqSession, CancelCommit(q)
    PROVE  RInv'
<1> DEFINE r == rtx[q].request
           old == requests[r]
           new == [old EXCEPT !.status = "cancelled", !.token = FALSE, !.prompt = FALSE]
<1>1. rtx[q] \in CancelTx
  BY DEF CancelCommit, RInv, RTypeOK, FulfilTx, CancelTx, DeniedTx, Idle
<1>2. r \in Request /\ rtx[q] # Idle /\ rtx[q].op = "cancel"
  BY <1>1 DEF CancelTx, Idle
<1>3. /\ old \in RequestRow /\ old.status = "active" /\ requests \in [Request -> RequestRow]
  BY <1>2 DEF RInv, RTypeOK, DecidedOnCurrentRequest
<1>4. /\ requests' = [requests EXCEPT ![r] = new]
      /\ rtx' = [rtx EXCEPT ![q] = Idle]
      /\ UNCHANGED <<rworker, answers>>
  BY DEF CancelCommit
<1>5. /\ new \in RequestRow /\ new.status = "cancelled" /\ new.owner = old.owner
      /\ new.uses = old.uses /\ new.max_uses = old.max_uses /\ ~new.token /\ ~new.prompt
      /\ new.expires_at = old.expires_at
  BY <1>3 DEF RequestRow, RequestStatus
<1> HIDE DEF new
<1>6. /\ requests' \in [Request -> RequestRow]
      /\ requests'[r] = new /\ \A x \in Request \ {r} : requests'[x] = requests[x]
  BY <1>2, <1>3, <1>4, <1>5
<1> HIDE DEF r
<1>7. rtx' \in [ReqSession -> ReqTx] /\ DecidedOnCurrentRequest'
  BY <1>2, <1>4, <1>6, ReleaseStep DEF r
<1>8. RTypeOK'
  BY <1>4, <1>6, <1>7 DEF RInv, RTypeOK, ReqTx
<1>9. ASSUME NEW x \in Request
      PROVE  RequestAgrees(requests'[x], answers'[x]) /\ requests'[x].owner = requests[x].owner
  <2>1. RequestAgrees(requests[x], answers[x])
    BY DEF RInv
  <2>2. CASE x = r
    BY <1>3, <1>4, <1>5, <1>6, <2>1, <2>2 DEF RequestAgrees, Closed
  <2>3. CASE x # r
    BY <1>4, <1>6, <2>1, <2>3
  <2> QED
    BY <2>2, <2>3
<1>10. \A x \in Request : \A s \in answers'[x].secrets : AnswerKept(s, requests[x].owner)'
  BY <1>4, <1>9, OldAnswersKept
<1> QED
  BY <1>7, <1>8, <1>9, <1>10 DEF RInv

\* A denied answer, a request that is no longer active, a lost connection: only the lock goes.
LEMMA LetGoStep ==
    ASSUME RInv, IInv', [Next]_vars, NEW q \in ReqSession, DeniedCommit(q) \/ ReqAbort(q)
    PROVE  RInv'
<1>1. /\ rtx[q] # Idle /\ rtx' = [rtx EXCEPT ![q] = Idle]
      /\ UNCHANGED <<requests, rworker, answers>>
  BY DEF DeniedCommit, ReqAbort, Idle
<1>2. /\ rtx[q].request \in Request /\ requests \in [Request -> RequestRow]
  BY <1>1 DEF RInv, RTypeOK, FulfilTx, CancelTx, DeniedTx, Idle
<1>3. rtx' \in [ReqSession -> ReqTx] /\ DecidedOnCurrentRequest'
  BY <1>1, <1>2, ReleaseStep
<1>4. RTypeOK'
  BY <1>1, <1>3 DEF RInv, RTypeOK, ReqTx
<1>5. \A x \in Request : RequestAgrees(requests'[x], answers'[x])
  BY <1>1 DEF RInv
<1>6. \A x \in Request : \A s \in answers'[x].secrets : AnswerKept(s, requests[x].owner)'
  BY <1>1, OldAnswersKept
<1> QED
  BY <1>3, <1>4, <1>5, <1>6 DEF RInv

\* create_request inserts a row no transaction holds.
LEMMA RequestCreateStep ==
    ASSUME RInv, IInv', [Next]_vars, NEW u \in User, NEW r \in Request, RequestCreate(u, r)
    PROVE  RInv'
<1> DEFINE new == [status |-> "active", owner |-> u, token |-> TRUE, prompt |-> TRUE,
                   expires_at |-> now + RequestTTL, uses |-> 0, max_uses |-> 1]
<1>1. new \in RequestRow /\ new.status = "active" /\ new.owner = u
      /\ new.uses = 0 /\ new.max_uses = 1
  <2>1. now + RequestTTL \in Nat
    BY RequestAssumption DEF RInv, IInv, TypeOK
  <2> QED
    BY <2>1 DEF RequestRow, RequestStatus
<1>2. /\ requests[r].status = "absent"
      /\ requests' = [requests EXCEPT ![r] = new]
      /\ UNCHANGED <<rtx, rworker, answers>>
      /\ requests \in [Request -> RequestRow]
  BY DEF RequestCreate, RInv, RTypeOK
<1> HIDE DEF new
<1>3. /\ requests' \in [Request -> RequestRow]
      /\ requests'[r] = new /\ \A x \in Request \ {r} : requests'[x] = requests[x]
  BY <1>1, <1>2
<1>4. RTypeOK'
  BY <1>2, <1>3 DEF RInv, RTypeOK
<1>5. DecidedOnCurrentRequest'
  <2>1. ASSUME NEW q \in ReqSession, rtx[q].op \in {"fulfil", "cancel"}
        PROVE  rtx[q].request \in Request /\ rtx[q].request # r
    <3>1. rtx[q].request \in Request
      BY <2>1 DEF RInv, RTypeOK, FulfilTx, CancelTx, DeniedTx, Idle
    <3>2. requests[rtx[q].request].status = "active"
      BY <2>1 DEF RInv, DecidedOnCurrentRequest
    <3> QED
      BY <1>2, <3>1, <3>2
  <2> QED
    BY <1>2, <1>3, <2>1 DEF RInv, DecidedOnCurrentRequest
<1>6. RequestAgrees(requests[r], answers[r])
  BY DEF RInv
<1>7. \A x \in Request : RequestAgrees(requests'[x], answers'[x])
  BY <1>1, <1>2, <1>3, <1>6 DEF RInv, RequestAgrees, Closed
<1>8. answers[r].secrets = {}
  BY <1>2, <1>6 DEF RequestAgrees
<1>9. \A x \in Request : \A s \in answers'[x].secrets : AnswerKept(s, requests[x].owner)'
  BY <1>2, <1>3, <1>8, OldAnswersKept
<1> QED
  BY <1>4, <1>5, <1>7, <1>9 DEF RInv

\* The worker's UPDATE ends active requests nobody holds.
LEMMA ReqExpireCommitStep ==
    ASSUME RInv, IInv', [Next]_vars, ReqExpireCommit
    PROVE  RInv'
<1> DEFINE S == rworker.targets \cap OverdueRequests(rworker.cutoff)
           Ended(row) == [row EXCEPT !.status = "expired", !.token = FALSE, !.prompt = FALSE]
<1>1. \A r \in S : r \in Request /\ requests[r].status = "active" /\ ~HeldRequest(r)
  BY DEF ReqExpireCommit, OverdueRequests
<1>2. /\ requests' = [r \in Request |-> IF r \in S THEN Ended(requests[r]) ELSE requests[r]]
      /\ rworker' = Idle
      /\ UNCHANGED <<rtx, answers>>
      /\ requests \in [Request -> RequestRow]
  BY DEF ReqExpireCommit, RInv, RTypeOK
<1> HIDE DEF S
<1>3. ASSUME NEW row \in RequestRow
      PROVE  /\ Ended(row) \in RequestRow /\ Ended(row).status = "expired"
             /\ Ended(row).owner = row.owner /\ Ended(row).uses = row.uses
             /\ Ended(row).max_uses = row.max_uses /\ Ended(row).expires_at = row.expires_at
             /\ ~Ended(row).token /\ ~Ended(row).prompt
  BY DEF RequestRow, RequestStatus
<1> HIDE DEF Ended
<1>4. requests' \in [Request -> RequestRow]
  BY <1>2, <1>3
<1>5. RTypeOK'
  BY <1>2, <1>4 DEF RInv, RTypeOK
<1>6. DecidedOnCurrentRequest'
  <2>1. ASSUME NEW q \in ReqSession, rtx[q].op \in {"fulfil", "cancel"}
        PROVE  requests'[rtx[q].request] = requests[rtx[q].request]
    <3>1. rtx[q].request \in Request /\ rtx[q] # Idle
      BY <2>1 DEF RInv, RTypeOK, FulfilTx, CancelTx, DeniedTx, Idle
    <3>2. rtx[q].request \notin S
      BY <1>1, <3>1 DEF HeldRequest
    <3> QED
      BY <1>2, <3>1, <3>2
  <2> QED
    BY <1>2, <2>1 DEF RInv, DecidedOnCurrentRequest
<1>7. ASSUME NEW r \in Request
      PROVE  RequestAgrees(requests'[r], answers'[r]) /\ requests'[r].owner = requests[r].owner
  <2>1. RequestAgrees(requests[r], answers[r]) /\ requests[r] \in RequestRow
    BY <1>2 DEF RInv
  <2>2. CASE r \in S
    BY <1>1, <1>2, <1>3, <2>1, <2>2 DEF RequestAgrees, Closed
  <2>3. CASE r \notin S
    BY <1>2, <2>1, <2>3
  <2> QED
    BY <2>2, <2>3
<1>8. \A x \in Request : \A s \in answers'[x].secrets : AnswerKept(s, requests[x].owner)'
  BY <1>2, <1>7, OldAnswersKept
<1> QED
  BY <1>5, <1>6, <1>7, <1>8 DEF RInv

\* Steps that touch no request: those of the store, and the start or loss of the worker's UPDATE.
LEMMA AsideStep ==
    ASSUME RInv, IInv', [Next]_vars, UNCHANGED <<requests, rtx, answers>>,
           \/ UNCHANGED rworker
           \/ rworker' = Idle
           \/ rworker' = [op |-> "update", cutoff |-> now, targets |-> OverdueRequests(now)]
    PROVE  RInv'
<1>1. RTypeOK'
  <2>1. OverdueRequests(now) \in SUBSET Request /\ now \in Nat
    BY DEF OverdueRequests, RInv, IInv, TypeOK
  <2> QED
    BY <2>1 DEF RInv, RTypeOK
<1>2. DecidedOnCurrentRequest'
  BY DEF RInv, DecidedOnCurrentRequest
<1>3. \A r \in Request : RequestAgrees(requests'[r], answers'[r])
  BY DEF RInv
<1>4. \A x \in Request : \A s \in answers'[x].secrets : AnswerKept(s, requests[x].owner)'
  BY OldAnswersKept
<1> QED
  BY <1>1, <1>2, <1>3, <1>4 DEF RInv

-----------------------------------------------------------------------------
(* The theorems *)

LEMMA RInitRInv == RInit => RInv
<1> SUFFICES ASSUME RInit
             PROVE  RInv
  OBVIOUS
<1>1. IInv
  BY InitIInv DEF RInit
<1>2. AbsentRequest \in RequestRow
  BY DEF AbsentRequest, RequestRow, RequestStatus
<1>3. RTypeOK
  BY <1>2 DEF RInit, RTypeOK
<1>4. DecidedOnCurrentRequest
  BY DEF RInit, DecidedOnCurrentRequest, Idle
<1>5. \A r \in Request : RequestAgrees(requests[r], answers[r])
  BY DEF RInit, RequestAgrees, AbsentRequest, Closed
<1>6. \A r \in Request : answers[r].secrets = {}
  BY DEF RInit
<1> QED
  BY <1>1, <1>3, <1>4, <1>5, <1>6 DEF RInv

LEMMA RNextRInv == RInv /\ [RNext]_allvars => RInv'
<1> SUFFICES ASSUME RInv, [RNext]_allvars
             PROVE  RInv'
  OBVIOUS
<1>1. [Next]_vars
  BY StepIsStoreStep
<1>2. IInv'
  BY <1>1, NextIInv DEF RInv
<1>3. ASSUME NEW q \in ReqSession, NEW u \in User, NEW r \in Request,
             \/ \E s \in Secret : Fulfil(q, u, r, s)
             \/ FulfilDenied(q, u, r)
             \/ Cancel(q, u, r)
      PROVE  RInv'
  <2>1. ASSUME NEW s \in Secret, Fulfil(q, u, r, s)
        PROVE  RInv'
    <3> DEFINE txn == [op |-> "fulfil", request |-> r, sender |-> u, secret |-> s, at |-> now]
    <3>1. now \in Nat /\ requests[r] \in RequestRow
      BY DEF RInv, IInv, TypeOK, RTypeOK
    <3>2. /\ txn \in FulfilTx /\ txn.op = "fulfil" /\ txn.request = r
          /\ requests[r].status = "active" /\ txn.at < requests[r].expires_at
      BY <2>1, <3>1 DEF FulfilTx, Fulfil, Answerable, RequestRow
    <3>3. Begin(q, r, txn)
      BY <2>1 DEF Fulfil
    <3> HIDE DEF txn
    <3> QED
      BY <1>1, <1>2, <3>2, <3>3, BeginStep
  <2>2. ASSUME Begin(q, r, [op |-> "denied", request |-> r])
        PROVE  RInv'
    <3> DEFINE txn == [op |-> "denied", request |-> r]
    <3>1. txn \in DeniedTx /\ txn.op = "denied" /\ txn.request = r
      BY DEF DeniedTx
    <3>2. Begin(q, r, txn)
      BY <2>2
    <3> HIDE DEF txn
    <3> QED
      BY <1>1, <1>2, <3>1, <3>2, BeginStep
  <2>3. ASSUME requests[r].status = "active", Begin(q, r, [op |-> "cancel", request |-> r])
        PROVE  RInv'
    <3> DEFINE txn == [op |-> "cancel", request |-> r]
    <3>1. txn \in CancelTx /\ txn.op = "cancel" /\ txn.request = r
      BY DEF CancelTx
    <3>2. Begin(q, r, txn)
      BY <2>3
    <3> HIDE DEF txn
    <3> QED
      BY <1>1, <1>2, <2>3, <3>1, <3>2, BeginStep
  <2> QED
    BY <1>3, <2>1, <2>2, <2>3 DEF FulfilDenied, Cancel
<1>4. ASSUME NEW q \in ReqSession,
             FulfilCommit(q) \/ CancelCommit(q) \/ DeniedCommit(q) \/ ReqAbort(q)
      PROVE  RInv'
  BY <1>1, <1>2, <1>4, FulfilStep, CancelStep, LetGoStep
<1>5. ASSUME NEW u \in User, NEW r \in Request, RequestCreate(u, r)
      PROVE  RInv'
  BY <1>1, <1>2, <1>5, RequestCreateStep
<1>6. CASE ReqExpireCommit
  BY <1>1, <1>2, <1>6, ReqExpireCommitStep
<1>7. CASE ReqExpireUpdate \/ ReqExpireAbort
  BY <1>1, <1>2, <1>7, AsideStep DEF ReqExpireUpdate, ReqExpireAbort
<1>8. CASE StoreStep \/ UNCHANGED allvars
  BY <1>1, <1>2, <1>8, AsideStep DEF StoreStep, rvars, allvars
<1> QED
  BY <1>3, <1>4, <1>5, <1>6, <1>7, <1>8 DEF RNext

\* The inductive invariant holds in every reachable state of store and requests.
THEOREM RequestInvariant == RSpec => []RInv
  BY RInitRInv, RNextRInv, PTL DEF RSpec

\* The rows of the store change by the store's own steps only, so what is proved of Spec may be
\* used here (it is built that way: no property of requests).
LEMMA StoreIsPartOf == RSpec => Spec
<1>1. RInit => Init
  BY DEF RInit
<1>2. RInv /\ [RNext]_allvars => [Next]_vars
  BY StepIsStoreStep
<1> QED
  BY <1>1, <1>2, RequestInvariant, PTL DEF RSpec, Spec

\* The rows of requests, their transactions and the worker's UPDATE keep their types.
THEOREM RequestTypesCorrect == RSpec => []RTypeOK
<1>1. RInv => RTypeOK
  BY DEF RInv
<1> QED
  BY <1>1, RequestInvariant, PTL

\* A request becomes one secret at most, and exactly the fulfilled ones became one.
THEOREM AnsweredAtMostOnce == RSpec => []OneAnswerPerRequest
<1>1. RInv => OneAnswerPerRequest
  <2> SUFFICES ASSUME RInv, NEW r \in Request
               PROVE  /\ Cardinality(answers[r].secrets) = requests[r].uses
                      /\ requests[r].uses <= requests[r].max_uses
                      /\ answers[r].secrets # {} <=> requests[r].status = "fulfilled"
    BY DEF OneAnswerPerRequest
  <2>1. RequestAgrees(requests[r], answers[r]) /\ requests[r] \in RequestRow
    BY DEF RInv, RTypeOK
  <2>2. CASE requests[r].status = "fulfilled"
    <3>1. PICK s \in Secret : answers[r].secrets = {s}
      BY <2>1, <2>2 DEF RequestAgrees
    <3>2. Cardinality({s}) = 1
      BY FS_Singleton
    <3> QED
      BY <2>1, <2>2, <3>1, <3>2 DEF RequestAgrees
  <2>3. CASE requests[r].status # "fulfilled"
    <3>1. Cardinality({}) = 0
      BY FS_EmptySet
    <3>2. requests[r].uses = 0 /\ answers[r].secrets = {}
      BY <2>1, <2>3 DEF RequestAgrees
    <3>3. requests[r].max_uses \in Nat
      BY <2>1 DEF RequestRow
    <3> QED
      BY <2>3, <3>1, <3>2, <3>3
  <2> QED
    BY <2>2, <2>3
<1> QED
  BY <1>1, RequestInvariant, PTL

\* Only the owner of a request ever opens an answer to it, and at most once.
THEOREM AnswersOnlyToOwner == RSpec => []AnswersReachTheOwner
<1>1. RInv => AnswersReachTheOwner
  <2> SUFFICES ASSUME RInv, NEW r \in Request, NEW s \in answers[r].secrets
               PROVE  /\ rows[s].status # "absent"
                      /\ ledger[s].viewers \subseteq {requests[r].owner}
                      /\ ledger[s].opens <= 1
    BY DEF AnswersReachTheOwner
  <2>1. AnswerKept(s, requests[r].owner) /\ s \in Secret
    BY DEF RInv, RTypeOK
  <2>2. RowAgrees(rows[s], ledger[s])
    BY <2>1 DEF RInv, IInv
  <2> QED
    BY <2>1, <2>2 DEF AnswerKept, RowAgrees, LedgerAgrees, AudienceAgrees
<1> QED
  BY <1>1, RequestInvariant, PTL

\* No answer is decided on at or after the deadline of its request.
THEOREM AnswersNeverLate == RSpec => []AnsweredInTime
<1>1. RInv => AnsweredInTime
  BY DEF RInv, RequestAgrees, AnsweredInTime
<1> QED
  BY <1>1, RequestInvariant, PTL

\* A closed request keeps no link, a withdrawn or expired one no prompt.
THEOREM ClosedMeansWiped == RSpec => []ClosedRequestWiped
<1>1. RInv => ClosedRequestWiped
  BY DEF RInv, RequestAgrees, Closed, ClosedRequestWiped
<1> QED
  BY <1>1, RequestInvariant, PTL

\* The first of answering, cancelling and expiring to end a request is the only one.
THEOREM RequestsCloseOnce == RSpec => RequestClosesOnce
<1>1. ASSUME RInv, [RNext]_allvars, NEW r \in Request, requests[r].status \in Closed
      PROVE  requests'[r] = requests[r]
  <2>1. ASSUME NEW q \in ReqSession, FulfilCommit(q) \/ CancelCommit(q)
        PROVE  requests'[r] = requests[r]
    <3>1. rtx[q].op \in {"fulfil", "cancel"}
      BY <2>1 DEF FulfilCommit, CancelCommit
    <3>2. requests[rtx[q].request].status = "active"
      BY <1>1, <3>1 DEF RInv, DecidedOnCurrentRequest
    <3>3. rtx[q].request # r
      BY <1>1, <3>2 DEF Closed
    <3> QED
      BY <1>1, <2>1, <3>3 DEF FulfilCommit, CancelCommit, RInv, RTypeOK
  <2>2. ASSUME NEW u \in User, NEW x \in Request, RequestCreate(u, x)
        PROVE  requests'[r] = requests[r]
    BY <1>1, <2>2 DEF RequestCreate, Closed, RInv, RTypeOK
  <2>3. CASE ReqExpireCommit
    BY <1>1, <2>3 DEF ReqExpireCommit, OverdueRequests, Closed
  <2>4. ASSUME \/ StoreStep
               \/ \E q \in ReqSession, u \in User, x \in Request, s \in Secret :
                      Fulfil(q, u, x, s)
               \/ \E q \in ReqSession, u \in User, x \in Request :
                      FulfilDenied(q, u, x) \/ Cancel(q, u, x)
               \/ \E q \in ReqSession : DeniedCommit(q) \/ ReqAbort(q)
               \/ ReqExpireUpdate \/ ReqExpireAbort
               \/ UNCHANGED allvars
        PROVE  requests'[r] = requests[r]
    BY <2>4 DEF StoreStep, Fulfil, FulfilDenied, Cancel, Begin, DeniedCommit, ReqAbort,
                ReqExpireUpdate, ReqExpireAbort, rvars, allvars
  <2> QED
    BY <1>1, <2>1, <2>2, <2>3, <2>4 DEF RNext
<1>2. RInv /\ [RNext]_allvars =>
          [\A r \in Request : requests[r].status \in {"fulfilled", "cancelled", "expired"}
              => requests'[r] = requests[r]]_allvars
  BY <1>1 DEF Closed
<1> QED
  BY <1>2, RequestInvariant, PTL DEF RSpec, RequestClosesOnce

\* What the store guarantees it guarantees here too, of answers as of every other secret.
THEOREM AnswersNeverOverOpened == RSpec => [](OpensWithinAllowance /\ OpenersEntitled)
  BY StoreIsPartOf, NeverOverOpened, OnlyEntitledOpeners, PTL

=============================================================================
