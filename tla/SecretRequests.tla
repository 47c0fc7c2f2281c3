---------------------------- MODULE SecretRequests ----------------------------
(***************************************************************************)
(* Secret requests: one user asks for a secret, another answers it, and    *)
(* the answer is a secret only the first can open. The request functions   *)
(* of app/services.py and the handlers that call them, beside the secret   *)
(* store they insert the answer into.                                      *)
(*                                                                         *)
(* Locks and bulk UPDATE are modelled as in SecretStore. A request handler *)
(* has a database session of its own, so ReqSession is disjoint from the   *)
(* sessions of the store.                                                  *)
(***************************************************************************)
EXTENDS SecretStore

CONSTANTS
    Request,        \* ids of table "secret_requests"
    ReqSession,     \* sessions that run create, cancel and fulfil
    RequestTTL,     \* settings.request_ttl
    AnswerTTL       \* the 86400 of fulfill_request

ASSUME RequestAssumption == RequestTTL \in Nat \ {0} /\ AnswerTTL \in Nat \ {0}

VARIABLES
    requests,   \* the committed rows of secret_requests
    rtx,        \* for each request session, its open transaction
    rworker,    \* the UPDATE of expire_requests, when it runs
    answers     \* ghost: for each request, the secrets it became and the instants of decision

rvars == <<requests, rtx, rworker, answers>>
allvars == <<now, rows, tx, worker, aborts, ledger, requests, rtx, rworker, answers>>

RequestStatus == {"absent", "active", "fulfilled", "cancelled", "expired"}

\* token and prompt stand for three encrypted columns each. max_uses is 1 for every row
\* create_request inserts.
RequestRow == [status: RequestStatus, owner: User \cup {NoUser}, token: BOOLEAN,
               prompt: BOOLEAN, expires_at: Nat, uses: Nat, max_uses: Nat]

AbsentRequest == [status |-> "absent", owner |-> NoUser, token |-> FALSE, prompt |-> FALSE,
                  expires_at |-> 0, uses |-> 0, max_uses |-> 0]

\* A mutant of AnswerDraft: fulfill_request leaves recipient_mode at its default.
AnswerDraftForAnyone(owner) ==
    [kind |-> "text", mode |-> "any", recipient |-> owner, pin |-> FALSE,
     ttl |-> AnswerTTL, views |-> 1, available_at |-> NoTime, destroy_after |-> 3600]

\* The secret an answer becomes: one view, for the owner of the request only; the other
\* arguments are the defaults of create_secret.
AnswerDraft(owner) ==
    [kind |-> "text", mode |-> "specific", recipient |-> owner, pin |-> FALSE,
     ttl |-> AnswerTTL, views |-> 1, available_at |-> NoTime, destroy_after |-> 3600]

\* fulfill_request asks create_secret of the store like everybody else.
ASSUME AnswerDraftAssumption == \A u \in User : AnswerDraft(u) \in Drafts

FulfilTx == [op: {"fulfil"}, request: Request, sender: User, secret: Secret, at: Nat]
CancelTx == [op: {"cancel"}, request: Request]
DeniedTx == [op: {"denied"}, request: Request]

RTypeOK ==
    /\ requests \in [Request -> RequestRow]
    /\ rtx \in [ReqSession -> {Idle} \cup FulfilTx \cup CancelTx \cup DeniedTx]
    /\ rworker \in {Idle} \cup [op: {"update"}, cutoff: Nat, targets: SUBSET Request]
    /\ answers \in [Request -> [secrets: SUBSET Secret, times: SUBSET Nat]]

RInit ==
    /\ Init
    /\ requests = [r \in Request |-> AbsentRequest]
    /\ rtx = [q \in ReqSession |-> Idle]
    /\ rworker = Idle
    /\ answers = [r \in Request |-> [secrets |-> {}, times |-> {}]]

HeldRequest(r) == \E q \in ReqSession : rtx[q] # Idle /\ rtx[q].request = r

\* The id of a secret that is flushed but not committed: ids are random and never collide.
Reserved(s) == \E q \in ReqSession : rtx[q].op = "fulfil" /\ rtx[q].secret = s

-----------------------------------------------------------------------------
(* The handlers' transactions *)

\* A mutant of RequestCreate: a request without a deadline, as create_secret treats a TTL of 0.
RequestCreateForever(u, r) ==
    /\ requests[r].status = "absent"
    /\ requests' = [requests EXCEPT ![r] =
           [status |-> "active", owner |-> u, token |-> TRUE, prompt |-> TRUE,
            expires_at |-> NoTime, uses |-> 0, max_uses |-> 1]]
    /\ UNCHANGED <<vars, rtx, rworker, answers>>

RequestCreate(u, r) ==
    /\ requests[r].status = "absent"
    /\ requests' = [requests EXCEPT ![r] =
           [status |-> "active", owner |-> u, token |-> TRUE, prompt |-> TRUE,
            expires_at |-> now + RequestTTL, uses |-> 0, max_uses |-> 1]]
    /\ UNCHANGED <<vars, rtx, rworker, answers>>

Begin(q, r, txn) ==
    /\ rtx[q] = Idle
    /\ requests[r].status # "absent"
    /\ ~HeldRequest(r)
    /\ rtx' = [rtx EXCEPT ![q] = txn]
    /\ UNCHANGED <<vars, requests, rworker, answers>>

\* A mutant of Answerable: the deadline is left to the worker.
AnswerableLate(row) == row.status = "active" /\ row.uses < row.max_uses

\* The test under the row lock. The handlers test the same before (a stale page still shows
\* the button), which decides nothing.
Answerable(row) ==
    /\ row.status = "active"
    /\ row.expires_at > now
    /\ row.uses < row.max_uses

\* The new secret is flushed in this transaction: nobody sees it before the commit, and its
\* id is fresh.
Fulfil(q, u, r, s) ==
    /\ Answerable(requests[r])
    /\ rows[s].status = "absent"
    /\ ~Reserved(s)
    /\ Begin(q, r, [op |-> "fulfil", request |-> r, sender |-> u, secret |-> s, at |-> now])

FulfilDenied(q, u, r) ==
    /\ ~Answerable(requests[r])
    /\ Begin(q, r, [op |-> "denied", request |-> r])

\* cancel_request finds the row by id and owner.
Cancel(q, u, r) ==
    /\ requests[r].owner = u
    /\ Begin(q, r, [op |-> IF requests[r].status = "active" THEN "cancel" ELSE "denied",
                    request |-> r])

\* A mutant of FulfilCommit: create_secret is left its commit=True, and the request is
\* marked as fulfilled in a transaction of its own that never comes.
FulfilCommitSecretOnly(q) ==
    /\ rtx[q].op = "fulfil"
    /\ LET t == rtx[q]
           r == t.request
       IN  /\ Create(t.sender, AnswerDraft(requests[r].owner), NoPath, t.secret, t.at)
           /\ answers' = [answers EXCEPT ![r].secrets = @ \cup {t.secret},
                                         ![r].times = @ \cup {t.at}]
    /\ rtx' = [rtx EXCEPT ![q] = Idle]
    /\ UNCHANGED <<requests, rworker>>

\* One commit publishes the used request and the new secret.
FulfilCommit(q) ==
    /\ rtx[q].op = "fulfil"
    /\ LET t == rtx[q]
           r == t.request
           used == [requests[r] EXCEPT !.uses = @ + 1]
       IN  /\ requests' = [requests EXCEPT ![r] =
                  IF used.uses >= used.max_uses
                  THEN [used EXCEPT !.status = "fulfilled", !.token = FALSE] ELSE used]
           /\ Create(t.sender, AnswerDraft(used.owner), NoPath, t.secret, t.at)
           /\ answers' = [answers EXCEPT ![r].secrets = @ \cup {t.secret},
                                         ![r].times = @ \cup {t.at}]
    /\ rtx' = [rtx EXCEPT ![q] = Idle]
    /\ UNCHANGED rworker

\* A mutant of CancelCommit: it clears what fulfill_request clears.
CancelCommitKeepsPrompt(q) ==
    /\ rtx[q].op = "cancel"
    /\ requests' = [requests EXCEPT ![rtx[q].request] =
           [@ EXCEPT !.status = "cancelled", !.token = FALSE]]
    /\ rtx' = [rtx EXCEPT ![q] = Idle]
    /\ UNCHANGED <<vars, rworker, answers>>

CancelCommit(q) ==
    /\ rtx[q].op = "cancel"
    /\ requests' = [requests EXCEPT ![rtx[q].request] =
           [@ EXCEPT !.status = "cancelled", !.token = FALSE, !.prompt = FALSE]]
    /\ rtx' = [rtx EXCEPT ![q] = Idle]
    /\ UNCHANGED <<vars, rworker, answers>>

DeniedCommit(q) ==
    /\ rtx[q].op = "denied"
    /\ rtx' = [rtx EXCEPT ![q] = Idle]
    /\ UNCHANGED <<vars, requests, rworker, answers>>

\* Rolled back: neither the use nor the secret was written.
ReqAbort(q) ==
    /\ rtx[q] # Idle
    /\ rtx' = [rtx EXCEPT ![q] = Idle]
    /\ UNCHANGED <<vars, requests, rworker, answers>>

-----------------------------------------------------------------------------
(* The worker: expire_requests, one bulk UPDATE *)

OverdueRequests(t) ==
    {r \in Request : requests[r].status = "active" /\ requests[r].expires_at <= t}

\* The worker runs expire_secrets and expire_requests in turn.
ReqExpireUpdate ==
    /\ worker = Idle
    /\ rworker = Idle
    /\ rworker' = [op |-> "update", cutoff |-> now, targets |-> OverdueRequests(now)]
    /\ UNCHANGED <<vars, requests, rtx, answers>>

\* A mutant of ReqExpireCommit: the WHERE clause is not tested again after the wait.
ReqExpireCommitBlind ==
    /\ rworker # Idle
    /\ \A r \in rworker.targets : ~HeldRequest(r)
    /\ requests' = [r \in Request |-> IF r \in rworker.targets
           THEN [requests[r] EXCEPT !.status = "expired", !.token = FALSE, !.prompt = FALSE]
           ELSE requests[r]]
    /\ rworker' = Idle
    /\ UNCHANGED <<vars, rtx, answers>>

ReqExpireCommit ==
    /\ rworker # Idle
    /\ \A r \in rworker.targets : ~HeldRequest(r)
    /\ requests' = [r \in Request |->
           IF r \in rworker.targets \cap OverdueRequests(rworker.cutoff)
           THEN [requests[r] EXCEPT !.status = "expired", !.token = FALSE, !.prompt = FALSE]
           ELSE requests[r]]
    /\ rworker' = Idle
    /\ UNCHANGED <<vars, rtx, answers>>

ReqExpireAbort ==
    /\ rworker # Idle
    /\ rworker' = Idle
    /\ UNCHANGED <<vars, requests, rtx, answers>>

-----------------------------------------------------------------------------

\* What becomes of the answers, and time. Other secrets of the store never meet these rows,
\* so no step of this module inserts one.
StoreStep ==
    /\ Tick \/ SessionStep \/ (rworker = Idle /\ WorkerStep)
    /\ UNCHANGED rvars

RNext ==
    \/ StoreStep
    \/ \E u \in User, r \in Request : RequestCreate(u, r)
    \/ \E q \in ReqSession, u \in User, r \in Request, s \in Secret : Fulfil(q, u, r, s)
    \/ \E q \in ReqSession, u \in User, r \in Request :
           FulfilDenied(q, u, r) \/ Cancel(q, u, r)
    \/ \E q \in ReqSession :
           FulfilCommit(q) \/ CancelCommit(q) \/ DeniedCommit(q) \/ ReqAbort(q)
    \/ ReqExpireUpdate
    \/ ReqExpireCommit
    \/ ReqExpireAbort

RSpec == RInit /\ [][RNext]_allvars

-----------------------------------------------------------------------------
(* Properties *)

\* A request becomes at most max_uses secrets, however many answers race for it, and it is
\* fulfilled exactly when it became one; a cancelled or expired request never did. The use
\* and the secret are published together or not at all (fulfill_request, commit=False).
OneAnswerPerRequest ==
    \A r \in Request :
        /\ Cardinality(answers[r].secrets) = requests[r].uses
        /\ requests[r].uses <= requests[r].max_uses
        /\ answers[r].secrets # {} <=> requests[r].status = "fulfilled"

\* An answer is opened by the owner of the request, once, and by nobody else; before that it
\* waits as an ordinary secret of the sender's.
AnswersReachTheOwner ==
    \A r \in Request : \A s \in answers[r].secrets :
        /\ rows[s].status # "absent"
        /\ ledger[s].viewers \subseteq {requests[r].owner}
        /\ ledger[s].opens <= 1

\* No answer is accepted at or after the request's deadline, worker or no worker.
AnsweredInTime ==
    \A r \in Request : \A t \in answers[r].times : t < requests[r].expires_at

\* A closed request keeps no recoverable link, and a withdrawn one no prompt either. (A
\* fulfilled request does keep its prompt: fulfill_request clears the token only.)
ClosedRequestWiped ==
    \A r \in Request :
        /\ requests[r].status \in {"fulfilled", "cancelled", "expired"} => ~requests[r].token
        /\ requests[r].status \in {"cancelled", "expired"} => ~requests[r].prompt

\* Cancelling, answering and expiring race for the row; the first to end a request ends it.
RequestClosesOnce ==
    [][\A r \in Request : requests[r].status \in {"fulfilled", "cancelled", "expired"}
           => requests'[r] = requests[r]]_allvars

=============================================================================
