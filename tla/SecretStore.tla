----------------------------- MODULE SecretStore -----------------------------
(***************************************************************************)
(* The transactions of app/services.py on table "secrets", run by          *)
(* concurrent sessions: the update tasks of the bot (aiogram handles every *)
(* update in a task of its own) and the cleanup loop of the worker         *)
(* process.                                                                *)
(*                                                                         *)
(* PostgreSQL runs them at READ COMMITTED. A single-row transaction takes  *)
(* the row with SELECT ... FOR UPDATE, decides, and holds the lock until   *)
(* it commits. From the answer to that SELECT to the commit the code       *)
(* awaits nothing, so decision and clock reading are one instant; the      *)
(* commit is a later step. A bulk UPDATE fixes the rows it will visit when *)
(* it starts, waits for those locked by others, and tests its WHERE clause *)
(* again on what they committed. A plain SELECT waits for nobody.          *)
(***************************************************************************)
EXTENDS Secrets, Integers

CONSTANTS
    Secret,     \* row ids
    Session,    \* database sessions of the bot process
    Drafts,     \* what users ask create_secret for
    MaxTime,    \* bound of the clock
    MaxAborts   \* bound of the lost connections and killed processes

ASSUME DraftAssumption == \A d \in Drafts : ValidDraft(d)
ASSUME BoundAssumption == MaxTime \in Nat /\ MaxAborts \in Nat

VARIABLES
    now,        \* the clock both processes read
    rows,       \* the committed rows
    tx,         \* for each session of the bot, its open transaction
    worker,     \* the open transaction of the worker's session
    aborts,     \* how many transactions were lost
    ledger      \* ghost: for each secret, what was promised and which opens were granted

vars == <<now, rows, tx, worker, aborts, ledger>>

-----------------------------------------------------------------------------
(* Transactions *)

Idle == [op |-> "idle"]

\* A single-row transaction: the locked row, the value its commit writes, the viewer it
\* lets in (or nobody), the instant it decided, the files its caller is told to delete.
RowTx == [op: {"row"}, secret: Secret, row: Row, viewer: User \cup {NoUser}, at: Nat,
          paths: SUBSET Path]

\* destroy_all_owned: after its SELECT, then during its UPDATE.
PanicTx == [op: {"panic"}, user: User, paths: SUBSET Path]
           \cup [op: {"panic_update"}, user: User, paths: SUBSET Path,
                 targets: SUBSET Secret]

\* expire_secrets: after its SELECT, then during its UPDATE.
ExpireTx == [op: {"expire"}, paths: SUBSET Path]
            \cup [op: {"expire_update"}, paths: SUBSET Path, cutoff: Nat,
                  targets: SUBSET Secret]

NoEntry == [opens |-> 0, viewers |-> {}, times |-> {}, audience |-> {}, deadline |-> NoTime]

Entry == [opens: Nat, viewers: SUBSET User, times: SUBSET Nat, audience: SUBSET User,
          deadline: Time]

\* The promise made when a secret is created, and one more granted open.
NewEntry(d, t) ==
    [NoEntry EXCEPT !.audience = IF d.mode = "specific" THEN {d.recipient} ELSE User,
                    !.deadline = IF d.ttl = 0 THEN NoTime ELSE t + d.ttl]

EntryAfter(e, u, t) ==
    [e EXCEPT !.opens = @ + 1, !.viewers = @ \cup {u}, !.times = @ \cup {t}]

TypeOK ==
    /\ now \in Nat
    /\ rows \in [Secret -> Row]
    /\ tx \in [Session -> {Idle} \cup RowTx \cup PanicTx]
    /\ worker \in {Idle} \cup ExpireTx
    /\ aborts \in Nat
    /\ ledger \in [Secret -> Entry]

Init ==
    /\ now = 0
    /\ rows = [s \in Secret |-> AbsentRow]
    /\ tx = [p \in Session |-> Idle]
    /\ worker = Idle
    /\ aborts = 0
    /\ ledger = [s \in Secret |-> NoEntry]

Holds(p, s) == tx[p].op = "row" /\ tx[p].secret = s

\* A mutant of Locked: SELECT without FOR UPDATE.
NeverLocked(s) == FALSE

Locked(s) == \E p \in Session : Holds(p, s)

\* A mutant of PathsOf: the SELECT forgets encrypted_file_path IS NOT NULL.
PathsOrNull(S) == {rows[s].path : s \in S}

PathsOf(S) == {rows[s].path : s \in S} \ {NoPath}

-----------------------------------------------------------------------------
(* The clock and the insertion of a row *)

Tick ==
    /\ now < MaxTime
    /\ now' = now + 1
    /\ UNCHANGED <<rows, tx, worker, aborts, ledger>>

\* create_secret computes the row from the clock at t and commits it now. The path is
\* whatever the draft holds: a stale menu can leave a path in a text draft, or ask for a file
\* secret of a draft that has none.
Create(u, d, path, s, t) ==
    /\ rows[s].status = "absent"
    /\ t <= now
    /\ rows' = [rows EXCEPT ![s] = NewRow(u, d, path, t)]
    /\ ledger' = [ledger EXCEPT ![s] = NewEntry(d, t)]
    /\ UNCHANGED <<now, tx, worker, aborts>>

-----------------------------------------------------------------------------
(* Single-row transactions: consume_secret and destroy_owned *)

\* SELECT ... FOR UPDATE has answered: the row exists and nobody else holds it.
Lockable(p, s) ==
    /\ tx[p] = Idle
    /\ rows[s].status # "absent"
    /\ ~Locked(s)

Decide(p, s, row, viewer, paths) ==
    /\ tx' = [tx EXCEPT ![p] = [op |-> "row", secret |-> s, row |-> row, viewer |-> viewer,
                                at |-> now, paths |-> paths]]
    /\ UNCHANGED <<now, rows, worker, aborts, ledger>>

\* The secret ran out before the worker came by: the viewer's own transaction expires it
\* and names its file to the caller.
ConsumeExpired(p, u, s) ==
    /\ Lockable(p, s)
    /\ IsActive(rows[s]) /\ Overdue(rows[s], now)
    /\ Decide(p, s, Destroyed(rows[s], "expired", "expired"), NoUser, PathsOf({s}))

\* "unavailable", "not_yet" or "wrong_user": nothing is written, but the lock was taken.
ConsumeDenied(p, u, s) ==
    /\ Lockable(p, s)
    /\ ~(IsActive(rows[s]) /\ Overdue(rows[s], now))
    /\ ~MayOpen(rows[s], u, now)
    /\ Decide(p, s, rows[s], NoUser, {})

\* The open is granted; deliver_secret deletes the file of a file secret it destroyed.
ConsumeGranted(p, u, s) ==
    LET row == Opened(rows[s], u, now)
    IN  /\ Lockable(p, s)
        /\ MayOpen(rows[s], u, now)
        /\ Decide(p, s, row, u,
                  IF row.kind = "file" /\ ~IsActive(row) THEN PathsOf({s}) ELSE {})

\* destroy_owned: only the creator's SELECT finds the row.
DestroyOwned(p, u, s) ==
    /\ Lockable(p, s)
    /\ rows[s].creator = u
    /\ IF IsActive(rows[s])
       THEN Decide(p, s, Destroyed(rows[s], "manual", "destroyed"), NoUser, PathsOf({s}))
       ELSE Decide(p, s, rows[s], NoUser, {})

\* The end of `async with session.begin()`: the row is written and its lock released.
Commit(p) ==
    /\ tx[p].op = "row"
    /\ rows' = [rows EXCEPT ![tx[p].secret] = tx[p].row]
    /\ ledger' = IF tx[p].viewer = NoUser THEN ledger
                 ELSE [ledger EXCEPT ![tx[p].secret] =
                           EntryAfter(ledger[tx[p].secret], tx[p].viewer, tx[p].at)]
    /\ tx' = [tx EXCEPT ![p] = Idle]
    /\ UNCHANGED <<now, worker, aborts>>

-----------------------------------------------------------------------------
(* The panic button: destroy_all_owned *)

OwnedActive(u) == {s \in Secret : IsActive(rows[s]) /\ rows[s].creator = u}

PanicSelect(p, u) ==
    /\ tx[p] = Idle
    /\ tx' = [tx EXCEPT ![p] = [op |-> "panic", user |-> u, paths |-> PathsOf(OwnedActive(u))]]
    /\ UNCHANGED <<now, rows, worker, aborts, ledger>>

PanicUpdate(p) ==
    /\ tx[p].op = "panic"
    /\ tx' = [tx EXCEPT ![p] = [op |-> "panic_update", user |-> tx[p].user,
                                paths |-> tx[p].paths, targets |-> OwnedActive(tx[p].user)]]
    /\ UNCHANGED <<now, rows, worker, aborts, ledger>>

\* A mutant of PanicCommit: the UPDATE does not test its WHERE clause again after the wait.
PanicCommitBlind(p) ==
    /\ tx[p].op = "panic_update"
    /\ \A s \in tx[p].targets : ~Locked(s)
    /\ rows' = [s \in Secret |-> IF s \in tx[p].targets
                                 THEN Destroyed(rows[s], "manual", "destroyed")
                                 ELSE rows[s]]
    /\ tx' = [tx EXCEPT ![p] = Idle]
    /\ UNCHANGED <<now, worker, aborts, ledger>>

\* A mutant of PanicCommit: the UPDATE does not wait for rows locked by viewers.
PanicCommitNoWait(p) ==
    /\ tx[p].op = "panic_update"
    /\ rows' = [s \in Secret |-> IF s \in tx[p].targets \cap OwnedActive(tx[p].user)
                                 THEN Destroyed(rows[s], "manual", "destroyed")
                                 ELSE rows[s]]
    /\ tx' = [tx EXCEPT ![p] = Idle]
    /\ UNCHANGED <<now, worker, aborts, ledger>>

PanicCommit(p) ==
    /\ tx[p].op = "panic_update"
    /\ \A s \in tx[p].targets : ~Locked(s)
    /\ rows' = [s \in Secret |-> IF s \in tx[p].targets \cap OwnedActive(tx[p].user)
                                 THEN Destroyed(rows[s], "manual", "destroyed")
                                 ELSE rows[s]]
    /\ tx' = [tx EXCEPT ![p] = Idle]
    /\ UNCHANGED <<now, worker, aborts, ledger>>

-----------------------------------------------------------------------------
(* The worker: expire_secrets *)

\* A mutant of OverdueActive: the WHERE clause of the file SELECT used for the UPDATE too.
OverdueActiveFiles(t) ==
    {s \in Secret : IsActive(rows[s]) /\ Overdue(rows[s], t) /\ rows[s].path # NoPath}

OverdueActive(t) == {s \in Secret : IsActive(rows[s]) /\ Overdue(rows[s], t)}

ExpireSelect ==
    /\ worker = Idle
    /\ worker' = [op |-> "expire", paths |-> PathsOf(OverdueActive(now))]
    /\ UNCHANGED <<now, rows, tx, aborts, ledger>>

ExpireUpdate ==
    /\ worker.op = "expire"
    /\ worker' = [op |-> "expire_update", paths |-> worker.paths, cutoff |-> now,
                  targets |-> OverdueActive(now)]
    /\ UNCHANGED <<now, rows, tx, aborts, ledger>>

ExpireCommit ==
    /\ worker.op = "expire_update"
    /\ \A s \in worker.targets : ~Locked(s)
    /\ rows' = [s \in Secret |-> IF s \in worker.targets \cap OverdueActive(worker.cutoff)
                                 THEN Destroyed(rows[s], "expired", "expired")
                                 ELSE rows[s]]
    /\ worker' = Idle
    /\ UNCHANGED <<now, tx, aborts, ledger>>

-----------------------------------------------------------------------------
(* Lost connections and killed processes: PostgreSQL rolls the transaction back. *)

Abort(p) ==
    /\ aborts < MaxAborts
    /\ tx[p] # Idle
    /\ tx' = [tx EXCEPT ![p] = Idle]
    /\ aborts' = aborts + 1
    /\ UNCHANGED <<now, rows, worker, ledger>>

WorkerAbort ==
    /\ aborts < MaxAborts
    /\ worker # Idle
    /\ worker' = Idle
    /\ aborts' = aborts + 1
    /\ UNCHANGED <<now, rows, tx, ledger>>

-----------------------------------------------------------------------------

NewSecret ==
    \E u \in User, d \in Drafts, path \in Path \cup {NoPath}, s \in Secret, t \in 0..now :
        Create(u, d, path, s, t)

SessionStep ==
    \/ \E p \in Session, u \in User, s \in Secret :
           \/ ConsumeExpired(p, u, s)
           \/ ConsumeDenied(p, u, s)
           \/ ConsumeGranted(p, u, s)
           \/ DestroyOwned(p, u, s)
    \/ \E p \in Session, u \in User : PanicSelect(p, u)
    \/ \E p \in Session : Commit(p) \/ PanicUpdate(p) \/ PanicCommit(p) \/ Abort(p)

WorkerStep == ExpireSelect \/ ExpireUpdate \/ ExpireCommit \/ WorkerAbort

Next == Tick \/ NewSecret \/ SessionStep \/ WorkerStep

Spec == Init /\ [][Next]_vars

\* The cleanup loop never stops (restart: unless-stopped) and a session that decided goes on
\* to its commit. ExpireCommit is enabled again and again while viewers keep locking its
\* targets: PostgreSQL serves a row's lock queue in order, hence strong fairness for it.
Fairness ==
    /\ WF_vars(ExpireSelect)
    /\ WF_vars(ExpireUpdate)
    /\ SF_vars(ExpireCommit)
    /\ \A p \in Session : WF_vars(Commit(p))

FairSpec == Spec /\ Fairness

-----------------------------------------------------------------------------
(* Properties *)

\* Parallel opens never exceed the allowance: the opens granted are the views counted, and a
\* secret ends by view limit exactly when the last allowed one was granted (consume_secret
\* under its row lock; tests/test_race_integration.py asks it of one pair of opens).
OpensWithinAllowance ==
    \A s \in Secret :
        /\ ledger[s].opens = rows[s].views_used
        /\ rows[s].views_used <= rows[s].views_allowed
        /\ rows[s].status # "absent" =>
               (rows[s].reason = "view_limit" <=> rows[s].views_used = rows[s].views_allowed)

\* Whoever was let in was meant to be: the specific recipient, or for a "first" secret one
\* single viewer, also when several race for the claim or the row is wiped in between.
OpenersEntitled ==
    \A s \in Secret :
        /\ ledger[s].viewers \subseteq ledger[s].audience
        /\ rows[s].mode = "first" => \A u, v \in ledger[s].viewers : u = v

\* Every open was granted inside the window the creator chose: not before available_at, and
\* before both the deadline set at creation and the timer that the first open started.
OpensInTime ==
    \A s \in Secret : \A t \in ledger[s].times :
        /\ ~NotYet(rows[s], t)
        /\ ledger[s].deadline # NoTime => t < ledger[s].deadline
        /\ rows[s].destroy_after > 0 => t < rows[s].first_opened_at + rows[s].destroy_after

Wiped(row) ==
    /\ ~row.ciphertext /\ ~row.token /\ ~row.pin
    /\ row.path = NoPath
    /\ row.recipient = NoUser /\ row.claimed = NoUser

\* A secret that is not active keeps no payload, link, PIN hash, recipient or claim, however
\* it ended: by its last view, by hand, by panic, by the worker or by a late viewer.
InactiveWiped == \A s \in Secret : ~IsActive(rows[s]) => Wiped(rows[s])

\* A decision that fits the row it was made on: an open granted by the rules, an early
\* ending of an active row, or nothing to write.
FairDecision(row, new, viewer, t) ==
    IF viewer # NoUser
    THEN MayOpen(row, viewer, t) /\ new = Opened(row, viewer, t)
    ELSE \/ new = row
         \/ /\ IsActive(row)
            /\ new \in {Destroyed(row, "expired", "expired"),
                        Destroyed(row, "manual", "destroyed")}

\* What a transaction is about to commit is still computed from the row as it is committed:
\* nobody else writes a row between SELECT ... FOR UPDATE and the commit, and no two
\* transactions hold one row. (This is what makes the counts above exact.)
DecidedOnCurrentRow ==
    /\ \A p, q \in Session, s \in Secret : Holds(p, s) /\ Holds(q, s) => p = q
    /\ \A p \in Session : tx[p].op = "row" =>
           /\ rows[tx[p].secret].status # "absent"
           /\ FairDecision(rows[tx[p].secret], tx[p].row, tx[p].viewer, tx[p].at)

\* What a row and its ledger entry say of each other; with DecidedOnCurrentRow it is inductive
\* and implies the invariants above.
LedgerAgrees(row, e) ==
    /\ e.opens = row.views_used /\ row.views_used <= row.views_allowed
    /\ row.status = "absent" => row = AbsentRow /\ e = NoEntry
    /\ IsActive(row) => row.views_used < row.views_allowed /\ row.reason = "none"
    /\ row.status \in {"destroyed", "expired"} =>
           (row.reason = "view_limit" <=> row.views_used = row.views_allowed)

AudienceAgrees(row, e) ==
    /\ e.viewers \subseteq e.audience
    /\ row.mode = "first" => \A u, v \in e.viewers : u = v
    /\ IsActive(row) =>
           /\ e.audience = IF row.mode = "specific" THEN {row.recipient} ELSE User
           /\ row.mode = "first" => e.viewers \subseteq {row.claimed}
           /\ row.mode = "first" => (e.viewers = {} <=> row.claimed = NoUser)

WindowAgrees(row, e) ==
    /\ \A t \in e.times :
           /\ ~NotYet(row, t)
           /\ row.first_opened_at # NoTime
           /\ e.deadline # NoTime => t < e.deadline
           /\ row.destroy_after > 0 => t < row.first_opened_at + row.destroy_after
    /\ IsActive(row) =>
           /\ e.deadline # NoTime => row.expires_at # NoTime /\ row.expires_at <= e.deadline
           /\ row.first_opened_at # NoTime /\ row.destroy_after > 0 =>
                  /\ row.expires_at # NoTime
                  /\ row.expires_at <= row.first_opened_at + row.destroy_after

RowAgrees(row, e) ==
    /\ LedgerAgrees(row, e)
    /\ AudienceAgrees(row, e)
    /\ WindowAgrees(row, e)
    /\ ~IsActive(row) => Wiped(row)

IInv ==
    /\ TypeOK
    /\ DecidedOnCurrentRow
    /\ \A s \in Secret : RowAgrees(rows[s], ledger[s])

\* No transaction that decided on an old row brings a finished secret back or rewrites its
\* status: row locks and the re-tested WHERE clauses make the first ending the only one.
EndsOnce ==
    [][\A s \in Secret : rows[s].status \in {"destroyed", "expired"} => rows'[s] = rows[s]]_vars

\* An overdue secret does not stay active, whatever viewers do to its row meanwhile.
OverdueIsEnded ==
    \A s \in Secret : (IsActive(rows[s]) /\ Overdue(rows[s], now)) ~> ~IsActive(rows[s])

\* The store implements the abstract one-time secret.
PhaseOf(s) == CASE rows[s].status = "absent" -> "absent"
                [] rows[s].status = "active" -> "live"
                [] OTHER -> "gone"

AudienceOf(s) == IF rows[s].mode = "first" /\ ledger[s].viewers # {}
                 THEN ledger[s].viewers ELSE ledger[s].audience

Abstract == INSTANCE OneTimeSecret WITH
    phase <- [s \in Secret |-> PhaseOf(s)],
    left <- [s \in Secret |-> rows[s].views_allowed - rows[s].views_used],
    audience <- [s \in Secret |-> AudienceOf(s)]

\* Every step of the store is a step of OneTimeSecret or invisible to it.
ImplementsOneTimeSecret == Abstract!OSpec
=============================================================================
