-------------------------- MODULE SecretStoreProofs --------------------------
(***************************************************************************)
(* Proofs about SecretStore for every set of users, secrets, sessions and  *)
(* drafts and for every bound. The argument: a row that agrees with its    *)
(* ledger entry still agrees after each of the operators of Secrets that   *)
(* change it (first part), and what a transaction commits is computed from *)
(* the row it commits to (second part); the invariant IInv is the          *)
(* conjunction of both.                                                    *)
(***************************************************************************)
EXTENDS SecretStore, SecretsProofs

-----------------------------------------------------------------------------
(* One row at a time *)

\* A row before its insertion agrees with an empty ledger entry.
LEMMA AbsentAgrees ==
    AbsentRow \in Row /\ NoEntry \in Entry /\ RowAgrees(AbsentRow, NoEntry)
BY NullAssumption
DEF AbsentRow, NoEntry, Row, Entry, Status, Reason, Mode, Kind, Time, RowAgrees,
    LedgerAgrees, AudienceAgrees, WindowAgrees, IsActive, Wiped

\* create_secret inserts a well-formed row that agrees with the entry opened for it.
LEMMA NewAgrees ==
    ASSUME NEW u \in User, NEW d, ValidDraft(d), NEW path \in Path \cup {NoPath}, NEW t \in Nat
    PROVE  /\ NewRow(u, d, path, t) \in Row
           /\ NewEntry(d, t) \in Entry
           /\ RowAgrees(NewRow(u, d, path, t), NewEntry(d, t))
<1> DEFINE r == NewRow(u, d, path, t)
           e == NewEntry(d, t)
<1>1. d \in Draft /\ d.views > 0 /\ (d.mode = "specific" => d.recipient \in User)
  BY DEF ValidDraft
<1>2. r \in Row
  BY NewRowFields
<1>3. e \in Entry
  <2>1. (IF d.mode = "specific" THEN {d.recipient} ELSE User) \in SUBSET User
    BY <1>1
  <2>2. (IF d.ttl = 0 THEN NoTime ELSE t + d.ttl) \in Time
    BY <1>1 DEF Draft, Time
  <2> QED
    BY <2>1, <2>2 DEF NewEntry, NoEntry, Entry
<1>4. LedgerAgrees(r, e)
  BY <1>1 DEF NewRow, NewEntry, NoEntry, LedgerAgrees, IsActive, Draft
<1>5. AudienceAgrees(r, e)
  BY <1>1 DEF NewRow, NewEntry, NoEntry, AudienceAgrees, IsActive, Draft
<1>6. WindowAgrees(r, e)
  BY <1>1, NullAssumption DEF NewRow, NewEntry, NoEntry, WindowAgrees, IsActive, Draft
<1>7. IsActive(r)
  BY DEF NewRow, IsActive
<1> QED
  BY <1>2, <1>3, <1>4, <1>5, <1>6, <1>7 DEF RowAgrees

\* Wiping an active row early, by whatever code path, keeps it in agreement.
LEMMA DestroyedAgrees ==
    ASSUME NEW r \in Row, NEW e \in Entry, RowAgrees(r, e), IsActive(r),
           NEW d \in {Destroyed(r, "expired", "expired"), Destroyed(r, "manual", "destroyed")}
    PROVE  d \in Row /\ RowAgrees(d, e) /\ ~IsActive(d) /\ d.status # "absent"
<1>1. PICK reason \in {"expired", "manual"}, status \in {"expired", "destroyed"} :
          d = Destroyed(r, reason, status)
  OBVIOUS
<1>2. reason \in Reason /\ status \in Status \ {"active"}
  BY DEF Reason, Status
<1>3. /\ d \in Row
      /\ d.status = status /\ d.reason = reason
      /\ ~IsActive(d) /\ Wiped(d)
      /\ d.mode = r.mode /\ d.available_at = r.available_at
      /\ d.views_used = r.views_used /\ d.views_allowed = r.views_allowed
      /\ d.first_opened_at = r.first_opened_at
      /\ d.expires_at = r.expires_at /\ d.destroy_after = r.destroy_after
  BY <1>1, <1>2, DestroyedFields DEF Wiped
<1>4. LedgerAgrees(d, e)
  BY <1>3 DEF RowAgrees, LedgerAgrees, Row
<1>5. AudienceAgrees(d, e)
  BY <1>3 DEF RowAgrees, AudienceAgrees
<1>6. WindowAgrees(d, e)
  BY <1>3 DEF RowAgrees, WindowAgrees, NotYet
<1> QED
  BY <1>3, <1>4, <1>5, <1>6 DEF RowAgrees

\* A granted open counts itself, keeps or narrows the audience, and stays in its window.
LEMMA OpenedAgrees ==
    ASSUME NEW r \in Row, NEW e \in Entry, RowAgrees(r, e),
           NEW u \in User, NEW t \in Nat, MayOpen(r, u, t)
    PROVE  /\ Opened(r, u, t) \in Row
           /\ EntryAfter(e, u, t) \in Entry
           /\ RowAgrees(Opened(r, u, t), EntryAfter(e, u, t))
           /\ Opened(r, u, t).mode = r.mode
           /\ Opened(r, u, t).views_used = r.views_used + 1
           /\ Opened(r, u, t).views_allowed = r.views_allowed
           /\ Opened(r, u, t).status = IF r.views_used + 1 >= r.views_allowed
                                       THEN "destroyed" ELSE "active"
<1> DEFINE c == Counted(r, u, t)
           f == EntryAfter(e, u, t)
           last == c.views_used >= c.views_allowed
           o == Opened(r, u, t)
<1>1. o = IF last THEN Destroyed(c, "view_limit", "destroyed") ELSE c
  BY DEF Opened, Counted
<1>2. /\ IsActive(r) /\ r.status = "active" /\ r.views_used < r.views_allowed
      /\ ~Overdue(r, t) /\ ~NotYet(r, t) /\ Entitled(r, u)
  BY DEF MayOpen, IsAvailable, IsActive
<1>3. /\ c \in Row
      /\ c.status = "active" /\ c.mode = r.mode /\ c.reason = r.reason
      /\ c.views_used = r.views_used + 1 /\ c.views_allowed = r.views_allowed
      /\ c.recipient = r.recipient /\ c.available_at = r.available_at
      /\ c.destroy_after = r.destroy_after
      /\ c.claimed = (IF r.mode = "first" THEN u ELSE r.claimed)
      /\ c.first_opened_at = (IF r.first_opened_at = NoTime THEN t ELSE r.first_opened_at)
      /\ c.expires_at = (IF r.first_opened_at = NoTime /\ r.destroy_after > 0
                         THEN Earlier(r.expires_at, t + r.destroy_after) ELSE r.expires_at)
  BY <1>2, CountedFields
<1>4. f \in Entry /\ f.opens = e.opens + 1 /\ f.viewers = e.viewers \cup {u}
      /\ f.times = e.times \cup {t} /\ f.audience = e.audience /\ f.deadline = e.deadline
  <2>1. f \in Entry
    <3>1. /\ e.opens + 1 \in Nat
          /\ e.viewers \cup {u} \in SUBSET User
          /\ e.times \cup {t} \in SUBSET Nat
      BY DEF Entry
    <3> QED
      BY <3>1 DEF EntryAfter, Entry
  <2>2. f.opens = e.opens + 1 /\ f.audience = e.audience /\ f.deadline = e.deadline
    BY DEF EntryAfter, Entry
  <2>3. f.viewers = e.viewers \cup {u} /\ f.times = e.times \cup {t}
    BY DEF EntryAfter, Entry
  <2> QED
    BY <2>1, <2>2, <2>3
<1> HIDE DEF c, f
<1>5. /\ o \in Row /\ o.status = IF last THEN "destroyed" ELSE "active"
      /\ o.views_used = c.views_used /\ o.views_allowed = c.views_allowed
      /\ o.mode = c.mode /\ o.available_at = c.available_at
      /\ o.destroy_after = c.destroy_after /\ o.first_opened_at = c.first_opened_at
      /\ o.expires_at = c.expires_at
      /\ IsActive(o) <=> ~last
      /\ IsActive(o) => o = c
      /\ o.reason = (IF last THEN "view_limit" ELSE c.reason)
      /\ ~IsActive(o) => Wiped(o)
  <2>1. CASE last
    <3>1. o = Destroyed(c, "view_limit", "destroyed")
      BY <1>1, <2>1
    <3>2. "view_limit" \in Reason /\ "destroyed" \in Status \ {"active"}
      BY DEF Reason, Status
    <3> QED
      BY <1>3, <2>1, <3>1, <3>2, DestroyedFields DEF Wiped
  <2>2. CASE ~last
    BY <1>1, <1>3, <2>2 DEF IsActive
  <2> QED
    BY <2>1, <2>2
<1> HIDE DEF o
<1>6. LedgerAgrees(o, f)
  BY <1>2, <1>3, <1>4, <1>5 DEF RowAgrees, LedgerAgrees, Row, Entry, IsActive
<1>7. AudienceAgrees(o, f)
  <2>1. r.mode \in Mode /\ u # NoUser
    BY NullAssumption DEF Row
  <2>2. u \in e.audience
    BY <1>2 DEF RowAgrees, AudienceAgrees, Entitled
  <2>3. r.mode = "first" => e.viewers \subseteq {u}
    BY <1>2, NullAssumption DEF RowAgrees, AudienceAgrees, Entitled, Entry
  <2>4. r.mode = "first" => f.viewers = {u}
    BY <1>4, <2>3
  <2> QED
    BY <1>2, <1>3, <1>4, <1>5, <2>1, <2>2, <2>4 DEF RowAgrees, AudienceAgrees
<1>8. WindowAgrees(o, f)
  <2>1. /\ r.expires_at # NoTime => t < r.expires_at /\ r.expires_at \in Nat
        /\ r.first_opened_at # NoTime => r.first_opened_at \in Nat
        /\ e.deadline # NoTime => e.deadline \in Nat
        /\ r.destroy_after \in Nat
        /\ NoTime \notin Nat
    BY <1>2, NullAssumption DEF Overdue, Row, Entry, Time
  <2>2. ASSUME IsActive(o)
        PROVE  /\ e.deadline # NoTime => o.expires_at # NoTime /\ o.expires_at <= e.deadline
               /\ o.destroy_after > 0 =>
                     /\ o.expires_at # NoTime
                     /\ o.expires_at <= o.first_opened_at + o.destroy_after
    <3>1. CASE r.first_opened_at = NoTime
      BY <1>2, <1>3, <1>5, <2>1, <3>1 DEF RowAgrees, WindowAgrees, Earlier
    <3>2. CASE r.first_opened_at # NoTime
      BY <1>2, <1>3, <1>5, <2>1, <3>2 DEF RowAgrees, WindowAgrees
    <3> QED
      BY <3>1, <3>2
  <2>3. /\ ~NotYet(o, t)
        /\ o.first_opened_at # NoTime
        /\ e.deadline # NoTime => t < e.deadline
        /\ o.destroy_after > 0 => t < o.first_opened_at + o.destroy_after
    <3>1. ~NotYet(o, t)
      BY <1>2, <1>3, <1>5 DEF NotYet
    <3>2. o.first_opened_at # NoTime
      BY <1>3, <1>5, <2>1
    <3>3. e.deadline # NoTime => t < e.deadline
      BY <1>2, <2>1 DEF RowAgrees, WindowAgrees
    <3>4. o.destroy_after > 0 => t < o.first_opened_at + o.destroy_after
      BY <1>2, <1>3, <1>5, <2>1 DEF RowAgrees, WindowAgrees
    <3> QED
      BY <3>1, <3>2, <3>3, <3>4
  <2>4. ASSUME NEW x \in e.times
        PROVE  /\ ~NotYet(o, x)
               /\ o.first_opened_at # NoTime
               /\ e.deadline # NoTime => x < e.deadline
               /\ o.destroy_after > 0 => x < o.first_opened_at + o.destroy_after
    BY <1>3, <1>5, <2>3 DEF RowAgrees, WindowAgrees, NotYet
  <2> QED
    BY <1>4, <2>2, <2>3, <2>4 DEF WindowAgrees
<1> QED
  BY <1>3, <1>4, <1>5, <1>6, <1>7, <1>8 DEF RowAgrees, o, f

-----------------------------------------------------------------------------
(* The transactions *)

\* The file names a SELECT returns are names of files.
LEMMA PathsOfType ==
    ASSUME rows \in [Secret -> Row], NEW S \in SUBSET Secret
    PROVE  PathsOf(S) \in SUBSET Path
BY DEF PathsOf, Row

\* A step that writes no row and starts no single-row transaction keeps what others decided.
LEMMA KeepsDecided ==
    ASSUME IInv, UNCHANGED rows,
           \A p \in Session : tx'[p].op = "row" => tx'[p] = tx[p]
    PROVE  DecidedOnCurrentRow'
BY DEF IInv, DecidedOnCurrentRow, Holds

\* Taking a free row and deciding on it.
LEMMA DecideStep ==
    ASSUME IInv, NEW p \in Session, NEW s \in Secret, Lockable(p, s),
           NEW row \in Row, NEW viewer \in User \cup {NoUser}, NEW paths \in SUBSET Path,
           FairDecision(rows[s], row, viewer, now), Decide(p, s, row, viewer, paths)
    PROVE  IInv'
<1> DEFINE new == [op |-> "row", secret |-> s, row |-> row, viewer |-> viewer,
                   at |-> now, paths |-> paths]
<1>1. UNCHANGED <<now, rows, worker, aborts, ledger>> /\ tx' = [tx EXCEPT ![p] = new]
  BY DEF Decide
<1>2. TypeOK'
  <2>1. new \in RowTx
    BY DEF IInv, TypeOK, RowTx
  <2> QED
    BY <1>1, <2>1 DEF IInv, TypeOK
<1>3. /\ tx'[p] = new /\ new.op = "row" /\ new.secret = s /\ new.row = row
      /\ new.viewer = viewer /\ new.at = now
      /\ \A q \in Session \ {p} : tx'[q] = tx[q]
  BY <1>1 DEF IInv, TypeOK
<1>4. \A q \in Session : tx[q].op = "row" => tx[q].secret # s
  BY DEF Lockable, Locked, Holds
<1> HIDE DEF new
<1>5. DecidedOnCurrentRow'
  <2>1. ASSUME NEW q \in Session, NEW r \in Session, NEW x \in Secret,
               Holds(q, x)', Holds(r, x)'
        PROVE  q = r
    BY <1>3, <1>4, <2>1 DEF IInv, DecidedOnCurrentRow, Holds
  <2>2. ASSUME NEW q \in Session, tx'[q].op = "row"
        PROVE  /\ rows[tx'[q].secret].status # "absent"
               /\ FairDecision(rows[tx'[q].secret], tx'[q].row, tx'[q].viewer, tx'[q].at)
    <3>1. CASE q = p
      BY <1>3, <3>1 DEF Lockable
    <3>2. CASE q # p
      BY <1>3, <2>2, <3>2 DEF IInv, DecidedOnCurrentRow, FairDecision
    <3> QED
      BY <3>1, <3>2
  <2> QED
    BY <1>1, <2>1, <2>2 DEF DecidedOnCurrentRow, FairDecision
<1> QED
  BY <1>1, <1>2, <1>5 DEF IInv

\* Wiping, in one statement, active rows nobody holds.
LEMMA BulkStep ==
    ASSUME IInv, NEW S \in SUBSET Secret,
           \A s \in S : IsActive(rows[s]) /\ ~Locked(s),
           NEW reason, NEW status,
           \/ reason = "expired" /\ status = "expired"
           \/ reason = "manual" /\ status = "destroyed",
           rows' = [s \in Secret |-> IF s \in S THEN Destroyed(rows[s], reason, status)
                                    ELSE rows[s]],
           UNCHANGED ledger,
           \A p \in Session : tx'[p].op = "row" => tx'[p] = tx[p]
    PROVE  /\ rows' \in [Secret -> Row]
           /\ DecidedOnCurrentRow'
           /\ \A s \in Secret : RowAgrees(rows'[s], ledger'[s])
<1>1. ASSUME NEW s \in Secret
      PROVE  rows'[s] \in Row /\ RowAgrees(rows'[s], ledger'[s])
  <2>1. rows[s] \in Row /\ ledger[s] \in Entry /\ RowAgrees(rows[s], ledger[s])
    BY DEF IInv, TypeOK
  <2>2. CASE s \in S
    <3>1. rows'[s] \in {Destroyed(rows[s], "expired", "expired"),
                        Destroyed(rows[s], "manual", "destroyed")}
      BY <2>2
    <3> QED
      BY <2>1, <2>2, <3>1, DestroyedAgrees
  <2>3. CASE s \notin S
    BY <2>1, <2>3
  <2> QED
    BY <2>2, <2>3
<1>2. rows' \in [Secret -> Row]
  BY <1>1
<1>3. ASSUME NEW p \in Session, tx'[p].op = "row"
      PROVE  tx'[p] = tx[p] /\ rows'[tx[p].secret] = rows[tx[p].secret]
  <2>1. tx[p].secret \in Secret
    BY <1>3 DEF IInv, TypeOK, RowTx, PanicTx, Idle
  <2>2. tx[p].secret \notin S
    BY <1>3 DEF Locked, Holds
  <2> QED
    BY <1>3, <2>1, <2>2
<1>4. DecidedOnCurrentRow'
  BY <1>3 DEF IInv, DecidedOnCurrentRow, Holds
<1> QED
  BY <1>1, <1>2, <1>4

\* Inserting a row: nobody holds it, and it agrees with its new entry.
LEMMA CreateStep ==
    ASSUME IInv, NEW u \in User, NEW d, ValidDraft(d), NEW path \in Path \cup {NoPath},
           NEW s \in Secret, NEW t \in Nat, Create(u, d, path, s, t)
    PROVE  IInv'
<1>1. now \in Nat
  BY DEF IInv, TypeOK
<1>2. /\ rows[s].status = "absent"
      /\ rows' = [rows EXCEPT ![s] = NewRow(u, d, path, t)]
      /\ ledger' = [ledger EXCEPT ![s] = NewEntry(d, t)]
      /\ UNCHANGED <<now, tx, worker, aborts>>
  BY DEF Create
<1>3. /\ NewRow(u, d, path, t) \in Row /\ NewEntry(d, t) \in Entry
      /\ RowAgrees(NewRow(u, d, path, t), NewEntry(d, t))
  BY <1>1, NewAgrees
<1>4. TypeOK'
  BY <1>2, <1>3 DEF IInv, TypeOK
<1>5. \A x \in Secret : RowAgrees(rows'[x], ledger'[x])
  BY <1>2, <1>3 DEF IInv, TypeOK
<1>6. ASSUME NEW p \in Session, tx[p].op = "row"
      PROVE  rows'[tx[p].secret] = rows[tx[p].secret]
  <2>1. tx[p].secret \in Secret
    BY <1>6 DEF IInv, TypeOK, RowTx, PanicTx, Idle
  <2>2. tx[p].secret # s
    BY <1>2, <1>6 DEF IInv, DecidedOnCurrentRow
  <2> QED
    BY <1>2, <2>1, <2>2 DEF IInv, TypeOK
<1>7. DecidedOnCurrentRow'
  BY <1>2, <1>6 DEF IInv, DecidedOnCurrentRow, Holds
<1> QED
  BY <1>4, <1>5, <1>7 DEF IInv

\* The commit of a single-row transaction: a denied one writes back what it read, an ending
\* wipes an active row, a granted open counts itself in row and ledger at once.
LEMMA CommitStep ==
    ASSUME IInv, NEW p \in Session, Commit(p)
    PROVE  IInv'
<1> DEFINE s == tx[p].secret
           old == rows[s]
           viewer == tx[p].viewer
           new == tx[p].row
<1>1. /\ tx[p] \in RowTx /\ s \in Secret /\ new \in Row /\ tx[p].at \in Nat
      /\ viewer \in User \cup {NoUser}
      /\ old \in Row /\ ledger[s] \in Entry /\ RowAgrees(old, ledger[s])
  BY DEF Commit, IInv, TypeOK, RowTx, PanicTx, Idle
<1>2. old.status # "absent" /\ FairDecision(old, new, viewer, tx[p].at)
  BY DEF Commit, IInv, DecidedOnCurrentRow
<1>3. /\ rows' = [rows EXCEPT ![s] = new]
      /\ tx' = [tx EXCEPT ![p] = Idle]
      /\ UNCHANGED <<now, worker, aborts>>
  BY DEF Commit
<1>4. \A q \in Session \ {p} : tx[q].op = "row" => tx[q].secret # s
  BY <1>1 DEF Commit, IInv, DecidedOnCurrentRow, Holds
<1>5. /\ ledger' \in [Secret -> Entry]
      /\ RowAgrees(new, ledger'[s])
      /\ \A x \in Secret \ {s} : ledger'[x] = ledger[x]
  <2>1. CASE viewer = NoUser
    <3>1. ledger' = ledger
      BY <2>1 DEF Commit
    <3>2. RowAgrees(new, ledger[s])
      <4>1. CASE new = old
        BY <1>1, <4>1
      <4>2. CASE IsActive(old) /\ new \in {Destroyed(old, "expired", "expired"),
                                            Destroyed(old, "manual", "destroyed")}
        BY <1>1, <4>2, DestroyedAgrees
      <4> QED
        BY <1>2, <2>1, <4>1, <4>2 DEF FairDecision
    <3> QED
      BY <3>1, <3>2 DEF IInv, TypeOK
  <2>2. CASE viewer # NoUser
    <3>1. ledger' = [ledger EXCEPT ![s] = EntryAfter(ledger[s], viewer, tx[p].at)]
      BY <2>2 DEF Commit
    <3>2. MayOpen(old, viewer, tx[p].at) /\ new = Opened(old, viewer, tx[p].at)
      BY <1>2, <2>2 DEF FairDecision
    <3>3. /\ EntryAfter(ledger[s], viewer, tx[p].at) \in Entry
          /\ RowAgrees(new, EntryAfter(ledger[s], viewer, tx[p].at))
      BY <1>1, <2>2, <3>2, OpenedAgrees
    <3> QED
      BY <1>1, <3>1, <3>3 DEF IInv, TypeOK
  <2> QED
    BY <2>1, <2>2
<1> HIDE DEF s, old, viewer, new
<1>6. TypeOK'
  BY <1>1, <1>3, <1>5 DEF IInv, TypeOK
<1>7. \A x \in Secret : RowAgrees(rows'[x], ledger'[x])
  BY <1>1, <1>3, <1>5 DEF IInv, TypeOK
<1>8. ASSUME NEW q \in Session, tx'[q].op = "row"
      PROVE  tx'[q] = tx[q] /\ rows'[tx[q].secret] = rows[tx[q].secret]
  <2>1. q # p
    BY <1>3, <1>8 DEF IInv, TypeOK, Idle
  <2>2. tx'[q] = tx[q]
    BY <1>3, <2>1 DEF IInv, TypeOK
  <2>3. tx[q].secret \in Secret
    BY <1>8, <2>2 DEF IInv, TypeOK, RowTx, PanicTx, Idle
  <2> QED
    BY <1>3, <1>4, <1>8, <2>1, <2>2, <2>3 DEF IInv, TypeOK
<1>9. DecidedOnCurrentRow'
  BY <1>8 DEF IInv, DecidedOnCurrentRow, Holds
<1> QED
  BY <1>6, <1>7, <1>9 DEF IInv

\* The panic UPDATE wipes only rows of its targets that are still active and unlocked.
LEMMA PanicCommitStep ==
    ASSUME IInv, NEW p \in Session, PanicCommit(p)
    PROVE  IInv'
<1> DEFINE S == tx[p].targets \cap OwnedActive(tx[p].user)
<1>1. S \in SUBSET Secret /\ \A s \in S : IsActive(rows[s]) /\ ~Locked(s)
  BY DEF PanicCommit, OwnedActive
<1>2. /\ rows' = [s \in Secret |-> IF s \in S THEN Destroyed(rows[s], "manual", "destroyed")
                                   ELSE rows[s]]
      /\ UNCHANGED <<now, worker, aborts, ledger>>
      /\ tx' = [tx EXCEPT ![p] = Idle]
  BY <1>1 DEF PanicCommit
<1>3. \A q \in Session : tx'[q].op = "row" => tx'[q] = tx[q]
  BY <1>2 DEF IInv, TypeOK, Idle
<1> HIDE DEF S
<1>4. /\ rows' \in [Secret -> Row]
      /\ DecidedOnCurrentRow'
      /\ \A s \in Secret : RowAgrees(rows'[s], ledger'[s])
  BY <1>1, <1>2, <1>3, BulkStep
<1> QED
  BY <1>2, <1>4 DEF IInv, TypeOK

\* So does the worker's UPDATE.
LEMMA ExpireCommitStep ==
    ASSUME IInv, ExpireCommit
    PROVE  IInv'
<1> DEFINE S == worker.targets \cap OverdueActive(worker.cutoff)
<1>1. S \in SUBSET Secret /\ \A s \in S : IsActive(rows[s]) /\ ~Locked(s)
  BY DEF ExpireCommit, OverdueActive
<1>2. /\ rows' = [s \in Secret |-> IF s \in S THEN Destroyed(rows[s], "expired", "expired")
                                   ELSE rows[s]]
      /\ UNCHANGED <<now, tx, aborts, ledger>>
      /\ worker' = Idle
  BY <1>1 DEF ExpireCommit
<1> HIDE DEF S
<1>3. /\ rows' \in [Secret -> Row]
      /\ DecidedOnCurrentRow'
      /\ \A s \in Secret : RowAgrees(rows'[s], ledger'[s])
  BY <1>1, <1>2, BulkStep
<1> QED
  BY <1>2, <1>3 DEF IInv, TypeOK

\* The three verdicts of consume_secret and both of destroy_owned are fair decisions.
LEMMA DecidingStep ==
    ASSUME IInv, NEW p \in Session, NEW u \in User, NEW s \in Secret,
           \/ ConsumeExpired(p, u, s)
           \/ ConsumeDenied(p, u, s)
           \/ ConsumeGranted(p, u, s)
           \/ DestroyOwned(p, u, s)
    PROVE  IInv'
<1>1. /\ rows[s] \in Row /\ ledger[s] \in Entry /\ RowAgrees(rows[s], ledger[s])
      /\ now \in Nat /\ rows \in [Secret -> Row]
      /\ NoUser \notin User
      /\ PathsOf({s}) \in SUBSET Path
  BY PathsOfType, NullAssumption DEF IInv, TypeOK
<1>2. ASSUME NEW reason, NEW status, IsActive(rows[s]), Lockable(p, s),
             \/ reason = "expired" /\ status = "expired"
             \/ reason = "manual" /\ status = "destroyed",
             Decide(p, s, Destroyed(rows[s], reason, status), NoUser, PathsOf({s}))
      PROVE  IInv'
  <2> DEFINE d == Destroyed(rows[s], reason, status)
  <2>1. d \in {Destroyed(rows[s], "expired", "expired"),
               Destroyed(rows[s], "manual", "destroyed")}
    BY <1>2
  <2>2. d \in Row
    BY <1>1, <1>2, <2>1, DestroyedAgrees
  <2>3. FairDecision(rows[s], d, NoUser, now)
    BY <1>2, <2>1 DEF FairDecision
  <2> HIDE DEF d
  <2>4. Decide(p, s, d, NoUser, PathsOf({s}))
    BY <1>2 DEF d
  <2> QED
    BY <1>1, <1>2, <2>2, <2>3, <2>4, DecideStep
<1>3. ASSUME Lockable(p, s), Decide(p, s, rows[s], NoUser, {})
      PROVE  IInv'
  <2>1. FairDecision(rows[s], rows[s], NoUser, now)
    BY DEF FairDecision
  <2> QED
    BY <1>1, <1>3, <2>1, DecideStep
<1>4. CASE ConsumeExpired(p, u, s)
  BY <1>2, <1>4 DEF ConsumeExpired
<1>5. CASE ConsumeDenied(p, u, s)
  BY <1>3, <1>5 DEF ConsumeDenied
<1>6. CASE ConsumeGranted(p, u, s)
  <2> DEFINE new == Opened(rows[s], u, now)
             paths == IF new.kind = "file" /\ ~IsActive(new) THEN PathsOf({s}) ELSE {}
  <2>1. MayOpen(rows[s], u, now) /\ Lockable(p, s) /\ Decide(p, s, new, u, paths)
    BY <1>6 DEF ConsumeGranted
  <2>2. new \in Row
    BY <1>1, <2>1, OpenedAgrees
  <2>3. FairDecision(rows[s], new, u, now)
    BY <1>1, <2>1 DEF FairDecision
  <2>4. paths \in SUBSET Path
    BY <1>1
  <2> HIDE DEF new, paths
  <2> QED
    BY <2>1, <2>2, <2>3, <2>4, DecideStep
<1>7. CASE DestroyOwned(p, u, s)
  <2>1. CASE IsActive(rows[s])
    BY <1>2, <1>7, <2>1 DEF DestroyOwned
  <2>2. CASE ~IsActive(rows[s])
    BY <1>3, <1>7, <2>2 DEF DestroyOwned
  <2> QED
    BY <2>1, <2>2
<1> QED
  BY <1>4, <1>5, <1>6, <1>7

\* The steps that write no row: reading, starting an UPDATE, losing a transaction, time.
LEMMA QuietStep ==
    ASSUME IInv,
           \/ Tick
           \/ \E p \in Session, u \in User : PanicSelect(p, u)
           \/ \E p \in Session : PanicUpdate(p) \/ Abort(p)
           \/ ExpireSelect \/ ExpireUpdate \/ WorkerAbort
           \/ UNCHANGED vars
    PROVE  IInv'
<1>1. UNCHANGED <<rows, ledger>>
  BY DEF Tick, PanicSelect, PanicUpdate, Abort, ExpireSelect, ExpireUpdate, WorkerAbort, vars
<1>2. /\ now \in Nat /\ aborts \in Nat /\ worker \in {Idle} \cup ExpireTx
      /\ tx \in [Session -> {Idle} \cup RowTx \cup PanicTx]
      /\ rows \in [Secret -> Row]
  BY DEF IInv, TypeOK
<1>3. /\ \A u \in User : OwnedActive(u) \in SUBSET Secret
      /\ \A u \in User : PathsOf(OwnedActive(u)) \in SUBSET Path
      /\ \A t \in Nat : OverdueActive(t) \in SUBSET Secret
      /\ \A t \in Nat : PathsOf(OverdueActive(t)) \in SUBSET Path
  BY <1>2, PathsOfType DEF OwnedActive, OverdueActive
<1>4. /\ tx' \in [Session -> {Idle} \cup RowTx \cup PanicTx]
      /\ \A q \in Session : tx'[q].op = "row" => tx'[q] = tx[q]
  <2>1. CASE \E p \in Session, u \in User : PanicSelect(p, u)
    <3>1. PICK p \in Session, u \in User : PanicSelect(p, u)
      BY <2>1
    <3> DEFINE new == [op |-> "panic", user |-> u, paths |-> PathsOf(OwnedActive(u))]
    <3>2. new \in PanicTx /\ new.op # "row"
      BY <1>3 DEF PanicTx
    <3>3. tx' = [tx EXCEPT ![p] = new]
      BY <3>1 DEF PanicSelect
    <3> HIDE DEF new
    <3> QED
      BY <1>2, <3>2, <3>3
  <2>2. CASE \E p \in Session : PanicUpdate(p)
    <3>1. PICK p \in Session : PanicUpdate(p)
      BY <2>2
    <3> DEFINE new == [op |-> "panic_update", user |-> tx[p].user, paths |-> tx[p].paths,
                       targets |-> OwnedActive(tx[p].user)]
    <3>2. tx[p].user \in User /\ tx[p].paths \in SUBSET Path
      BY <1>2, <3>1 DEF PanicUpdate, PanicTx, RowTx, Idle
    <3>3. new \in PanicTx /\ new.op # "row"
      BY <1>3, <3>2 DEF PanicTx
    <3>4. tx' = [tx EXCEPT ![p] = new]
      BY <3>1 DEF PanicUpdate
    <3> HIDE DEF new
    <3> QED
      BY <1>2, <3>3, <3>4
  <2>3. CASE \E p \in Session : Abort(p)
    BY <1>2, <2>3 DEF Abort, Idle
  <2>4. CASE UNCHANGED tx
    BY <1>2, <2>4
  <2> QED
    BY <2>1, <2>2, <2>3, <2>4
       DEF Tick, ExpireSelect, ExpireUpdate, WorkerAbort, vars
<1>5. worker' \in {Idle} \cup ExpireTx
  <2>1. CASE ExpireSelect
    BY <1>2, <1>3, <2>1 DEF ExpireSelect, ExpireTx
  <2>2. CASE ExpireUpdate
    <3>1. worker.paths \in SUBSET Path
      BY <1>2, <2>2 DEF ExpireUpdate, ExpireTx, Idle
    <3> QED
      BY <1>2, <1>3, <2>2, <3>1 DEF ExpireUpdate, ExpireTx
  <2>3. CASE WorkerAbort
    BY <2>3 DEF WorkerAbort
  <2>4. CASE UNCHANGED worker
    BY <1>2, <2>4
  <2> QED
    BY <2>1, <2>2, <2>3, <2>4 DEF Tick, PanicSelect, PanicUpdate, Abort, vars
<1>6. now' \in Nat /\ aborts' \in Nat
  BY <1>2 DEF Tick, PanicSelect, PanicUpdate, Abort, ExpireSelect, ExpireUpdate, WorkerAbort,
              vars
<1>7. TypeOK'
  BY <1>1, <1>4, <1>5, <1>6 DEF IInv, TypeOK
<1>8. DecidedOnCurrentRow'
  BY <1>1, <1>4, KeepsDecided
<1> QED
  BY <1>1, <1>7, <1>8 DEF IInv

-----------------------------------------------------------------------------
(* The theorems *)

LEMMA InitIInv == Init => IInv
<1> SUFFICES ASSUME Init
             PROVE  IInv
  OBVIOUS
<1>1. TypeOK
  BY AbsentAgrees DEF Init, TypeOK
<1>2. DecidedOnCurrentRow
  BY DEF Init, DecidedOnCurrentRow, Holds, Idle
<1>3. \A s \in Secret : RowAgrees(rows[s], ledger[s])
  BY AbsentAgrees DEF Init
<1> QED
  BY <1>1, <1>2, <1>3 DEF IInv

LEMMA NextIInv == IInv /\ [Next]_vars => IInv'
<1> SUFFICES ASSUME IInv, [Next]_vars
             PROVE  IInv'
  OBVIOUS
<1>1. ASSUME NEW u \in User, NEW d \in Drafts, NEW path \in Path \cup {NoPath},
             NEW s \in Secret, NEW t \in Nat, Create(u, d, path, s, t)
      PROVE  IInv'
  BY <1>1, CreateStep, DraftAssumption
<1>2. ASSUME NEW p \in Session, Commit(p)
      PROVE  IInv'
  BY <1>2, CommitStep
<1>3. ASSUME NEW p \in Session, PanicCommit(p)
      PROVE  IInv'
  BY <1>3, PanicCommitStep
<1>4. CASE ExpireCommit
  BY <1>4, ExpireCommitStep
<1>5. ASSUME NEW p \in Session, NEW u \in User, NEW s \in Secret,
             \/ ConsumeExpired(p, u, s)
             \/ ConsumeDenied(p, u, s)
             \/ ConsumeGranted(p, u, s)
             \/ DestroyOwned(p, u, s)
      PROVE  IInv'
  BY <1>5, DecidingStep
<1>6. CASE \/ Tick
           \/ \E p \in Session, u \in User : PanicSelect(p, u)
           \/ \E p \in Session : PanicUpdate(p) \/ Abort(p)
           \/ ExpireSelect \/ ExpireUpdate \/ WorkerAbort
           \/ UNCHANGED vars
  BY <1>6, QuietStep
<1> QED
  BY <1>1, <1>2, <1>3, <1>4, <1>5, <1>6 DEF Next, NewSecret, SessionStep, WorkerStep

\* The inductive invariant holds in every reachable state of the store.
THEOREM InductiveInvariant == Spec => []IInv
  BY InitIInv, NextIInv, PTL DEF Spec

\* The store is well typed.
THEOREM TypeCorrect == Spec => []TypeOK
<1>1. IInv => TypeOK
  BY DEF IInv
<1> QED
  BY <1>1, InductiveInvariant, PTL

\* Parallel opens never exceed views_allowed, whatever the interleaving.
THEOREM NeverOverOpened == Spec => []OpensWithinAllowance
<1>1. IInv => OpensWithinAllowance
  <2> SUFFICES ASSUME IInv, NEW s \in Secret
               PROVE  /\ ledger[s].opens = rows[s].views_used
                      /\ rows[s].views_used <= rows[s].views_allowed
                      /\ rows[s].status # "absent" =>
                             (rows[s].reason = "view_limit"
                                <=> rows[s].views_used = rows[s].views_allowed)
    BY DEF OpensWithinAllowance
  <2>1. rows[s] \in Row /\ LedgerAgrees(rows[s], ledger[s])
    BY DEF IInv, TypeOK, RowAgrees
  <2> QED
    BY <2>1 DEF LedgerAgrees, Row, Status, IsActive
<1> QED
  BY <1>1, InductiveInvariant, PTL

\* Only the intended viewers, and of a "first" secret one viewer only, are ever let in.
THEOREM OnlyEntitledOpeners == Spec => []OpenersEntitled
<1>1. IInv => OpenersEntitled
  BY DEF IInv, RowAgrees, AudienceAgrees, OpenersEntitled
<1> QED
  BY <1>1, InductiveInvariant, PTL

\* Every open falls in the window its creator chose.
THEOREM OpensOnlyInTime == Spec => []OpensInTime
<1>1. IInv => OpensInTime
  BY DEF IInv, RowAgrees, WindowAgrees, OpensInTime
<1> QED
  BY <1>1, InductiveInvariant, PTL

\* However a secret ended, nothing of it is left in its row.
THEOREM EndedMeansWiped == Spec => []InactiveWiped
<1>1. IInv => InactiveWiped
  BY DEF IInv, RowAgrees, InactiveWiped
<1> QED
  BY <1>1, InductiveInvariant, PTL

\* Row locks are exclusive and no decision is committed to a row that changed under it.
THEOREM NoLostUpdate == Spec => []DecidedOnCurrentRow
<1>1. IInv => DecidedOnCurrentRow
  BY DEF IInv
<1> QED
  BY <1>1, InductiveInvariant, PTL

\* A finished secret is never touched again.
THEOREM FinishedStaysFinished == Spec => EndsOnce
<1> DEFINE Ended(s) == rows[s].status \in {"destroyed", "expired"}
<1>1. ASSUME IInv, [Next]_vars, NEW s \in Secret, Ended(s)
      PROVE  rows'[s] = rows[s]
  <2>1. /\ ~IsActive(rows[s]) /\ rows[s].status # "absent"
        /\ rows \in [Secret -> Row] /\ now \in Nat
    BY <1>1 DEF IsActive, IInv, TypeOK
  <2>2. ASSUME NEW u \in User, NEW d \in Drafts, NEW path \in Path \cup {NoPath},
               NEW x \in Secret, NEW t \in Nat, Create(u, d, path, x, t)
        PROVE  rows'[s] = rows[s]
    BY <2>1, <2>2 DEF Create
  <2>3. ASSUME NEW p \in Session, Commit(p)
        PROVE  rows'[s] = rows[s]
    <3>1. rows' = [rows EXCEPT ![tx[p].secret] = tx[p].row]
      BY <2>3 DEF Commit
    <3>2. ASSUME tx[p].secret = s
          PROVE  tx[p].row = rows[s]
      BY <1>1, <2>1, <2>3, <3>2
         DEF Commit, IInv, DecidedOnCurrentRow, FairDecision, MayOpen, IsAvailable
    <3> QED
      BY <2>1, <3>1, <3>2
  <2>4. ASSUME NEW p \in Session, PanicCommit(p)
        PROVE  rows'[s] = rows[s]
    BY <2>1, <2>4 DEF PanicCommit, OwnedActive
  <2>5. CASE ExpireCommit
    BY <2>1, <2>5 DEF ExpireCommit, OverdueActive
  <2>6. ASSUME NEW p \in Session, NEW u \in User, NEW x \in Secret,
               \/ ConsumeExpired(p, u, x)
               \/ ConsumeDenied(p, u, x)
               \/ ConsumeGranted(p, u, x)
               \/ DestroyOwned(p, u, x)
        PROVE  rows'[s] = rows[s]
    BY <2>6 DEF ConsumeExpired, ConsumeDenied, ConsumeGranted, DestroyOwned, Decide
  <2>7. CASE \/ Tick
             \/ \E p \in Session, u \in User : PanicSelect(p, u)
             \/ \E p \in Session : PanicUpdate(p) \/ Abort(p)
             \/ ExpireSelect \/ ExpireUpdate \/ WorkerAbort
             \/ UNCHANGED vars
    BY <2>7 DEF Tick, PanicSelect, PanicUpdate, Abort, ExpireSelect, ExpireUpdate,
                WorkerAbort, vars
  <2>8. CASE NewSecret
    <3>1. \A t \in 0..now : t \in Nat
      OBVIOUS
    <3> QED
      BY <2>2, <2>8, <3>1 DEF NewSecret
  <2>9. CASE SessionStep
    BY <2>3, <2>4, <2>6, <2>7, <2>9 DEF SessionStep
  <2>10. CASE WorkerStep
    BY <2>5, <2>7, <2>10 DEF WorkerStep
  <2>11. Tick \/ NewSecret \/ SessionStep \/ WorkerStep \/ UNCHANGED vars
    BY <1>1 DEF Next
  <2> QED
    BY <2>7, <2>8, <2>9, <2>10, <2>11
<1>2. IInv /\ [Next]_vars =>
          [\A s \in Secret : Ended(s) => rows'[s] = rows[s]]_vars
  BY <1>1
<1> QED
  BY <1>2, InductiveInvariant, PTL DEF Spec, EndsOnce

-----------------------------------------------------------------------------
(* The store implements OneTimeSecret *)

PhaseBar == [s \in Secret |-> PhaseOf(s)]
LeftBar == [s \in Secret |-> rows[s].views_allowed - rows[s].views_used]
AudienceBar == [s \in Secret |-> AudienceOf(s)]

\* Wiping active rows without opening them is an early end.
LEMMA EndRefines ==
    ASSUME IInv, NEW S \in SUBSET Secret, S # {}, \A s \in S : IsActive(rows[s]),
           NEW reason \in Reason, NEW status \in {"expired", "destroyed"},
           rows' = [s \in Secret |-> IF s \in S THEN Destroyed(rows[s], reason, status)
                                    ELSE rows[s]],
           UNCHANGED ledger
    PROVE  Abstract!OEnd(S)
<1>1. ASSUME NEW s \in Secret
      PROVE  /\ PhaseOf(s)' = IF s \in S THEN "gone" ELSE PhaseOf(s)
             /\ AudienceOf(s)' = AudienceOf(s)
             /\ rows'[s].views_allowed = rows[s].views_allowed
             /\ rows'[s].views_used = rows[s].views_used
  <2>1. rows[s] \in Row /\ status \in Status \ {"active"} /\ status # "absent"
    BY DEF IInv, TypeOK, Status
  <2>2. CASE s \in S
    <3> DEFINE d == Destroyed(rows[s], reason, status)
    <3>1. /\ d.status = status /\ d.mode = rows[s].mode
          /\ d.views_used = rows[s].views_used /\ d.views_allowed = rows[s].views_allowed
      BY <2>1, DestroyedFields
    <3>2. rows'[s] = d
      BY <2>2
    <3> HIDE DEF d
    <3> QED
      BY <2>1, <2>2, <3>1, <3>2 DEF PhaseOf, AudienceOf
  <2>3. CASE s \notin S
    BY <2>3 DEF PhaseOf, AudienceOf
  <2> QED
    BY <2>2, <2>3
<1>2. \A s \in S : PhaseOf(s) = "live"
  BY DEF PhaseOf, IsActive
<1> QED
  BY <1>1, <1>2 DEF Abstract!OEnd

\* A step that changes neither row nor ledger is invisible to the abstract specification.
LEMMA Invisible ==
    ASSUME UNCHANGED <<rows, ledger>>
    PROVE  UNCHANGED Abstract!ovars
BY DEF Abstract!ovars, PhaseOf, AudienceOf

\* create_secret is the abstract creation.
LEMMA CreateRefines ==
    ASSUME IInv, NEW u \in User, NEW d, ValidDraft(d), NEW path \in Path \cup {NoPath},
           NEW s \in Secret, NEW t \in Nat, Create(u, d, path, s, t)
    PROVE  Abstract!OCreate(s)
<1> DEFINE r == NewRow(u, d, path, t)
           e == NewEntry(d, t)
<1>1. d \in Draft /\ d.views > 0 /\ (d.mode = "specific" => d.recipient \in User)
  BY DEF ValidDraft
<1>2. /\ r.status = "active" /\ r.views_allowed = d.views /\ r.views_used = 0
      /\ e.viewers = {} /\ e.audience \in SUBSET User
  BY <1>1 DEF NewRow, NewEntry, NoEntry
<1>3. /\ rows[s].status = "absent"
      /\ rows' = [rows EXCEPT ![s] = r] /\ ledger' = [ledger EXCEPT ![s] = e]
      /\ rows \in [Secret -> Row] /\ ledger \in [Secret -> Entry]
  BY DEF Create, IInv, TypeOK
<1> HIDE DEF r, e
<1>4. /\ PhaseOf(s) = "absent" /\ PhaseOf(s)' = "live"
      /\ AudienceOf(s)' \in SUBSET User
      /\ rows'[s].views_allowed - rows'[s].views_used \in Nat \ {0}
  BY <1>1, <1>2, <1>3 DEF PhaseOf, AudienceOf, Draft
<1>5. ASSUME NEW x \in Secret, x # s
      PROVE  /\ PhaseOf(x)' = PhaseOf(x) /\ AudienceOf(x)' = AudienceOf(x)
             /\ rows'[x] = rows[x]
  BY <1>3, <1>5 DEF PhaseOf, AudienceOf
<1> QED
  BY <1>4, <1>5 DEF Abstract!OCreate

\* The commit of a granted open is the abstract open.
LEMMA OpenRefines ==
    ASSUME IInv, NEW p \in Session, Commit(p),
           NEW s \in Secret, s = tx[p].secret, NEW u \in User, u = tx[p].viewer
    PROVE  Abstract!OOpen(s, u)
<1> DEFINE old == rows[s]
           new == tx[p].row
<1>0. u # NoUser
  BY NullAssumption
<1>1. /\ tx[p] \in RowTx /\ tx[p].at \in Nat
      /\ old \in Row /\ ledger[s] \in Entry /\ RowAgrees(old, ledger[s])
      /\ rows \in [Secret -> Row] /\ ledger \in [Secret -> Entry]
  BY DEF Commit, IInv, TypeOK, RowTx, PanicTx, Idle
<1>2. MayOpen(old, u, tx[p].at) /\ new = Opened(old, u, tx[p].at)
  BY <1>0 DEF Commit, IInv, DecidedOnCurrentRow, FairDecision
<1>3. /\ new \in Row /\ new.mode = old.mode
      /\ new.views_used = old.views_used + 1 /\ new.views_allowed = old.views_allowed
      /\ new.status = IF old.views_used + 1 >= old.views_allowed
                      THEN "destroyed" ELSE "active"
      /\ RowAgrees(new, EntryAfter(ledger[s], u, tx[p].at))
  BY <1>1, <1>2, OpenedAgrees
<1>4. /\ rows' = [rows EXCEPT ![s] = new]
      /\ ledger' = [ledger EXCEPT ![s] = EntryAfter(ledger[s], u, tx[p].at)]
  BY <1>0 DEF Commit
<1>5. /\ EntryAfter(ledger[s], u, tx[p].at).viewers = ledger[s].viewers \cup {u}
      /\ EntryAfter(ledger[s], u, tx[p].at).audience = ledger[s].audience
  BY <1>1 DEF EntryAfter, Entry
<1>6. /\ old.status = "active" /\ old.views_used < old.views_allowed
      /\ old.views_used \in Nat /\ old.views_allowed \in Nat
  BY <1>1, <1>2 DEF MayOpen, IsAvailable, IsActive, Row
<1>7. /\ u \in AudienceOf(s)
      /\ AudienceOf(s)' \in {AudienceOf(s), {u}}
  <2>1. u \in ledger[s].audience
    BY <1>1, <1>2, <1>6 DEF MayOpen, Entitled, RowAgrees, AudienceAgrees, IsActive
  <2>2. CASE old.mode = "first"
    <3>1. ledger[s].viewers \cup {u} = {u}
      BY <1>3, <1>5, <2>2 DEF RowAgrees, AudienceAgrees
    <3>2. AudienceOf(s)' = {u}
      BY <1>1, <1>3, <1>4, <1>5, <2>2, <3>1 DEF AudienceOf
    <3> QED
      BY <2>1, <2>2, <3>1, <3>2 DEF AudienceOf
  <2>3. CASE old.mode # "first"
    BY <1>1, <1>3, <1>4, <1>5, <2>1, <2>3 DEF AudienceOf
  <2> QED
    BY <2>2, <2>3
<1> HIDE DEF old, new
<1>8. /\ PhaseOf(s) = "live"
      /\ PhaseOf(s)' = IF old.views_allowed - old.views_used = 1 THEN "gone" ELSE "live"
      /\ rows'[s].views_allowed - rows'[s].views_used
            = (old.views_allowed - old.views_used) - 1
      /\ old.views_allowed - old.views_used > 0
  BY <1>1, <1>3, <1>4, <1>6 DEF PhaseOf, old
<1>9. ASSUME NEW x \in Secret, x # s
      PROVE  /\ PhaseOf(x)' = PhaseOf(x) /\ AudienceOf(x)' = AudienceOf(x)
             /\ rows'[x] = rows[x]
  BY <1>1, <1>4, <1>9 DEF PhaseOf, AudienceOf
<1>10. /\ LeftBar[s] > 0 /\ PhaseBar[s] = "live" /\ u \in AudienceBar[s]
       /\ LeftBar' = [LeftBar EXCEPT ![s] = @ - 1]
       /\ PhaseBar' = [PhaseBar EXCEPT ![s] = IF LeftBar[s] = 1 THEN "gone" ELSE "live"]
  BY <1>1, <1>7, <1>8, <1>9 DEF LeftBar, PhaseBar, AudienceBar, old
<1>11. AudienceBar' = AudienceBar \/ AudienceBar' = [AudienceBar EXCEPT ![s] = {u}]
  BY <1>1, <1>7, <1>9 DEF AudienceBar
<1> QED
  BY <1>10, <1>11 DEF Abstract!OOpen, LeftBar, PhaseBar, AudienceBar

\* Every step of the store is an abstract step or invisible.
LEMMA StepRefines == IInv /\ [Next]_vars => [Abstract!ONext]_(Abstract!ovars)
<1> SUFFICES ASSUME IInv, [Next]_vars
             PROVE  [Abstract!ONext]_(Abstract!ovars)
  OBVIOUS
<1>1. ASSUME NEW u \in User, NEW d \in Drafts, NEW path \in Path \cup {NoPath},
             NEW s \in Secret, NEW t \in Nat, Create(u, d, path, s, t)
      PROVE  Abstract!ONext
  BY <1>1, CreateRefines, DraftAssumption DEF Abstract!ONext
<1>2. ASSUME NEW S \in SUBSET Secret, \A s \in S : IsActive(rows[s]),
             NEW reason \in Reason, NEW status \in {"expired", "destroyed"},
             rows' = [s \in Secret |-> IF s \in S THEN Destroyed(rows[s], reason, status)
                                      ELSE rows[s]],
             UNCHANGED ledger
      PROVE  [Abstract!ONext]_(Abstract!ovars)
  <2>1. CASE S = {}
    <3>1. rows' = rows
      BY <1>2, <2>1 DEF IInv, TypeOK
    <3> QED
      BY <1>2, <3>1, Invisible
  <2>2. CASE S # {}
    BY <1>2, <2>2, EndRefines DEF Abstract!ONext
  <2> QED
    BY <2>1, <2>2
<1>3. ASSUME NEW p \in Session, Commit(p)
      PROVE  [Abstract!ONext]_(Abstract!ovars)
  <2> DEFINE s == tx[p].secret
  <2>1. /\ tx[p] \in RowTx /\ s \in Secret /\ tx[p].viewer \in User \cup {NoUser}
        /\ rows \in [Secret -> Row]
        /\ rows' = [rows EXCEPT ![s] = tx[p].row]
    BY <1>3 DEF Commit, IInv, TypeOK, RowTx, PanicTx, Idle
  <2>2. CASE tx[p].viewer # NoUser
    <3>1. PICK x \in Secret, u \in User : x = s /\ u = tx[p].viewer
      BY <2>1, <2>2
    <3>2. Abstract!OOpen(x, u)
      BY <1>3, <3>1, OpenRefines
    <3> QED
      BY <3>2 DEF Abstract!ONext
  <2>3. CASE tx[p].viewer = NoUser
    <3>1. ledger' = ledger
      BY <1>3, <2>3 DEF Commit
    <3>2. CASE tx[p].row = rows[s]
      <4>1. rows' = rows
        BY <2>1, <3>2
      <4> QED
        BY <3>1, <4>1, Invisible
    <3>3. ASSUME IsActive(rows[s]), NEW reason \in Reason,
                 NEW status \in {"expired", "destroyed"},
                 tx[p].row = Destroyed(rows[s], reason, status)
          PROVE  [Abstract!ONext]_(Abstract!ovars)
      <4>1. PICK y \in Secret : y = s
        BY <2>1
      <4>2. rows' = [x \in Secret |-> IF x \in {y} THEN Destroyed(rows[x], reason, status)
                                     ELSE rows[x]]
        BY <2>1, <3>3, <4>1
      <4> HIDE DEF s
      <4>3. {y} \in SUBSET Secret /\ \A x \in {y} : IsActive(rows[x])
        BY <3>3, <4>1
      <4> QED
        BY <1>2, <3>1, <4>2, <4>3
    <3>4. \/ tx[p].row = rows[s]
          \/ /\ IsActive(rows[s])
             /\ tx[p].row \in {Destroyed(rows[s], "expired", "expired"),
                               Destroyed(rows[s], "manual", "destroyed")}
      BY <1>3, <2>3 DEF Commit, IInv, DecidedOnCurrentRow, FairDecision
    <3>5. "expired" \in Reason /\ "manual" \in Reason
      BY DEF Reason
    <3> QED
      BY <3>2, <3>3, <3>4, <3>5
  <2> QED
    BY <2>2, <2>3
<1>4. ASSUME NEW p \in Session, PanicCommit(p)
      PROVE  [Abstract!ONext]_(Abstract!ovars)
  <2> DEFINE S == tx[p].targets \cap OwnedActive(tx[p].user)
  <2>1. S \in SUBSET Secret /\ \A s \in S : IsActive(rows[s])
    BY DEF OwnedActive
  <2>2. /\ rows' = [s \in Secret |-> IF s \in S THEN Destroyed(rows[s], "manual", "destroyed")
                                     ELSE rows[s]]
        /\ UNCHANGED ledger /\ "manual" \in Reason
    BY <1>4 DEF PanicCommit, Reason
  <2> HIDE DEF S
  <2> QED
    BY <1>2, <2>1, <2>2
<1>5. CASE ExpireCommit
  <2> DEFINE S == worker.targets \cap OverdueActive(worker.cutoff)
  <2>1. S \in SUBSET Secret /\ \A s \in S : IsActive(rows[s])
    BY DEF OverdueActive
  <2>2. /\ rows' = [s \in Secret |-> IF s \in S THEN Destroyed(rows[s], "expired", "expired")
                                     ELSE rows[s]]
        /\ UNCHANGED ledger /\ "expired" \in Reason
    BY <1>5 DEF ExpireCommit, Reason
  <2> HIDE DEF S
  <2> QED
    BY <1>2, <2>1, <2>2
<1>6. ASSUME UNCHANGED <<rows, ledger>>
      PROVE  [Abstract!ONext]_(Abstract!ovars)
  BY <1>6, Invisible
<1>7. ASSUME NEW p \in Session, NEW u \in User, NEW x \in Secret,
             \/ ConsumeExpired(p, u, x)
             \/ ConsumeDenied(p, u, x)
             \/ ConsumeGranted(p, u, x)
             \/ DestroyOwned(p, u, x)
      PROVE  UNCHANGED <<rows, ledger>>
  BY <1>7 DEF ConsumeExpired, ConsumeDenied, ConsumeGranted, DestroyOwned, Decide
<1>8. CASE \/ Tick
           \/ \E p \in Session, u \in User : PanicSelect(p, u)
           \/ \E p \in Session : PanicUpdate(p) \/ Abort(p)
           \/ ExpireSelect \/ ExpireUpdate \/ WorkerAbort
           \/ UNCHANGED vars
  BY <1>6, <1>8 DEF Tick, PanicSelect, PanicUpdate, Abort, ExpireSelect, ExpireUpdate,
                    WorkerAbort, vars
<1> QED
  BY <1>1, <1>3, <1>4, <1>5, <1>6, <1>7, <1>8 DEF Next, NewSecret, SessionStep, WorkerStep

\* The store implements the one-time secret: refinement of OneTimeSecret, for every instance.
THEOREM StoreImplementsOneTimeSecret == Spec => ImplementsOneTimeSecret
<1>1. Init => Abstract!OInit
  BY DEF Init, Abstract!OInit, PhaseOf, AudienceOf, AbsentRow, NoEntry
<1> QED
  BY <1>1, StepRefines, InductiveInvariant, PTL
     DEF Spec, ImplementsOneTimeSecret, Abstract!OSpec

=============================================================================
