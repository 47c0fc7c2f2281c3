-------------------------- MODULE FileDeliveryProofs --------------------------
(***************************************************************************)
(* Proofs about FileDelivery for every set of users, secrets, handlers and *)
(* file names and for every bound. The store's invariant holds beside the  *)
(* files too, crashes included. A file name has one role at a time: the    *)
(* file of one secret, a copy made for the relay entry of one secret and   *)
(* viewer, or the file of a relayed secret not inserted yet. Whoever       *)
(* deletes a file of a secret knows that the secret has ended, or took it  *)
(* from a draft when it was nobody's; whoever deletes a copy drops the     *)
(* entry of its key next or finds it gone. What the draft's long hold on a *)
(* path breaks is confined to contested paths. The last part adds what     *)
(* holds while no viewer opens a secret twice: a copy is collected by the  *)
(* entry, the timer or the relay of its only delivery.                     *)
(***************************************************************************)
EXTENDS FileDelivery, SecretStoreProofs, FiniteSetTheorems

-----------------------------------------------------------------------------
(* The inductive invariant *)

Ended(s) == rows[s].status \in {"destroyed", "expired"}

\* The file of a secret that can no longer be opened.
EndedHome(c) == \E s \in Secret : home[s] = c /\ Ended(s)

\* The roles of a file besides that of a secret's: what an entry, a timer, a delivery or a relay
\* holds for one secret and viewer, and what a relay will insert.
CopyOf(c, k) ==
    \/ relay[k].copy = c
    \/ <<k, c>> \in timers
    \/ \E p \in Session : Delivers(p) /\ KeyOf(p) = k /\ job[p].copy = c
    \/ \E p \in Session : Relays(p) /\ KeyOf(p) = k /\ job[p].cached = c

Pending(c, p) == job[p].op = "relay_insert" /\ job[p].copy = c

\* An upload is never a copy. One that is not contested belongs to one secret, or to one handler
\* that took it from a draft.
OneRole(c) ==
    /\ c \notin contested =>
           /\ \A s, r \in Secret : home[s] = c /\ home[r] = c => s = r
           /\ \A p, q \in Session : Takes(p, c) /\ Takes(q, c) => p = q
           /\ \A p \in Session : Takes(p, c) => \A s \in Secret : home[s] # c
    /\ c \in uploads => (\A k \in Key : ~CopyOf(c, k)) /\ (\A p \in Session : ~Pending(c, p))
    /\ \A k, l \in Key : CopyOf(c, k) /\ CopyOf(c, l) => k = l
    /\ \A p, q \in Session : Pending(c, p) /\ Pending(c, q) => p = q
    /\ \A s \in Secret : home[s] = c => \A k \in Key : ~CopyOf(c, k)
    /\ \A s \in Secret : home[s] = c => \A p \in Session : ~Pending(c, p)
    /\ \A k \in Key : CopyOf(c, k) => \A p \in Session : ~Pending(c, p)

\* The copy of a delivery that has not written its entry is nobody else's, and there.
CopyIsNew(p) ==
    (job[p].op = "cache" /\ job[p].kind = "file") =>
        /\ job[p].copy \in disk
        /\ \A k \in Key : relay[k].copy # job[p].copy
        /\ \A t \in timers : t[2] # job[p].copy
        /\ \A q \in Session \ {p} : Delivers(q) => job[q].copy # job[p].copy
        /\ \A q \in Session : Relays(q) => job[q].cached # job[p].copy

DeliverFits(p) ==
    Delivers(p) =>
        /\ rows[job[p].secret].status # "absent"
        /\ job[p].kind = rows[job[p].secret].kind
        /\ job[p].kind = "file" => job[p].file \in Path /\ job[p].file = home[job[p].secret]
        /\ job[p].last => Ended(job[p].secret)
        /\ job[p].op = "clone" => job[p].kind = "file"
        /\ job[p].op \in {"start", "clone"} => job[p].copy = NoPath
        /\ job[p].op \in {"cache", "arm", "send"} =>
               (job[p].kind = "file" <=> job[p].copy # NoPath)

RelayFits(p) ==
    Relays(p) =>
        /\ job[p].kind = "file" <=> job[p].cached # NoPath
        /\ job[p].op = "relay" => job[p].copy = NoPath
        /\ job[p].op = "relay_insert" =>
               /\ job[p].kind = "file" <=> job[p].copy # NoPath
               /\ job[p].copy # NoPath => job[p].copy \in disk

UnlinkFits(p) == job[p].op = "unlink" => \A c \in job[p].paths : EndedHome(c)

\* The job of a handler with a draft: its file was uploaded, and what it took is still there.
DraftFits(p) ==
    /\ job[p].op \in {"edit", "finalize", "drop", "clear"} => job[p].file \in uploads \cup {NoPath}
    /\ job[p].op \in {"finalize", "drop"} /\ job[p].file \notin contested \cup {NoPath}
       => job[p].file \in disk

DraftsKnown == \A u \in User : draft[u] \in uploads \cup {NoPath}

\* The handler p has deleted the copy of entry k and not yet the entry, or stopped in between.
EntryFits(k) ==
    /\ relay[k].kind = "file" <=> relay[k].copy # NoPath
    /\ relay[k].copy # NoPath =>
           \/ relay[k].copy \in disk
           \/ \E p \in Session : Dropping(p, k, relay[k].copy)
           \/ <<"undropped", k>> \in mishaps

\* A secret that can be opened has its file, and no view of it was lost so far.
HomeFits(s) ==
    /\ rows[s].status = "absent" => home[s] = NoPath
    /\ IsActive(rows[s]) => /\ rows[s].path = home[s]
                            /\ home[s] \notin contested \cup {NoPath} => home[s] \in disk
    /\ ~Ended(s) /\ home[s] \notin contested => <<"missing", s>> \notin mishaps

\* A decrypted file is left only by a delivery that a fault cut off, or that found its file gone.
MishapsFit ==
    \A s \in Secret : <<"plaintext", s>> \in mishaps =>
                         <<"missing", s>> \in mishaps \/ <<"cut off", s>> \in mishaps

\* The files a transaction will have deleted belong to secrets it ends, or that ended before.
TxFits(p) ==
    /\ tx[p] # Idle => job[p] = NoJob
    /\ tx[p].op = "row" =>
           /\ \A c \in tx[p].paths : c = home[tx[p].secret]
           /\ tx[p].paths # {} => tx[p].row.status \in {"destroyed", "expired"}
    /\ tx[p].op = "panic" =>
           \A c \in tx[p].paths : \E s \in Secret :
               home[s] = c /\ (Ended(s) \/ (IsActive(rows[s]) /\ rows[s].creator = tx[p].user))
    /\ tx[p].op = "panic_update" =>
           \A c \in tx[p].paths : \E s \in Secret :
               /\ home[s] = c
               /\ Ended(s) \/ (/\ IsActive(rows[s]) /\ rows[s].creator = tx[p].user
                               /\ s \in tx[p].targets)

WorkerFits ==
    /\ worker.op = "expire" =>
           \A c \in worker.paths : \E s \in Secret :
               home[s] = c /\ (Ended(s) \/ (IsActive(rows[s]) /\ Overdue(rows[s], now)))
    /\ worker.op = "expire_update" =>
           \A c \in worker.paths : \E s \in Secret :
               /\ home[s] = c
               /\ Ended(s) \/ (/\ IsActive(rows[s]) /\ Overdue(rows[s], worker.cutoff)
                               /\ s \in worker.targets)

SweepFits == \A c \in sweep : EndedHome(c)

\* Without fault, the delivery of the last view is still at work or has removed the file.
LastFits(s) ==
    (faults = 0 /\ rows[s].kind = "file" /\ rows[s].reason = "view_limit") =>
        \/ home[s] \notin disk
        \/ \E p \in Session : Delivers(p) /\ job[p].secret = s /\ job[p].last

FInv ==
    /\ IInv
    /\ FTypeOK
    /\ \A c \in Path : OneRole(c)
    /\ \A p \in Session : CopyIsNew(p)
    /\ \A p \in Session : DeliverFits(p) /\ RelayFits(p) /\ UnlinkFits(p) /\ DraftFits(p)
    /\ DraftsKnown
    /\ \A k \in Key : EntryFits(k)
    /\ \A s \in Secret : HomeFits(s)
    /\ MishapsFit
    /\ \A p \in Session : TxFits(p)
    /\ WorkerFits
    /\ SweepFits
    /\ \A s \in Secret : LastFits(s)

-----------------------------------------------------------------------------
(* The store beside the files *)

\* Which kind of job a handler has, by its operation.
LEMMA JobTypes ==
    ASSUME FTypeOK, NEW p \in Session
    PROVE  /\ Delivers(p) => job[p] \in DeliverJob
           /\ Relays(p) => job[p] \in RelayJob
           /\ job[p].op = "unlink" => job[p] \in UnlinkJob
           /\ job[p].op \in {"edit", "finalize", "drop", "clear"} => job[p] \in DraftJob
           /\ Delivers(p) => KeyOf(p) \in Key
           /\ Relays(p) => KeyOf(p) \in Key
           /\ ~(Delivers(p) /\ Relays(p))
<1>1. job[p] \in {NoJob} \cup UnlinkJob \cup DeliverJob \cup RelayJob \cup DraftJob
  BY DEF FTypeOK
<1>2. /\ NoJob.op = "none"
      /\ \A j \in UnlinkJob : j.op = "unlink"
      /\ \A j \in DeliverJob : j.op \in {"start", "clone", "cache", "arm", "send"}
                               /\ j.secret \in Secret /\ j.viewer \in User
      /\ \A j \in RelayJob : j.op \in {"relay", "relay_insert", "relay_drop", "relay_del"}
                             /\ j.secret \in Secret /\ j.viewer \in User
      /\ \A j \in DraftJob : j.op \in {"edit", "finalize", "drop", "clear"}
  BY DEF NoJob, UnlinkJob, DeliverJob, RelayJob, DraftJob
<1> QED
  BY <1>1, <1>2 DEF Delivers, Relays, KeyOf, Key

\* A relayed secret is created like any other.
LEMMA RelayDraftValid ==
    ASSUME NEW kind \in {"text", "file"}
    PROVE  ValidDraft(RelayDraft(kind)) /\ RelayDraft(kind).kind = kind
BY FaultAssumption, NullAssumption
   DEF ValidDraft, RelayDraft, Draft, Kind, Mode, Time

\* What a step is for the store: one of its own, a relayed secret, or a rollback.
LEMMA StoreSteps ==
    ASSUME IInv, FTypeOK, [FNext]_allvars
    PROVE  \/ [Next]_vars
           \/ \E p \in Session, s \in Secret : RelayInsert(p, s)
           \/ BotCrash \/ WorkerCrash
<1>1. ASSUME NEW p \in Session, Handler(p), ~\E s \in Secret : RelayInsert(p, s)
      PROVE  [Next]_vars
  <2>1. CASE FSession(p)
    BY <2>1 DEF FSession, Next, SessionStep
  <2>2. CASE FCommit(p) \/ FPanicCommit(p)
    BY <2>2 DEF FCommit, FPanicCommit, Next, SessionStep
  <2>3. ASSUME NEW d \in Drafts, NEW s \in Secret, Finalize(p, d, s)
        PROVE  [Next]_vars
    <3>1. job[p].user \in User /\ job[p].file \in Path \cup {NoPath} /\ now \in 0..now
      BY <2>3, JobTypes DEF Finalize, DraftJob, File, IInv, TypeOK
    <3> QED
      BY <2>3, <3>1 DEF Finalize, Next, NewSecret
  <2>4. CASE /\ ~(FSession(p) \/ FCommit(p) \/ FPanicCommit(p))
             /\ ~\E d \in Drafts, s \in Secret : Finalize(p, d, s)
    BY <1>1, <2>4 DEF Handler, Unlink, Start, Clone, Cache, Arm, Sent, SendFails, RelayClone,
                      RelayUnlink, RelayDrop, RelayBegin, HandlerFails, Drafting, Upload,
                      DraftRead, DraftWrite, DraftUnlink, DraftClear
  <2> QED
    BY <2>1, <2>2, <2>3, <2>4
<1>2. CASE \E u \in User : DraftForget(u)
  BY <1>2 DEF DraftForget
<1>3. CASE FWorker
  BY <1>3 DEF FWorker, Next, WorkerStep
<1>4. CASE (\E k \in Key : RelayExpires(k)) \/ (\E t \in timers : TimerFires(t)) \/ Sweep
  BY <1>4 DEF RelayExpires, TimerFires, Sweep
<1>5. CASE UNCHANGED allvars
  BY <1>5 DEF allvars, vars
<1>6. CASE Tick /\ UNCHANGED fvars
  BY <1>6 DEF Next
<1> QED
  BY <1>1, <1>2, <1>3, <1>4, <1>5, <1>6 DEF FNext

LEMMA RelayCreates ==
    ASSUME FTypeOK, NEW p \in Session, NEW s \in Secret, RelayInsert(p, s)
    PROVE  /\ job[p] \in RelayJob /\ job[p].viewer \in User
           /\ job[p].copy \in Path \cup {NoPath}
           /\ ValidDraft(RelayDraft(job[p].kind)) /\ RelayDraft(job[p].kind).kind = job[p].kind
           /\ Create(job[p].viewer, RelayDraft(job[p].kind), job[p].copy, s, now)
<1>1. job[p] \in RelayJob
  BY JobTypes DEF RelayInsert, Relays
<1> QED
  BY <1>1, RelayDraftValid DEF RelayInsert, RelayJob, File

\* The store's invariant survives the steps of the delivery and the crashes.
LEMMA StoreKept ==
    ASSUME IInv, FTypeOK, [FNext]_allvars
    PROVE  IInv'
<1>1. CASE [Next]_vars
  BY <1>1, NextIInv
<1>2. ASSUME NEW p \in Session, NEW s \in Secret, RelayInsert(p, s)
      PROVE  IInv'
  <2> DEFINE u == job[p].viewer
             d == RelayDraft(job[p].kind)
             path == job[p].copy
             t == now
  <2>1. /\ u \in User /\ path \in Path \cup {NoPath} /\ t \in Nat /\ ValidDraft(d)
        /\ Create(u, d, path, s, t)
    BY <1>2, RelayCreates DEF IInv, TypeOK
  <2> HIDE DEF u, d, path, t
  <2> QED
    BY <2>1, CreateStep
<1>3. CASE BotCrash
  <2>1. /\ tx' = [p \in Session |-> Idle]
        /\ UNCHANGED <<now, rows, worker, aborts, ledger>>
    BY <1>3 DEF BotCrash
  <2>2. DecidedOnCurrentRow'
    BY <2>1 DEF DecidedOnCurrentRow, Holds, Idle
  <2>3. TypeOK'
    BY <2>1 DEF IInv, TypeOK
  <2> QED
    BY <2>1, <2>2, <2>3 DEF IInv
<1>4. CASE WorkerCrash
  <2>1. worker' = Idle /\ UNCHANGED <<now, rows, tx, aborts, ledger>>
    BY <1>4 DEF WorkerCrash
  <2>2. DecidedOnCurrentRow'
    BY <2>1 DEF IInv, DecidedOnCurrentRow, Holds
  <2>3. TypeOK'
    BY <2>1 DEF IInv, TypeOK
  <2> QED
    BY <2>1, <2>2, <2>3 DEF IInv
<1> QED
  BY <1>1, <1>2, <1>3, <1>4, StoreSteps

\* The rows that a step may change: an ended one is left, a live one keeps its owner and kind and,
\* while it is live, its file and at most its time.
RowMoves(s) ==
    /\ rows'[s].status = "absent" <=> rows[s].status = "absent"
    /\ Ended(s) => rows'[s] = rows[s]
    /\ IsActive(rows[s]) =>
           /\ rows'[s].kind = rows[s].kind /\ rows'[s].creator = rows[s].creator
           /\ IsActive(rows'[s]) => rows'[s].path = rows[s].path
           /\ \A x \in Nat : Overdue(rows[s], x) => Overdue(rows'[s], x)

\* The row that a single-row transaction writes, compared with the one it read.
LEMMA DecisionMoves ==
    ASSUME NEW r \in Row, NEW e \in Entry, RowAgrees(r, e), r.status # "absent",
           NEW new, NEW viewer \in User \cup {NoUser}, NEW t \in Nat,
           FairDecision(r, new, viewer, t)
    PROVE  /\ new \in Row /\ new.status # "absent"
           /\ r.status \in {"destroyed", "expired"} => new = r
           /\ new.kind = r.kind /\ new.creator = r.creator
           /\ IsActive(new) => new.path = r.path
           /\ \A x \in Nat : Overdue(r, x) => Overdue(new, x)
           /\ viewer # NoUser /\ ~IsActive(new) => new.status = "destroyed"
<1>1. CASE viewer # NoUser
  <2>1. MayOpen(r, viewer, t) /\ new = Opened(r, viewer, t) /\ viewer \in User
    BY <1>1 DEF FairDecision
  <2>2. IsActive(r) /\ r.status \notin {"destroyed", "expired"}
    BY <2>1 DEF MayOpen, IsAvailable, IsActive
  <2>3. /\ new.kind = r.kind /\ new.creator = r.creator
        /\ IsActive(new) => new.path = r.path
        /\ \A x \in Nat : Overdue(r, x) => Overdue(new, x)
    BY <2>1, OpenedKeeps
  <2>4. new \in Row /\ new.status \in {"destroyed", "active"}
    BY <2>1, OpenedAgrees
  <2> QED
    BY <2>2, <2>3, <2>4 DEF IsActive
<1>2. CASE viewer = NoUser
  <2>1. CASE new = r
    BY <1>2, <2>1
  <2>2. CASE /\ IsActive(r)
             /\ new \in {Destroyed(r, "expired", "expired"), Destroyed(r, "manual", "destroyed")}
    <3>1. PICK reason \in {"expired", "manual"}, status \in {"expired", "destroyed"} :
              new = Destroyed(r, reason, status)
      BY <2>2
    <3>2. reason \in Reason /\ status \in Status \ {"active"} /\ status # "absent"
      BY DEF Reason, Status
    <3>3. /\ new \in Row /\ new.status = status /\ ~IsActive(new)
          /\ new.kind = r.kind /\ new.creator = r.creator /\ new.expires_at = r.expires_at
      BY <3>1, <3>2, DestroyedFields
    <3>4. \A x \in Nat : Overdue(r, x) => Overdue(new, x)
      BY <3>3 DEF Overdue
    <3> QED
      BY <1>2, <2>2, <3>2, <3>3, <3>4 DEF IsActive
  <2> QED
    BY <1>2, <2>1, <2>2 DEF FairDecision
<1> QED
  BY <1>1, <1>2

\* Every secret moves so in a commit, and in the UPDATE of the panic button and the worker.
LEMMA CommitMoves ==
    ASSUME IInv, NEW p \in Session, Commit(p)
    PROVE  \A s \in Secret : RowMoves(s)
<1> DEFINE x == tx[p].secret
           new == tx[p].row
           viewer == tx[p].viewer
           t == tx[p].at
<1>1. /\ x \in Secret /\ rows[x] \in Row /\ ledger[x] \in Entry
      /\ viewer \in User \cup {NoUser} /\ t \in Nat
      /\ RowAgrees(rows[x], ledger[x]) /\ rows[x].status # "absent"
      /\ FairDecision(rows[x], new, viewer, t)
      /\ rows' = [rows EXCEPT ![x] = new] /\ rows \in [Secret -> Row]
  BY DEF Commit, IInv, TypeOK, RowTx, PanicTx, Idle, DecidedOnCurrentRow
<1> HIDE DEF x, new, viewer, t
<1>2. /\ new.status # "absent"
      /\ rows[x].status \in {"destroyed", "expired"} => new = rows[x]
      /\ new.kind = rows[x].kind /\ new.creator = rows[x].creator
      /\ IsActive(new) => new.path = rows[x].path
      /\ \A y \in Nat : Overdue(rows[x], y) => Overdue(new, y)
  <2> DEFINE r == rows[x]
             e == ledger[x]
  <2>1. r \in Row /\ e \in Entry /\ RowAgrees(r, e) /\ r.status # "absent"
        /\ FairDecision(r, new, viewer, t)
    BY <1>1
  <2> HIDE DEF r, e
  <2>2. /\ new.status # "absent"
        /\ r.status \in {"destroyed", "expired"} => new = r
        /\ new.kind = r.kind /\ new.creator = r.creator
        /\ IsActive(new) => new.path = r.path
        /\ \A y \in Nat : Overdue(r, y) => Overdue(new, y)
    BY <1>1, <2>1, DecisionMoves
  <2> QED
    BY <2>2 DEF r
<1>3. rows'[x] = new /\ \A s \in Secret \ {x} : rows'[s] = rows[s]
  BY <1>1
<1>4. RowMoves(x)
  BY <1>1, <1>2, <1>3 DEF RowMoves, Ended
<1>5. \A s \in Secret \ {x} : RowMoves(s)
  BY <1>3 DEF RowMoves
<1> QED
  BY <1>4, <1>5

LEMMA BulkMoves ==
    ASSUME IInv, NEW S \in SUBSET Secret, \A s \in S : IsActive(rows[s]),
           NEW reason \in Reason, NEW status \in {"expired", "destroyed"},
           rows' = [s \in Secret |-> IF s \in S THEN Destroyed(rows[s], reason, status)
                                    ELSE rows[s]]
    PROVE  /\ \A s \in Secret : RowMoves(s)
           /\ \A s \in S : Ended(s)'
           /\ \A s \in S : rows'[s].reason = reason
<1> SUFFICES ASSUME NEW s \in Secret
             PROVE  RowMoves(s) /\ (s \in S => Ended(s)' /\ rows'[s].reason = reason)
  OBVIOUS
<1>1. rows[s] \in Row
  BY DEF IInv, TypeOK
<1>2. CASE s \in S
  <2> DEFINE d == Destroyed(rows[s], reason, status)
  <2>1. status \in Status \ {"active"} /\ status # "absent"
    BY DEF Status
  <2>2. /\ d.status = status /\ d.reason = reason /\ ~IsActive(d)
        /\ d.kind = rows[s].kind /\ d.creator = rows[s].creator
        /\ d.expires_at = rows[s].expires_at
    BY <1>1, <2>1, DestroyedFields
  <2>3. rows'[s] = d
    BY <1>2
  <2> HIDE DEF d
  <2> QED
    BY <1>2, <2>1, <2>2, <2>3 DEF RowMoves, Ended, IsActive, Overdue
<1>3. CASE s \notin S
  BY <1>3 DEF RowMoves
<1> QED
  BY <1>2, <1>3

-----------------------------------------------------------------------------
(* Names and roles *)

\* A fresh name has no role yet and is not on disk.
LEMMA FreshName ==
    ASSUME NEW f \in Fresh
    PROVE  /\ f \in Path /\ f \notin disk /\ f # NoPath
           /\ \A s \in Secret : home[s] # f
           /\ \A k \in Key : ~CopyOf(f, k)
           /\ \A p \in Session : ~Pending(f, p)
           /\ \A k \in Key : relay[k].copy # f
           /\ \A t \in timers : t[2] # f
           /\ \A p \in Session : Delivers(p) => job[p].copy # f
           /\ \A p \in Session : Relays(p) => job[p].cached # f /\ job[p].copy # f
           /\ \A p \in Session : ~Takes(p, f)
           /\ f \notin uploads
<1>1. /\ f \in Path /\ f \notin disk /\ f \notin uploads
      /\ \A s \in Secret : home[s] # f
      /\ \A k \in Key : relay[k].copy # f
      /\ \A t \in timers : t[2] # f
      /\ \A p \in Session : f \notin JobFiles(job[p])
  BY DEF Fresh, Named
<1>2. ASSUME NEW p \in Session
      PROVE  /\ Delivers(p) => job[p].copy # f
             /\ Relays(p) => job[p].cached # f /\ job[p].copy # f
  <2>1. CASE Delivers(p)
    <3>1. JobFiles(job[p]) = {job[p].file, job[p].copy}
      BY <2>1 DEF JobFiles, Delivers
    <3> QED
      BY <1>1, <2>1, <3>1 DEF Delivers, Relays
  <2>2. CASE Relays(p)
    <3>1. JobFiles(job[p]) = {job[p].cached, job[p].copy}
      BY <2>2 DEF JobFiles, Relays
    <3> QED
      BY <1>1, <2>2, <3>1 DEF Delivers, Relays
  <2> QED
    BY <2>1, <2>2
<1>3. \A t \in timers : \A k \in Key : t = <<k, f>> => t[2] = f
  OBVIOUS
<1>4. \A k \in Key : ~CopyOf(f, k)
  BY <1>1, <1>2, <1>3 DEF CopyOf
<1>5. \A p \in Session : ~Pending(f, p)
  BY <1>2 DEF Pending, Relays
<1>6. f # NoPath
  BY <1>1, NullAssumption
<1>7. ASSUME NEW p \in Session, Takes(p, f)
      PROVE  FALSE
  <2>1. JobFiles(job[p]) = {job[p].file}
    BY <1>7 DEF JobFiles, Takes
  <2> QED
    BY <1>1, <1>7, <2>1 DEF Takes
<1> QED
  BY <1>1, <1>2, <1>4, <1>5, <1>6, <1>7

\* The roles stay single while no file gets a new one, but for the uploads, and what a handler
\* takes from a draft that is nobody's or is contested.
LEMMA RolesShrink ==
    ASSUME FInv, UNCHANGED home, contested \subseteq contested', uploads' \subseteq uploads \cup Fresh,
           \A c \in Path, k \in Key : CopyOf(c, k)' => CopyOf(c, k),
           \A c \in Path, p \in Session : Pending(c, p)' => Pending(c, p),
           \A c \in Path \ contested', p \in Session :
               Takes(p, c)' => \/ Takes(p, c)
                               \/ /\ \A s \in Secret : home[s] # c
                                  /\ \A q \in Session : Takes(q, c)' => q = p
    PROVE  \A c \in Path : OneRole(c)'
<1> SUFFICES ASSUME NEW c \in Path
             PROVE  OneRole(c)'
  OBVIOUS
<1>1. OneRole(c)
  BY DEF FInv
<1>2. ASSUME c \notin contested'
      PROVE  /\ \A s, r \in Secret : home[s] = c /\ home[r] = c => s = r
             /\ \A p, q \in Session : Takes(p, c)' /\ Takes(q, c)' => p = q
             /\ \A p \in Session : Takes(p, c)' => \A s \in Secret : home[s] # c
  <2>1. c \in Path \ contested' /\ c \notin contested
    BY <1>2
  <2> QED
    BY <1>1, <2>1 DEF OneRole
<1>3. c \in uploads' => (\A k \in Key : ~CopyOf(c, k)) /\ (\A p \in Session : ~Pending(c, p))
  BY <1>1, FreshName DEF OneRole
<1> QED
  BY <1>1, <1>2, <1>3 DEF OneRole

\* Who takes a path, and the deletion of a copy without its entry, may go on in a step.
TakesShrink == \A c \in Path, p \in Session : Takes(p, c)' => Takes(p, c)

DropsGoOn ==
    \A q \in Session :
        job[q].op = "relay_del" => \/ job'[q] = job[q]
                                   \/ relay'[KeyOf(q)].copy = NoPath
                                   \/ <<"undropped", KeyOf(q)>> \in mishaps'

\* A step records what its handlers leave behind, and no lost view of a secret that can be opened.
MishapsKept ==
    \/ mishaps' = mishaps
    \/ /\ mishaps \subseteq mishaps' /\ mishaps' \subseteq Mishap
       /\ MishapsFit'
       /\ \A s \in Secret :
              ~Ended(s) /\ home[s] \notin contested => <<"missing", s>> \notin mishaps'

LEMMA MishapsRest ==
    ASSUME FInv, MishapsKept
    PROVE  /\ mishaps \subseteq mishaps' /\ mishaps' \subseteq Mishap
           /\ MishapsFit'
           /\ \A s \in Secret :
                  ~Ended(s) /\ home[s] \notin contested => <<"missing", s>> \notin mishaps'
<1>1. MishapsFit /\ mishaps \subseteq Mishap /\ \A s \in Secret : HomeFits(s)
  BY DEF FInv, FTypeOK
<1>2. CASE mishaps' = mishaps
  BY <1>1, <1>2 DEF HomeFits, MishapsFit
<1> QED
  BY <1>2 DEF MishapsKept

\* A deletion that hurts nobody: the file of an ended secret; an upload that is contested, or that
\* the handler took that deletes it; or a copy whose key has no entry any more, or is about to
\* lose it, and no delivery that is about to write one.
MayGo(c) ==
    \/ EndedHome(c)
    \/ c \in uploads /\ (c \in contested \/ \E p \in Session : Takes(p, c) /\ ~Takes(p, c)')
    \/ \E k \in Key :
           /\ CopyOf(c, k)
           /\ relay'[k].copy # c \/ \E p \in Session : Dropping(p, k, c)'
           /\ \A p \in Session : job'[p].op = "cache" => job'[p].copy # c

\* Entries stay usable, and so do the files of the secrets.
LEMMA EntriesStay ==
    ASSUME FInv, \A c \in disk : c \in disk' \/ MayGo(c),
           DropsGoOn, mishaps \subseteq mishaps',
           NEW k \in Key,
           \/ relay'[k].kind = relay[k].kind /\ relay'[k].copy = relay[k].copy
           \/ relay'[k] = NoEntryCached
    PROVE  EntryFits(k)'
<1>1. /\ relay[k] \in RelayEntry /\ EntryFits(k)
      /\ \A c \in Path : OneRole(c)
  BY DEF FInv, FTypeOK
<1>2. CASE relay'[k] = NoEntryCached
  BY <1>2 DEF EntryFits, NoEntryCached
<1>3. CASE relay'[k].kind = relay[k].kind /\ relay'[k].copy = relay[k].copy
  <2> DEFINE c == relay[k].copy
  <2>0. PICK d : d = c
    OBVIOUS
  <2>1. ASSUME d # NoPath
        PROVE  \/ d \in disk'
               \/ \E p \in Session : Dropping(p, k, d)'
               \/ <<"undropped", k>> \in mishaps'
    <3>1. d \in Path /\ OneRole(d) /\ CopyOf(d, k)
      BY <1>1, <2>0, <2>1 DEF RelayEntry, File, CopyOf
    <3>2. CASE d \in disk /\ d \notin disk'
      <4>1. ~EndedHome(d) /\ d \notin uploads
        BY <3>1 DEF OneRole, EndedHome
      <4>2. PICK l \in Key : /\ CopyOf(d, l)
                             /\ relay'[l].copy # d \/ \E p \in Session : Dropping(p, l, d)'
        BY <3>2, <4>1 DEF MayGo
      <4>3. l = k
        BY <3>1, <4>2 DEF OneRole
      <4> QED
        BY <1>3, <2>0, <4>2, <4>3
    <3>3. CASE \E p \in Session : Dropping(p, k, d)
      <4>1. PICK p \in Session : job[p].op = "relay_del" /\ KeyOf(p) = k /\ job[p].cached = d
        BY <3>3 DEF Dropping
      <4>2. CASE job'[p] = job[p]
        BY <4>1, <4>2 DEF Dropping, KeyOf
      <4>3. relay'[k].copy # NoPath
        BY <1>3, <2>0, <2>1
      <4> QED
        BY <4>1, <4>2, <4>3 DEF DropsGoOn
    <3> QED
      BY <1>1, <2>0, <2>1, <3>2, <3>3 DEF EntryFits
  <2>2. relay'[k].copy = d
    BY <1>3, <2>0
  <2>3. relay'[k].kind = "file" <=> d # NoPath
    BY <1>1, <1>3, <2>0 DEF EntryFits
  <2> HIDE DEF c
  <2> QED
    BY <2>1, <2>2, <2>3 DEF EntryFits
<1> QED
  BY <1>2, <1>3

LEMMA HomesStay ==
    ASSUME FInv, \A c \in disk : c \in disk' \/ MayGo(c), UNCHANGED <<rows, home>>,
           contested \subseteq contested', MishapsKept,
           NEW s \in Secret
    PROVE  HomeFits(s)'
<1>1. HomeFits(s) /\ home[s] \in File
  BY DEF FInv, FTypeOK
<1>2. ASSUME IsActive(rows[s]), home[s] \notin contested' \cup {NoPath}
      PROVE  home[s] \in disk'
  <2> DEFINE c == home[s]
  <2>1. c \in Path /\ c \in disk /\ OneRole(c) /\ c \notin contested
    BY <1>1, <1>2 DEF FInv, HomeFits, File
  <2>2. ~EndedHome(c)
    BY <1>2, <2>1 DEF OneRole, EndedHome, IsActive, Ended
  <2>3. (\A k \in Key : ~CopyOf(c, k)) /\ (\A p \in Session : ~Takes(p, c))
    BY <2>1 DEF OneRole
  <2> QED
    BY <2>1, <2>2, <2>3 DEF MayGo
<1>3. ~Ended(s)' /\ home'[s] \notin contested' => <<"missing", s>> \notin mishaps'
  BY MishapsRest DEF Ended
<1> QED
  BY <1>1, <1>2, <1>3 DEF HomeFits, Ended

\* A handler whose job does not change fits as before.
LEMMA JobStays ==
    ASSUME FInv, \A c \in disk : c \in disk' \/ MayGo(c), UNCHANGED <<rows, home>>,
           uploads \subseteq uploads', contested \subseteq contested',
           NEW q \in Session, job'[q] = job[q]
    PROVE  DeliverFits(q)' /\ RelayFits(q)' /\ UnlinkFits(q)' /\ DraftFits(q)'
<1>1. DeliverFits(q) /\ RelayFits(q) /\ UnlinkFits(q) /\ DraftFits(q)
  BY DEF FInv
<1>2. DeliverFits(q)'
  BY <1>1 DEF DeliverFits, Delivers, Ended
<1>3. UnlinkFits(q)'
  BY <1>1 DEF UnlinkFits, EndedHome, Ended
<1>4. ASSUME Relays(q), job[q].op = "relay_insert", job[q].copy # NoPath
      PROVE  job[q].copy \in disk'
  <2> DEFINE c == job[q].copy
  <2>1. c \in Path
    BY <1>4, JobTypes DEF FInv, RelayJob, File
  <2>2. c \in disk /\ OneRole(c) /\ Pending(c, q)
    BY <1>1, <1>4, <2>1 DEF FInv, RelayFits, Pending
  <2>3. ~EndedHome(c) /\ c \notin uploads /\ \A k \in Key : ~CopyOf(c, k)
    BY <2>2 DEF OneRole, EndedHome
  <2> QED
    BY <2>2, <2>3 DEF MayGo
<1>5. RelayFits(q)'
  BY <1>1, <1>4 DEF RelayFits, Relays
<1>6. ASSUME job[q].op \in {"finalize", "drop"}, job[q].file \notin contested' \cup {NoPath}
      PROVE  job[q].file \in disk'
  <2>1. PICK c : c = job[q].file
    OBVIOUS
  <2>2. c \in disk /\ c \in Path /\ c \in uploads /\ c \notin contested /\ Takes(q, c) /\ Takes(q, c)'
    BY <1>1, <1>6, <2>1 DEF DraftFits, Takes, FInv, FTypeOK
  <2>3. /\ ~EndedHome(c) /\ \A k \in Key : ~CopyOf(c, k)
        /\ \A p \in Session : Takes(p, c) => p = q
    BY <2>2 DEF OneRole, EndedHome, FInv
  <2> QED
    BY <2>1, <2>2, <2>3 DEF MayGo
<1>7. DraftFits(q)'
  BY <1>1, <1>6 DEF DraftFits
<1> QED
  BY <1>2, <1>3, <1>5, <1>7

\* A delivery's new copy stays its own while others refer to nothing new but their own files.
LEMMA NewCopyStays ==
    ASSUME FInv, \A c \in disk : c \in disk' \/ MayGo(c), UNCHANGED home,
           NEW q \in Session, job'[q] = job[q], FTypeOK',
           NEW p \in Session, \A r \in Session \ {p} : job'[r] = job[r],
           p = q \/ ~Delivers(p)' \/ (Delivers(p) /\ job'[p].copy = job[p].copy)
                 \/ job'[p].copy \notin disk,
           ~Relays(p)' \/ (Relays(p) /\ job'[p].cached = job[p].cached)
                       \/ (\E k \in Key : job'[p].cached = relay[k].copy),
           \A k \in Key : \/ relay'[k].copy = relay[k].copy \/ relay'[k].copy = NoPath
                          \/ p # q /\ Delivers(p) /\ relay'[k].copy = job[p].copy,
           \A t \in timers' : t \in timers \/ (p # q /\ Delivers(p) /\ t[2] = job[p].copy)
    PROVE  CopyIsNew(q)'
<1> SUFFICES ASSUME job[q].op = "cache", job[q].kind = "file"
             PROVE  CopyIsNew(q)'
  BY DEF CopyIsNew
<1> DEFINE c == job[q].copy
<1>1. Delivers(q) /\ job[q] \in DeliverJob /\ KeyOf(q) \in Key
  BY JobTypes DEF FInv, Delivers
<1>2. /\ c # NoPath /\ c \in Path /\ c \in disk
      /\ \A k \in Key : relay[k].copy # c
      /\ \A t \in timers : t[2] # c
      /\ \A r \in Session \ {q} : Delivers(r) => job[r].copy # c
      /\ \A r \in Session : Relays(r) => job[r].cached # c
  BY <1>1 DEF FInv, CopyIsNew, DeliverFits, DeliverJob, File
<1>3. OneRole(c) /\ CopyOf(c, KeyOf(q))
  BY <1>1, <1>2 DEF FInv, CopyOf
<1>4. c \in disk'
  <2>1. ~EndedHome(c) /\ c \notin uploads
    BY <1>1, <1>3 DEF OneRole, EndedHome
  <2> QED
    BY <1>2, <2>1 DEF MayGo
<1>5. \A k \in Key : relay'[k].copy # c
  BY <1>2
<1>6. \A t \in timers' : t[2] # c
  BY <1>2
<1>7. \A r \in Session \ {q} : Delivers(r)' => job'[r].copy # c
  BY <1>2 DEF Delivers
<1>8. \A r \in Session : Relays(r)' => job'[r].cached # c
  BY <1>2 DEF Relays
<1> HIDE DEF c
<1> QED
  BY <1>4, <1>5, <1>6, <1>7, <1>8 DEF CopyIsNew, c

\* While no new name is the file of a secret, what the last views left holds.
LEMMA LastStays ==
    ASSUME FInv, UNCHANGED <<rows, home>>, disk' \subseteq disk \cup Fresh,
           faults' = 0 => faults = 0,
           \A q \in Session :
               \/ job'[q] = job[q]
               \/ ~Delivers(q)
               \/ ~job[q].last
               \/ Delivers(q)' /\ job'[q].secret = job[q].secret /\ job'[q].last = job[q].last
               \/ job[q].kind # "file" \/ home[job[q].secret] \notin disk' \/ faults' # 0
    PROVE  \A s \in Secret : LastFits(s)'
<1> SUFFICES ASSUME NEW s \in Secret, faults' = 0, rows[s].kind = "file",
                    rows[s].reason = "view_limit"
             PROVE  \/ home[s] \notin disk'
                    \/ \E p \in Session : Delivers(p)' /\ job'[p].secret = s /\ job'[p].last
  BY DEF LastFits
<1>1. CASE home[s] \notin disk
  <2>1. home[s] \notin Fresh
    BY FreshName
  <2> QED
    BY <1>1, <2>1
<1>2. CASE home[s] \in disk
  <2>1. PICK p \in Session : Delivers(p) /\ job[p].secret = s /\ job[p].last
    BY <1>2 DEF FInv, LastFits
  <2>2. job[p].kind = "file"
    BY <2>1 DEF FInv, DeliverFits
  <2> QED
    BY <2>1, <2>2 DEF Delivers
<1> QED
  BY <1>1, <1>2

\* What remains of the invariant when the store does nothing.
LEMMA FileStep ==
    ASSUME FInv, UNCHANGED <<vars, home>>, FTypeOK',
           \A c \in Path : OneRole(c)',
           \A c \in disk : c \in disk' \/ MayGo(c),
           contested \subseteq contested', MishapsKept, DraftsKnown',
           \A q \in Session : CopyIsNew(q)',
           \A q \in Session : DeliverFits(q)' /\ RelayFits(q)' /\ UnlinkFits(q)' /\ DraftFits(q)',
           \A k \in Key : EntryFits(k)',
           \A q \in Session : tx[q] # Idle => job'[q] = NoJob,
           sweep' \subseteq sweep,
           \A s \in Secret : LastFits(s)'
    PROVE  FInv'
<1>1. UNCHANGED <<rows, tx, worker, now>>
  BY DEF vars
<1>2. IInv'
  BY NextIInv DEF FInv
<1>3. \A s \in Secret : HomeFits(s)'
  BY <1>1, HomesStay
<1>4. \A q \in Session : TxFits(q)'
  BY <1>1 DEF FInv, TxFits, Ended
<1>5. WorkerFits'
  BY <1>1 DEF FInv, WorkerFits, Ended
<1>6. SweepFits'
  BY <1>1 DEF FInv, SweepFits, EndedHome, Ended
<1>7. MishapsFit'
  BY MishapsRest
<1> QED
  BY <1>2, <1>3, <1>4, <1>5, <1>6, <1>7 DEF FInv

\* A handler at work on a job has no transaction.
LEMMA NoTransaction ==
    ASSUME FInv, NEW p \in Session, job[p] # NoJob
    PROVE  tx[p] = Idle
BY DEF FInv, TxFits

\* A step that changes no job.
LEMMA NoHandlerStep ==
    ASSUME FInv, UNCHANGED <<vars, home, job, faults, mishaps, uploads, contested>>,
           draft' = draft \/ (draft' \in [User -> File] /\ DraftsKnown'),
           \A k \in Key : relay'[k] = relay[k] \/ relay'[k] = NoEntryCached,
           relay' \in [Key -> RelayEntry],
           timers' \subseteq timers, disk' \subseteq disk, sweep' \subseteq sweep,
           \A c \in disk : c \in disk' \/ MayGo(c)
    PROVE  FInv'
<1>1. UNCHANGED <<rows, tx>>
  BY DEF vars
<1>2. FTypeOK'
  BY DEF FInv, FTypeOK
<1>3. \A k \in Key : relay'[k].copy = relay[k].copy \/ relay'[k].copy = NoPath
  BY DEF NoEntryCached
<1>4. \A c \in Path : OneRole(c)'
  <2>1. ASSUME NEW c \in Path, NEW k \in Key, CopyOf(c, k)'
        PROVE  CopyOf(c, k)
    BY <1>3, <2>1, NullAssumption DEF CopyOf, Delivers, Relays, KeyOf
  <2>2. \A c \in Path, p \in Session : Pending(c, p)' => Pending(c, p)
    BY DEF Pending
  <2>3. \A c \in Path, p \in Session : Takes(p, c)' => Takes(p, c)
    BY DEF Takes
  <2> QED
    BY <2>1, <2>2, <2>3, RolesShrink
<1>5. ASSUME NEW q \in Session
      PROVE  CopyIsNew(q)'
  <2>1. ~Relays(q)' \/ (Relays(q) /\ job'[q].cached = job[q].cached)
    BY DEF Relays
  <2> QED
    BY <1>2, <1>3, <2>1, NewCopyStays
<1>6. \A q \in Session : DeliverFits(q)' /\ RelayFits(q)' /\ UnlinkFits(q)' /\ DraftFits(q)'
  BY <1>1, JobStays
<1>7. \A k \in Key : EntryFits(k)'
  BY EntriesStay DEF DropsGoOn
<1>8. \A q \in Session : tx[q] # Idle => job'[q] = NoJob
  BY DEF FInv, TxFits
<1>9. \A s \in Secret : LastFits(s)'
  BY <1>1, LastStays
<1>10. DraftsKnown' /\ MishapsKept
  BY DEF FInv, DraftsKnown, MishapsKept
<1> QED
  BY <1>2, <1>4, <1>5, <1>6, <1>7, <1>8, <1>9, <1>10, FileStep

\* A handler ends, its job done or given up.
LEMMA JobEnds ==
    ASSUME FInv, NEW p \in Session, job[p] # NoJob, job' = [job EXCEPT ![p] = NoJob],
           UNCHANGED <<vars, home, sweep, uploads, contested>>,
           draft' = draft \/ (draft' \in [User -> File] /\ DraftsKnown'),
           \A k \in Key : relay'[k] = relay[k] \/ relay'[k] = NoEntryCached,
           relay' \in [Key -> RelayEntry],
           timers' \subseteq (Key \X Path),
           \A t \in timers' : \/ t \in timers
                              \/ Delivers(p) /\ t = <<KeyOf(p), job[p].copy>>,
           disk' \subseteq disk, faults' \in 0..MaxFaults, faults' = 0 => faults = 0,
           MishapsKept, DropsGoOn,
           \A c \in disk : c \in disk' \/ MayGo(c),
           ~Delivers(p) \/ ~job[p].last \/ job[p].kind # "file"
                        \/ home[job[p].secret] \notin disk' \/ faults' # 0
    PROVE  FInv'
<1>1. UNCHANGED <<rows, tx>>
  BY DEF vars
<1>2. /\ job'[p] = NoJob /\ \A q \in Session \ {p} : job'[q] = job[q]
      /\ ~Delivers(p)' /\ ~Relays(p)' /\ job'[p].op = "none"
      /\ \A c : ~Pending(c, p)' /\ ~Takes(p, c)'
  BY DEF FInv, FTypeOK, NoJob, Delivers, Relays, Pending, Takes
<1>3. FTypeOK'
  <2>1. job' \in [Session -> {NoJob} \cup UnlinkJob \cup DeliverJob \cup RelayJob \cup DraftJob]
    BY DEF FInv, FTypeOK
  <2> QED
    BY <2>1, MishapsRest DEF FInv, FTypeOK
<1>4. \A k \in Key : relay'[k].copy = relay[k].copy \/ relay'[k].copy = NoPath
  BY DEF NoEntryCached
<1>5. \A c \in Path : OneRole(c)'
  <2>1. ASSUME NEW c \in Path, NEW k \in Key, CopyOf(c, k)'
        PROVE  CopyOf(c, k)
    <3>1. \A q \in Session \ {p} : /\ Delivers(q)' => Delivers(q) /\ KeyOf(q)' = KeyOf(q)
                                   /\ Relays(q)' => Relays(q) /\ KeyOf(q)' = KeyOf(q)
      BY <1>2 DEF Delivers, Relays, KeyOf
    <3>2. CASE relay'[k].copy = c
      BY <1>4, <3>2, NullAssumption DEF CopyOf
    <3>3. CASE <<k, c>> \in timers'
      BY <3>3 DEF CopyOf
    <3>4. CASE \E q \in Session : Delivers(q)' /\ KeyOf(q)' = k /\ job'[q].copy = c
      BY <1>2, <3>1, <3>4 DEF CopyOf
    <3>5. CASE \E q \in Session : Relays(q)' /\ KeyOf(q)' = k /\ job'[q].cached = c
      BY <1>2, <3>1, <3>5 DEF CopyOf
    <3> QED
      BY <2>1, <3>2, <3>3, <3>4, <3>5 DEF CopyOf
  <2>2. \A c \in Path, q \in Session : Pending(c, q)' => Pending(c, q)
    BY <1>2 DEF Pending
  <2>3. \A c \in Path, q \in Session : Takes(q, c)' => Takes(q, c)
    BY <1>2 DEF Takes
  <2> QED
    BY <2>1, <2>2, <2>3, RolesShrink
<1>6. ASSUME NEW q \in Session
      PROVE  CopyIsNew(q)'
  <2>1. CASE q = p
    BY <1>2, <2>1 DEF CopyIsNew
  <2>2. CASE q # p
    <3>1. \A t \in timers' : t \in timers \/ (p # q /\ Delivers(p) /\ t[2] = job[p].copy)
      BY <2>2
    <3> QED
      BY <1>2, <1>3, <1>4, <2>2, <3>1, NewCopyStays
  <2> QED
    BY <2>1, <2>2
<1>7. \A q \in Session : DeliverFits(q)' /\ RelayFits(q)' /\ UnlinkFits(q)' /\ DraftFits(q)'
  <2>1. DeliverFits(p)' /\ RelayFits(p)' /\ UnlinkFits(p)' /\ DraftFits(p)'
    BY <1>2 DEF DeliverFits, RelayFits, UnlinkFits, DraftFits
  <2> QED
    BY <1>1, <1>2, <2>1, JobStays
<1>8. \A k \in Key : EntryFits(k)'
  BY EntriesStay, MishapsRest
<1>9. \A q \in Session : tx[q] # Idle => job'[q] = NoJob
  BY <1>2 DEF FInv, TxFits
<1>10. \A s \in Secret : LastFits(s)'
  BY <1>1, <1>2, LastStays
<1>11. DraftsKnown'
  BY DEF FInv, DraftsKnown
<1> QED
  BY <1>3, <1>5, <1>6, <1>7, <1>8, <1>9, <1>10, <1>11, FileStep

-----------------------------------------------------------------------------
(* The steps that end a job *)

\* Nobody else refers to the copy that a delivery has not written down.
LEMMA NewCopyOwn ==
    ASSUME FInv, NEW q \in Session, job[q].op = "cache", NEW c \in Path, job[q].copy = c
    PROVE  /\ \A k \in Key : relay[k].copy # c
           /\ \A t \in timers : t[2] # c
           /\ \A r \in Session \ {q} : Delivers(r) => job[r].copy # c
           /\ \A r \in Session : Relays(r) => job[r].cached # c
<1>1. Delivers(q) /\ job[q] \in DeliverJob
  BY JobTypes DEF FInv, Delivers
<1>2. job[q].kind = "file"
  BY <1>1, NullAssumption DEF FInv, DeliverFits
<1> QED
  BY <1>2 DEF FInv, CopyIsNew

\* A handler that stops leaves no record of a lost view.
LEMMA RecordsFault ==
    ASSUME FInv, NEW left, left \subseteq Mishap, mishaps' = mishaps \cup left,
           \A s \in Secret : /\ <<"missing", s>> \notin left
                             /\ <<"plaintext", s>> \in left => <<"cut off", s>> \in left
    PROVE  MishapsKept
<1>1. MishapsFit /\ mishaps \subseteq Mishap /\ \A s \in Secret : HomeFits(s)
  BY DEF FInv, FTypeOK
<1>2. MishapsFit'
  BY <1>1 DEF MishapsFit
<1>3. \A s \in Secret : ~Ended(s) /\ home[s] \notin contested => <<"missing", s>> \notin mishaps'
  BY <1>1 DEF HomeFits
<1> QED
  BY <1>1, <1>2, <1>3 DEF MishapsKept

LEMMA UnlinkStep ==
    ASSUME FInv, NEW p \in Session, Unlink(p)
    PROVE  FInv'
<1>1. /\ job[p].op = "unlink" /\ disk' = disk \ job[p].paths
      /\ job' = [job EXCEPT ![p] = NoJob]
      /\ UNCHANGED <<vars, home, sweep, relay, timers, faults, draft, uploads, contested>>
      /\ MishapsKept
  BY DEF Unlink, ghosts, MishapsKept
<1>2. /\ job[p] # NoJob /\ ~Delivers(p)
      /\ DropsGoOn
  BY <1>1 DEF NoJob, Delivers, DropsGoOn
<1>3. \A c \in disk : c \in disk' \/ MayGo(c)
  BY <1>1 DEF FInv, UnlinkFits, MayGo
<1>4. /\ relay' \in [Key -> RelayEntry] /\ timers' \subseteq (Key \X Path)
      /\ faults' \in 0..MaxFaults
  BY <1>1 DEF FInv, FTypeOK
<1> QED
  BY <1>1, <1>2, <1>3, <1>4, JobEnds

LEMMA SentStep ==
    ASSUME FInv, NEW p \in Session, Sent(p)
    PROVE  FInv'
<1>1. /\ job[p].op = "send"
      /\ timers' = timers \cup (IF job[p].kind = "file" THEN {<<KeyOf(p), job[p].copy>>} ELSE {})
      /\ disk' = IF job[p].kind = "file" /\ job[p].last THEN disk \ {job[p].file} ELSE disk
      /\ job' = [job EXCEPT ![p] = NoJob]
      /\ UNCHANGED <<vars, home, sweep, relay, faults, draft, uploads, contested>>
      /\ MishapsKept
  BY DEF Sent, ghosts, MishapsKept
<1>2. /\ Delivers(p) /\ job[p] \in DeliverJob /\ KeyOf(p) \in Key /\ job[p] # NoJob
      /\ DropsGoOn
  BY <1>1, JobTypes DEF FInv, Delivers, NoJob, DropsGoOn
<1>3. /\ job[p].kind = "file" => job[p].file = home[job[p].secret] /\ job[p].copy \in Path
      /\ job[p].last => Ended(job[p].secret)
      /\ job[p].secret \in Secret
  BY <1>1, <1>2 DEF FInv, DeliverFits, DeliverJob, File
<1>4. \A c \in disk : c \in disk' \/ MayGo(c)
  BY <1>1, <1>3 DEF MayGo, EndedHome
<1>5. /\ relay' \in [Key -> RelayEntry] /\ timers' \subseteq (Key \X Path)
      /\ faults' \in 0..MaxFaults
  BY <1>1, <1>2, <1>3 DEF FInv, FTypeOK
<1>6. \A t \in timers' : t \in timers \/ (Delivers(p) /\ t = <<KeyOf(p), job[p].copy>>)
  BY <1>1, <1>2
<1>7. ~job[p].last \/ job[p].kind # "file" \/ home[job[p].secret] \notin disk'
  BY <1>1, <1>3
<1>8. disk' \subseteq disk
  BY <1>1
<1> QED
  BY <1>1, <1>2, <1>4, <1>5, <1>6, <1>7, <1>8, JobEnds

LEMMA SendFailsStep ==
    ASSUME FInv, NEW p \in Session, SendFails(p)
    PROVE  FInv'
<1>1. /\ job[p].op = "send" /\ faults < MaxFaults /\ faults' = faults + 1
      /\ job' = [job EXCEPT ![p] = NoJob]
      /\ UNCHANGED <<vars, home, sweep, timers, draft, uploads, contested>>
      /\ \/ /\ relay' = [relay EXCEPT ![KeyOf(p)] = NoEntryCached]
            /\ disk' = disk \ {job[p].copy}
         \/ UNCHANGED <<relay, disk>>
  BY DEF SendFails
<1>2. /\ Delivers(p) /\ job[p] \in DeliverJob /\ KeyOf(p) \in Key /\ job[p] # NoJob
      /\ FTypeOK
  BY <1>1, JobTypes DEF FInv, Delivers, NoJob
<1>3. /\ relay \in [Key -> RelayEntry] /\ timers' \subseteq (Key \X Path)
      /\ faults \in 0..MaxFaults /\ MaxFaults \in Nat /\ disk \subseteq Path
      /\ job \in [Session -> {NoJob} \cup UnlinkJob \cup DeliverJob \cup RelayJob \cup DraftJob]
  BY <1>1, <1>2, FaultAssumption DEF FTypeOK
<1>4. faults' \in 0..MaxFaults /\ faults' # 0
  BY <1>1, <1>3
<1>5. /\ relay' \in [Key -> RelayEntry] /\ disk' \subseteq disk
      /\ \A k \in Key : relay'[k] = relay[k] \/ relay'[k] = NoEntryCached
  <2>1. NoEntryCached \in RelayEntry
    BY DEF RelayEntry, NoEntryCached, File
  <2>2. CASE /\ relay' = [relay EXCEPT ![KeyOf(p)] = NoEntryCached]
             /\ disk' = disk \ {job[p].copy}
    BY <1>2, <1>3, <2>1, <2>2
  <2>3. CASE UNCHANGED <<relay, disk>>
    BY <1>3, <2>3
  <2> QED
    BY <1>1, <2>2, <2>3
<1>6. \A c \in disk : c \in disk' \/ MayGo(c)
  <2> SUFFICES ASSUME NEW c \in disk, c \notin disk'
               PROVE  MayGo(c)
    OBVIOUS
  <2>1. c = job[p].copy /\ c \in Path /\ relay' = [relay EXCEPT ![KeyOf(p)] = NoEntryCached]
    BY <1>1, <1>3
  <2>2. CopyOf(c, KeyOf(p)) /\ relay'[KeyOf(p)].copy = NoPath
    BY <1>2, <1>3, <2>1 DEF CopyOf, NoEntryCached
  <2>3. ASSUME NEW q \in Session, job'[q].op = "cache"
        PROVE  job'[q].copy # c
    <3>1. q # p /\ job'[q] = job[q]
      BY <1>1, <1>3, <2>3 DEF NoJob
    <3> QED
      BY <1>2, <2>1, <2>3, <3>1, NewCopyOwn
  <2> QED
    BY <1>2, <2>1, <2>2, <2>3, NullAssumption DEF MayGo
<1>7. MishapsKept
  <2>1. job[p].secret \in Secret
    BY <1>2 DEF DeliverJob
  <2>2. PICK s \in Secret : s = job[p].secret
    BY <2>1
  <2>3. mishaps' = mishaps \cup {<<"cut off", s>>}
    BY <2>2 DEF SendFails
  <2>4. <<"cut off", s>> \in Mishap
    BY DEF Mishap
  <2>5. \A x \in Secret : /\ <<"missing", x>> \notin {<<"cut off", s>>}
                          /\ <<"plaintext", x>> \notin {<<"cut off", s>>}
    OBVIOUS
  <2> QED
    BY <2>3, <2>4, <2>5, RecordsFault
<1>8. DropsGoOn
  BY <1>1, <1>3 DEF DropsGoOn
<1> QED
  BY <1>1, <1>2, <1>3, <1>4, <1>5, <1>6, <1>7, <1>8, JobEnds

LEMMA RelayDropStep ==
    ASSUME FInv, NEW p \in Session, RelayDrop(p)
    PROVE  FInv'
<1>1. /\ job[p].op = "relay_del"
      /\ relay' = [relay EXCEPT ![KeyOf(p)] = NoEntryCached]
      /\ job' = [job EXCEPT ![p] = NoJob]
      /\ UNCHANGED <<vars, home, disk, sweep, timers, faults, draft, uploads, contested>>
      /\ MishapsKept
  BY DEF RelayDrop, ghosts, MishapsKept
<1>2. Relays(p) /\ KeyOf(p) \in Key /\ job[p] # NoJob /\ ~Delivers(p)
  BY <1>1, JobTypes DEF FInv, Relays, Delivers, NoJob
<1>3. /\ relay \in [Key -> RelayEntry] /\ timers' \subseteq (Key \X Path)
      /\ faults' \in 0..MaxFaults
      /\ job \in [Session -> {NoJob} \cup UnlinkJob \cup DeliverJob \cup RelayJob \cup DraftJob]
  BY <1>1 DEF FInv, FTypeOK
<1>4. /\ relay' \in [Key -> RelayEntry]
      /\ \A k \in Key : relay'[k] = relay[k] \/ relay'[k] = NoEntryCached
      /\ relay'[KeyOf(p)].copy = NoPath
  BY <1>1, <1>2, <1>3 DEF RelayEntry, NoEntryCached, File
<1>5. DropsGoOn
  BY <1>1, <1>3, <1>4 DEF DropsGoOn
<1> QED
  BY <1>1, <1>2, <1>3, <1>4, <1>5, JobEnds

\* A delivery that finds its file gone: its secret has ended, or its path was contested.
LEMMA LostView ==
    ASSUME FInv, NEW p \in Session, Delivers(p), job[p].kind = "file", job[p].file \notin disk
    PROVE  /\ job[p].secret \in Secret
           /\ Ended(job[p].secret) \/ home[job[p].secret] \in contested
           /\ home[job[p].secret] \notin disk
<1>1. job[p].secret \in Secret /\ rows[job[p].secret] \in Row
  BY JobTypes DEF FInv, DeliverJob, IInv, TypeOK
<1>2. /\ rows[job[p].secret].status # "absent"
      /\ job[p].file \in Path /\ job[p].file = home[job[p].secret]
  BY DEF FInv, DeliverFits
<1>3. ~IsActive(rows[job[p].secret]) \/ home[job[p].secret] \in contested
  BY <1>1, <1>2, NullAssumption DEF FInv, HomeFits
<1> QED
  BY <1>1, <1>2, <1>3 DEF IsActive, Ended, Row, Status

LEMMA GivesUp ==
    ASSUME FInv, NEW p \in Session, Delivers(p), job[p].kind = "file", job[p].file \notin disk,
           job' = [job EXCEPT ![p] = NoJob],
           \/ mishaps' = mishaps \cup {<<"missing", job[p].secret>>}
           \/ mishaps' = mishaps \cup ({"missing", "plaintext"} \X {job[p].secret}),
           UNCHANGED <<vars, disk, draft, relay, timers, sweep, faults, home, uploads, contested>>
    PROVE  FInv'
<1>1. /\ job[p].secret \in Secret
      /\ Ended(job[p].secret) \/ home[job[p].secret] \in contested
      /\ home[job[p].secret] \notin disk
  BY LostView
<1>2. MishapsKept
  <2> DEFINE x == job[p].secret
  <2>1. MishapsFit /\ mishaps \subseteq Mishap /\ \A s \in Secret : HomeFits(s)
    BY DEF FInv, FTypeOK
  <2>2. mishaps \subseteq mishaps' /\ mishaps' \subseteq Mishap
    <3>1. PICK s \in Secret : s = x
      BY <1>1
    <3>2. <<"missing", s>> \in Mishap /\ <<"plaintext", s>> \in Mishap
      BY DEF Mishap
    <3>3. \A m \in mishaps' : m \in mishaps \/ m = <<"missing", s>> \/ m = <<"plaintext", s>>
      BY <3>1
    <3> QED
      BY <2>1, <3>2, <3>3
  <2>3. \A s \in Secret : /\ <<"missing", s>> \in mishaps' => <<"missing", s>> \in mishaps \/ s = x
                          /\ <<"plaintext", s>> \in mishaps' => <<"plaintext", s>> \in mishaps \/ s = x
                          /\ <<"missing", x>> \in mishaps'
    OBVIOUS
  <2>4. MishapsFit'
    BY <2>1, <2>2, <2>3 DEF MishapsFit
  <2>5. \A s \in Secret : ~Ended(s) /\ home[s] \notin contested => <<"missing", s>> \notin mishaps'
    BY <1>1, <2>1, <2>3 DEF HomeFits
  <2> QED
    BY <2>2, <2>4, <2>5 DEF MishapsKept
<1>3. /\ relay' \in [Key -> RelayEntry] /\ timers' \subseteq (Key \X Path)
      /\ faults' \in 0..MaxFaults
  BY <1>1 DEF FInv, FTypeOK
<1>4. job[p] # NoJob /\ DropsGoOn
  <2>1. FTypeOK
    BY DEF FInv
  <2> QED
    BY <2>1 DEF Delivers, NoJob, DropsGoOn, FTypeOK
<1>5. ~job[p].last \/ home[job[p].secret] \notin disk'
  BY <1>1
<1> QED
  BY <1>1, <1>2, <1>3, <1>4, <1>5, JobEnds

-----------------------------------------------------------------------------
(* The steps that go on with a job *)

\* A fresh name gets one role.
LEMMA RolesFresh ==
    ASSUME FInv, UNCHANGED <<home, uploads, contested>>, NEW f \in Fresh, NEW p \in Session,
           TakesShrink,
           \A c \in Path \ {f}, k \in Key : CopyOf(c, k)' => CopyOf(c, k),
           \A c \in Path \ {f}, q \in Session : Pending(c, q)' => Pending(c, q),
           \/ /\ \E l \in Key : \A k \in Key : CopyOf(f, k)' => k = l
              /\ \A q \in Session : ~Pending(f, q)'
           \/ /\ \A k \in Key : ~CopyOf(f, k)'
              /\ \A q \in Session : Pending(f, q)' => q = p
    PROVE  \A c \in Path : OneRole(c)'
<1> SUFFICES ASSUME NEW c \in Path
             PROVE  OneRole(c)'
  OBVIOUS
<1>1. CASE c = f
  <2>1. (\A s \in Secret : home[s] # f) /\ f \notin uploads
    BY FreshName
  <2>2. \A q \in Session : ~Takes(q, f)'
    BY FreshName DEF TakesShrink
  <2> QED
    BY <1>1, <2>1, <2>2 DEF OneRole
<1>2. CASE c # f
  <2>1. OneRole(c) /\ c \in Path \ {f}
    BY <1>2 DEF FInv
  <2>2. \A q \in Session : Takes(q, c)' => Takes(q, c)
    BY DEF TakesShrink
  <2> QED
    BY <2>1, <2>2 DEF OneRole
<1> QED
  BY <1>1, <1>2

\* The next step of a job, by its fields.
GoesOn(p, o, f) ==
    /\ job' \in [Session -> {NoJob} \cup UnlinkJob \cup DeliverJob \cup RelayJob \cup DraftJob]
    /\ \A q \in Session \ {p} : job'[q] = job[q]
    /\ job'[p].op = o /\ job'[p].copy = f
    /\ job'[p].secret = job[p].secret /\ job'[p].viewer = job[p].viewer
    /\ job'[p].kind = job[p].kind
    /\ Delivers(p) => job'[p].file = job[p].file /\ job'[p].last = job[p].last
    /\ Relays(p) => job'[p].cached = job[p].cached

LEMMA JobAdvances ==
    ASSUME FTypeOK, NEW p \in Session, NEW o,
           \/ Delivers(p) /\ o \in {"clone", "cache", "arm", "send"}
           \/ Relays(p) /\ o \in {"relay_insert", "relay_drop", "relay_del"},
           job' = [job EXCEPT ![p].op = o]
    PROVE  GoesOn(p, o, job[p].copy)
<1>1. /\ job \in [Session -> {NoJob} \cup UnlinkJob \cup DeliverJob \cup RelayJob \cup DraftJob]
      /\ Delivers(p) => job[p] \in DeliverJob
      /\ Relays(p) => job[p] \in RelayJob
      /\ ~(Delivers(p) /\ Relays(p))
  BY JobTypes DEF FTypeOK
<1> DEFINE j == [job[p] EXCEPT !.op = o]
<1>2. job' = [job EXCEPT ![p] = j]
  BY <1>1
<1>3. /\ j \in {NoJob} \cup UnlinkJob \cup DeliverJob \cup RelayJob \cup DraftJob
      /\ j.op = o /\ j.copy = job[p].copy
      /\ j.secret = job[p].secret /\ j.viewer = job[p].viewer /\ j.kind = job[p].kind
      /\ Delivers(p) => j.file = job[p].file /\ j.last = job[p].last
      /\ Relays(p) => j.cached = job[p].cached
  <2>1. CASE Delivers(p)
    BY <1>1, <2>1 DEF DeliverJob
  <2>2. CASE Relays(p)
    BY <1>1, <2>2 DEF RelayJob
  <2> QED
    BY <2>1, <2>2
<1> HIDE DEF j
<1> QED
  BY <1>1, <1>2, <1>3 DEF GoesOn

LEMMA JobCopies ==
    ASSUME FTypeOK, NEW p \in Session, NEW o, NEW f \in File,
           \/ Delivers(p) /\ o \in {"clone", "cache", "arm", "send"}
           \/ Relays(p) /\ o \in {"relay_insert", "relay_drop", "relay_del"},
           job' = [job EXCEPT ![p].op = o, ![p].copy = f]
    PROVE  GoesOn(p, o, f)
<1>1. /\ job \in [Session -> {NoJob} \cup UnlinkJob \cup DeliverJob \cup RelayJob \cup DraftJob]
      /\ Delivers(p) => job[p] \in DeliverJob
      /\ Relays(p) => job[p] \in RelayJob
      /\ ~(Delivers(p) /\ Relays(p))
  BY JobTypes DEF FTypeOK
<1> DEFINE j == [job[p] EXCEPT !.op = o, !.copy = f]
<1>2. job' = [job EXCEPT ![p] = j]
  BY <1>1
<1>3. /\ j \in {NoJob} \cup UnlinkJob \cup DeliverJob \cup RelayJob \cup DraftJob
      /\ j.op = o /\ j.copy = f
      /\ j.secret = job[p].secret /\ j.viewer = job[p].viewer /\ j.kind = job[p].kind
      /\ Delivers(p) => j.file = job[p].file /\ j.last = job[p].last
      /\ Relays(p) => j.cached = job[p].cached
  <2>1. CASE Delivers(p)
    BY <1>1, <2>1 DEF DeliverJob
  <2>2. CASE Relays(p)
    BY <1>1, <2>2 DEF RelayJob
  <2> QED
    BY <2>1, <2>2
<1> HIDE DEF j
<1> QED
  BY <1>1, <1>2, <1>3 DEF GoesOn

\* A delivery goes on: what it has to show for itself, the rest following.
LEMMA DeliveryGoesOn ==
    ASSUME FInv, NEW p \in Session, Delivers(p),
           NEW o \in {"clone", "cache", "arm", "send"}, NEW f \in File,
           GoesOn(p, o, f),
           \/ f = job[p].copy /\ disk' = disk
           \/ f \in Fresh /\ disk' = disk \cup {f},
           UNCHANGED <<vars, home, timers, sweep, faults, mishaps, draft, uploads, contested>>,
           relay' \in [Key -> RelayEntry],
           \A k \in Key : \/ relay'[k].copy = relay[k].copy
                          \/ k = KeyOf(p) /\ relay'[k].copy = job[p].copy,
           \A k \in Key : EntryFits(k)', CopyIsNew(p)', DeliverFits(p)'
    PROVE  FInv'
<1>1. UNCHANGED <<rows, tx>>
  BY DEF vars
<1>2. /\ job' \in [Session -> {NoJob} \cup UnlinkJob \cup DeliverJob \cup RelayJob \cup DraftJob]
      /\ \A q \in Session \ {p} : job'[q] = job[q]
      /\ job'[p].op = o /\ job'[p].copy = f
      /\ job'[p].secret = job[p].secret /\ job'[p].viewer = job[p].viewer
      /\ job'[p].last = job[p].last
  BY DEF GoesOn
<1>3. /\ Delivers(p)' /\ ~Relays(p)' /\ KeyOf(p)' = KeyOf(p) /\ KeyOf(p) \in Key
      /\ \A c : ~Pending(c, p)'
      /\ \A q \in Session \ {p} : /\ Delivers(q)' <=> Delivers(q)
                                  /\ Relays(q)' <=> Relays(q)
                                  /\ KeyOf(q)' = KeyOf(q)
      /\ TakesShrink
  BY <1>2, JobTypes DEF FInv, Delivers, Relays, KeyOf, Pending, Takes, TakesShrink
<1>4. disk \subseteq disk' /\ disk' \subseteq disk \cup Fresh /\ disk' \subseteq Path
  BY DEF FInv, FTypeOK, Fresh
<1>5. FTypeOK'
  BY <1>2, <1>4 DEF FInv, FTypeOK
<1>6. \A c, q : Pending(c, q)' /\ q \in Session => Pending(c, q)
  BY <1>2, <1>3 DEF Pending
<1>7. ASSUME NEW c, NEW k \in Key, CopyOf(c, k)'
      PROVE  CopyOf(c, k) \/ (c = f /\ k = KeyOf(p))
  <2>1. CASE relay'[k].copy = c
    BY <2>1 DEF CopyOf
  <2>2. CASE <<k, c>> \in timers'
    BY <2>2 DEF CopyOf
  <2>3. CASE \E q \in Session : Delivers(q)' /\ KeyOf(q)' = k /\ job'[q].copy = c
    BY <1>2, <1>3, <2>3 DEF CopyOf
  <2>4. CASE \E q \in Session : Relays(q)' /\ KeyOf(q)' = k /\ job'[q].cached = c
    BY <1>2, <1>3, <2>4 DEF CopyOf
  <2> QED
    BY <1>7, <2>1, <2>2, <2>3, <2>4 DEF CopyOf
<1>8. \A c \in Path : OneRole(c)'
  <2>1. CASE f = job[p].copy
    <3>1. CopyOf(f, KeyOf(p))
      BY <2>1 DEF CopyOf
    <3> QED
      BY <1>3, <1>6, <1>7, <3>1, RolesShrink DEF TakesShrink
  <2>2. CASE f \in Fresh
    <3>1. /\ \A k \in Key : ~CopyOf(f, k)
          /\ \A q \in Session : ~Pending(f, q)
      BY <2>2, FreshName
    <3>2. \E l \in Key : \A k \in Key : CopyOf(f, k)' => k = l
      BY <1>3, <1>7, <3>1
    <3>3. \A q \in Session : ~Pending(f, q)'
      BY <1>6, <3>1
    <3>4. /\ \A c \in Path \ {f}, k \in Key : CopyOf(c, k)' => CopyOf(c, k)
          /\ \A c \in Path \ {f}, q \in Session : Pending(c, q)' => Pending(c, q)
      BY <1>6, <1>7
    <3> QED
      BY <1>3, <2>2, <3>2, <3>3, <3>4, RolesFresh
  <2> QED
    BY <2>1, <2>2
<1>9. \A c \in disk : c \in disk' \/ MayGo(c)
  BY <1>4
<1>10. ASSUME NEW q \in Session
       PROVE  CopyIsNew(q)'
  <2>1. CASE q = p
    BY <2>1
  <2>2. CASE q # p
    <3>1. job'[p].copy = job[p].copy \/ job'[p].copy \notin disk
      BY <1>2 DEF Fresh
    <3>2. \A k \in Key : \/ relay'[k].copy = relay[k].copy \/ relay'[k].copy = NoPath
                         \/ p # q /\ Delivers(p) /\ relay'[k].copy = job[p].copy
      BY <2>2
    <3>3. \A t \in timers' : t \in timers \/ (p # q /\ Delivers(p) /\ t[2] = job[p].copy)
      OBVIOUS
    <3> QED
      BY <1>2, <1>3, <1>5, <1>9, <2>2, <3>1, <3>2, <3>3, NewCopyStays
  <2> QED
    BY <2>1, <2>2
<1>11. ASSUME NEW q \in Session
       PROVE  DeliverFits(q)' /\ RelayFits(q)' /\ UnlinkFits(q)' /\ DraftFits(q)'
  <2>1. RelayFits(p)' /\ UnlinkFits(p)' /\ DraftFits(p)'
    BY <1>2, <1>3 DEF RelayFits, UnlinkFits, DraftFits
  <2> QED
    BY <1>1, <1>2, <1>9, <2>1, JobStays
<1>12. \A q \in Session : tx[q] # Idle => job'[q] = NoJob
  <2>1. job[p] # NoJob
    BY DEF Delivers, NoJob
  <2> QED
    BY <1>2, <2>1 DEF FInv, TxFits
<1>13. \A s \in Secret : LastFits(s)'
  BY <1>1, <1>2, <1>3, <1>4, LastStays
<1>14. MishapsKept /\ DraftsKnown'
  BY DEF MishapsKept, DraftsKnown, FInv
<1> QED
  BY <1>5, <1>8, <1>9, <1>10, <1>11, <1>12, <1>13, <1>14, FileStep

\* What the invariant says of a delivery at work.
LEMMA DeliveryFacts ==
    ASSUME FInv, NEW p \in Session, Delivers(p)
    PROVE  /\ job[p] \in DeliverJob /\ KeyOf(p) \in Key
           /\ DeliverFits(p) /\ CopyIsNew(p)
           /\ relay \in [Key -> RelayEntry] /\ \A k \in Key : EntryFits(k)
BY JobTypes DEF FInv, FTypeOK

\* The entries that a delivery does not write stay as they are.
LEMMA EntriesRest ==
    ASSUME FInv, NEW p \in Session, job[p].op # "relay_del",
           \A q \in Session \ {p} : job'[q] = job[q],
           disk \subseteq disk', UNCHANGED mishaps,
           NEW k \in Key, relay'[k].kind = relay[k].kind, relay'[k].copy = relay[k].copy
    PROVE  EntryFits(k)'
<1>1. DropsGoOn
  BY DEF DropsGoOn
<1> QED
  BY <1>1, EntriesStay

LEMMA StartStep ==
    ASSUME FInv, NEW p \in Session, Start(p)
    PROVE  FInv'
<1>1. /\ job[p].op = "start"
      /\ UNCHANGED <<vars, disk, draft, relay, timers, sweep, faults, home, uploads, contested>>
  BY DEF Start
<1>2. Delivers(p)
  BY <1>1 DEF Delivers
<1>3. ASSUME NEW o \in {"clone", "cache"}, o = "clone" <=> job[p].kind = "file",
             job' = [job EXCEPT ![p].op = o], UNCHANGED mishaps
      PROVE  FInv'
  <2> DEFINE f == job[p].copy
  <2>1. f \in File /\ f = NoPath
    BY <1>1, <1>2, DeliveryFacts DEF File, DeliverFits
  <2>2. GoesOn(p, o, f)
    BY <1>2, <1>3, JobAdvances DEF FInv
  <2>3. DeliverFits(p)'
    <3>1. DeliverFits(p)
      BY <1>2, DeliveryFacts
    <3>2. UNCHANGED <<rows, home>>
      BY <1>1 DEF vars
    <3> QED
      BY <1>2, <1>3, <2>1, <2>2, <3>1, <3>2 DEF DeliverFits, Ended, GoesOn
  <2>4. CopyIsNew(p)'
    BY <1>3, <2>2 DEF CopyIsNew, GoesOn
  <2>5. relay' \in [Key -> RelayEntry] /\ \A k \in Key : EntryFits(k)'
    BY <1>1, <1>2, <1>3, <2>2, DeliveryFacts, EntriesRest DEF GoesOn
  <2> HIDE DEF f
  <2>6. f = job[p].copy /\ disk' = disk
    BY <1>1 DEF f
  <2> QED
    BY <1>1, <1>2, <1>3, <2>1, <2>2, <2>3, <2>4, <2>5, <2>6, DeliveryGoesOn
<1>4. CASE job[p].kind = "text" /\ Advance(p, "cache") /\ UNCHANGED mishaps
  BY <1>3, <1>4 DEF Advance
<1>5. CASE job[p].kind = "file" /\ job[p].file \in disk /\ Advance(p, "clone")
           /\ UNCHANGED mishaps
  BY <1>3, <1>5 DEF Advance
<1>6. CASE /\ job[p].kind = "file" /\ job[p].file \notin disk
           /\ job' = [job EXCEPT ![p] = NoJob]
           /\ mishaps' = mishaps \cup {<<"missing", job[p].secret>>}
  BY <1>1, <1>2, <1>6, GivesUp
<1> QED
  BY <1>4, <1>5, <1>6 DEF Start

LEMMA CloneStep ==
    ASSUME FInv, NEW p \in Session, Clone(p)
    PROVE  FInv'
<1>1. /\ job[p].op = "clone"
      /\ UNCHANGED <<vars, draft, relay, timers, sweep, faults, home, uploads, contested>>
  BY DEF Clone
<1>2. Delivers(p)
  BY <1>1 DEF Delivers
<1>3. job[p].kind = "file"
  BY <1>1, <1>2, DeliveryFacts DEF DeliverFits
<1>4. ASSUME NEW f \in Fresh, disk' = disk \cup {f}, UNCHANGED mishaps,
             job' = [job EXCEPT ![p].op = "cache", ![p].copy = f]
      PROVE  FInv'
  <2>1. /\ f \in Path /\ f \in File /\ f # NoPath
        /\ \A k \in Key : relay[k].copy # f
        /\ \A t \in timers : t[2] # f
        /\ \A q \in Session : Delivers(q) => job[q].copy # f
        /\ \A q \in Session : Relays(q) => job[q].cached # f
    BY <1>4, FreshName DEF File
  <2>2. GoesOn(p, "cache", f)
    BY <1>2, <1>4, <2>1, JobCopies DEF FInv
  <2>3. DeliverFits(p)'
    <3>1. DeliverFits(p)
      BY <1>2, DeliveryFacts
    <3>2. UNCHANGED <<rows, home>>
      BY <1>1 DEF vars
    <3> QED
      BY <1>2, <1>3, <2>1, <2>2, <3>1, <3>2 DEF DeliverFits, Ended, GoesOn
  <2>4. CopyIsNew(p)'
    <3>1. /\ \A q \in Session \ {p} : Delivers(q)' => job'[q].copy # f
          /\ \A q \in Session : Relays(q)' => job'[q].cached # f
      BY <2>1, <2>2, <1>2, DeliveryFacts DEF Delivers, Relays, GoesOn
    <3>2. f \in disk'
      BY <1>4
    <3>3. /\ \A k \in Key : relay'[k].copy # f
          /\ \A t \in timers' : t[2] # f
      BY <1>1, <2>1
    <3> QED
      BY <2>2, <3>1, <3>2, <3>3 DEF CopyIsNew, GoesOn
  <2>5. relay' \in [Key -> RelayEntry] /\ \A k \in Key : EntryFits(k)'
    BY <1>1, <1>2, <1>4, <2>2, DeliveryFacts, EntriesRest DEF GoesOn
  <2> QED
    BY <1>1, <1>2, <1>4, <2>1, <2>2, <2>3, <2>4, <2>5, DeliveryGoesOn
<1>5. CASE /\ job[p].file \notin disk
           /\ job' = [job EXCEPT ![p] = NoJob]
           /\ mishaps' = mishaps \cup ({"missing", "plaintext"} \X {job[p].secret})
           /\ UNCHANGED disk
  BY <1>1, <1>2, <1>3, <1>5, GivesUp
<1> QED
  BY <1>4, <1>5 DEF Clone

LEMMA CacheStep ==
    ASSUME FInv, NEW p \in Session, Cache(p)
    PROVE  FInv'
<1> DEFINE e == [kind |-> job[p].kind, copy |-> job[p].copy, ttl |-> relay[KeyOf(p)].ttl]
<1>1. /\ job[p].op = "cache"
      /\ relay' = [relay EXCEPT ![KeyOf(p)] = e]
      /\ job' = [job EXCEPT ![p].op = "arm"]
      /\ UNCHANGED <<vars, disk, draft, timers, sweep, faults, home, uploads, contested, mishaps>>
  BY DEF Cache, Advance, ghosts
<1>2. Delivers(p)
  BY <1>1 DEF Delivers
<1>3. /\ job[p] \in DeliverJob /\ KeyOf(p) \in Key /\ DeliverFits(p) /\ CopyIsNew(p)
      /\ relay \in [Key -> RelayEntry] /\ \A k \in Key : EntryFits(k)
  BY <1>2, DeliveryFacts
<1>4. GoesOn(p, "arm", job[p].copy)
  BY <1>1, <1>2, JobAdvances DEF FInv
<1>5. e \in RelayEntry /\ e.kind = job[p].kind /\ e.copy = job[p].copy
  BY <1>3 DEF RelayEntry, DeliverJob, Kind
<1> HIDE DEF e
<1>6. /\ relay' \in [Key -> RelayEntry] /\ relay'[KeyOf(p)] = e
      /\ \A k \in Key \ {KeyOf(p)} : relay'[k] = relay[k]
  BY <1>1, <1>3, <1>5
<1>7. \A k \in Key : \/ relay'[k].copy = relay[k].copy
                     \/ k = KeyOf(p) /\ relay'[k].copy = job[p].copy
  BY <1>5, <1>6
<1>8. /\ job[p].kind = "file" <=> job[p].copy # NoPath
      /\ job[p].kind = "file" => job[p].copy \in disk
  BY <1>1, <1>2, <1>3 DEF DeliverFits, CopyIsNew
<1>9. ASSUME NEW k \in Key
      PROVE  EntryFits(k)'
  <2>1. CASE k = KeyOf(p)
    BY <1>1, <1>3, <1>5, <1>6, <1>8, <2>1 DEF EntryFits
  <2>2. CASE k # KeyOf(p)
    BY <1>1, <1>4, <1>6, <2>2, EntriesRest DEF GoesOn
  <2> QED
    BY <2>1, <2>2
<1>10. CopyIsNew(p)'
  BY <1>4 DEF CopyIsNew, GoesOn
<1>11. DeliverFits(p)'
  <2>1. UNCHANGED <<rows, home>>
    BY <1>1 DEF vars
  <2> QED
    BY <1>2, <1>3, <1>4, <1>8, <2>1 DEF DeliverFits, Ended, GoesOn
<1>12. job[p].copy \in File /\ disk' = disk
  BY <1>1, <1>3 DEF DeliverJob
<1> QED
  BY <1>1, <1>2, <1>4, <1>6, <1>7, <1>9, <1>10, <1>11, <1>12, DeliveryGoesOn

LEMMA ArmStep ==
    ASSUME FInv, NEW p \in Session, Arm(p)
    PROVE  FInv'
<1> DEFINE e == [relay[KeyOf(p)] EXCEPT !.ttl = (relay[KeyOf(p)].kind # "none")]
<1>1. /\ job[p].op = "arm"
      /\ relay' = [relay EXCEPT ![KeyOf(p)].ttl = (relay[KeyOf(p)].kind # "none")]
      /\ job' = [job EXCEPT ![p].op = "send"]
      /\ UNCHANGED <<vars, disk, draft, timers, sweep, faults, home, uploads, contested, mishaps>>
  BY DEF Arm, Advance, ghosts
<1>2. Delivers(p)
  BY <1>1 DEF Delivers
<1>3. /\ job[p] \in DeliverJob /\ KeyOf(p) \in Key /\ DeliverFits(p) /\ CopyIsNew(p)
      /\ relay \in [Key -> RelayEntry] /\ \A k \in Key : EntryFits(k)
  BY <1>2, DeliveryFacts
<1>4. GoesOn(p, "send", job[p].copy)
  BY <1>1, <1>2, JobAdvances DEF FInv
<1>5. /\ e \in RelayEntry
      /\ e.kind = relay[KeyOf(p)].kind /\ e.copy = relay[KeyOf(p)].copy
  BY <1>3 DEF RelayEntry
<1>6. relay' = [relay EXCEPT ![KeyOf(p)] = e]
  BY <1>1, <1>3
<1> HIDE DEF e
<1>7. /\ relay' \in [Key -> RelayEntry] /\ relay'[KeyOf(p)] = e
      /\ \A k \in Key \ {KeyOf(p)} : relay'[k] = relay[k]
  BY <1>3, <1>5, <1>6
<1>8. \A k \in Key : relay'[k].copy = relay[k].copy /\ relay'[k].kind = relay[k].kind
  BY <1>5, <1>7
<1>9. \A k \in Key : EntryFits(k)'
  BY <1>1, <1>4, <1>8, EntriesRest DEF GoesOn
<1>10. CopyIsNew(p)'
  BY <1>4 DEF CopyIsNew, GoesOn
<1>11. DeliverFits(p)'
  <2>1. UNCHANGED <<rows, home>>
    BY <1>1 DEF vars
  <2> QED
    BY <1>1, <1>2, <1>3, <1>4, <2>1 DEF DeliverFits, Ended, GoesOn
<1>12. job[p].copy \in File /\ disk' = disk
  BY <1>1, <1>3 DEF DeliverJob
<1> QED
  BY <1>1, <1>2, <1>4, <1>7, <1>8, <1>9, <1>10, <1>11, <1>12, DeliveryGoesOn

-----------------------------------------------------------------------------
(* The steps without a handler *)

LEMMA RelayExpiresStep ==
    ASSUME FInv, NEW k \in Key, RelayExpires(k)
    PROVE  FInv'
<1>1. /\ relay' = [relay EXCEPT ![k] = NoEntryCached]
      /\ UNCHANGED <<vars, disk, draft, job, timers, sweep, faults, home, uploads, contested, mishaps>>
  BY DEF RelayExpires, ghosts
<1>2. relay \in [Key -> RelayEntry] /\ NoEntryCached \in RelayEntry
  BY DEF FInv, FTypeOK, RelayEntry, NoEntryCached, File
<1>3. /\ relay' \in [Key -> RelayEntry]
      /\ \A l \in Key : relay'[l] = relay[l] \/ relay'[l] = NoEntryCached
  BY <1>1, <1>2
<1> QED
  BY <1>1, <1>3, NoHandlerStep

\* The copy of a timer that fires is in no entry, or the entry names another copy and spares it.
LEMMA TimerFiresStep ==
    ASSUME FInv, NEW t \in timers, TimerFires(t)
    PROVE  FInv'
<1>1. /\ timers' = timers \ {t}
      /\ disk' = IF relay[t[1]].kind = "none" THEN disk \ {t[2]} ELSE disk
      /\ UNCHANGED <<vars, draft, job, relay, sweep, faults, home, uploads, contested, mishaps>>
  BY DEF TimerFires, ghosts
<1>2. PICK k \in Key, c \in Path : t = <<k, c>>
  BY DEF FInv, FTypeOK
<1>3. t[1] = k /\ t[2] = c
  BY <1>2
<1>4. ASSUME NEW d \in disk, d \notin disk'
      PROVE  MayGo(d)
  <2>1. d = c /\ relay[k].kind = "none"
    BY <1>1, <1>3, <1>4
  <2>2. CopyOf(c, k) /\ <<k, c>> \in timers
    BY <1>2 DEF CopyOf
  <2>3. relay[k].copy = NoPath
    BY <2>1 DEF FInv, EntryFits, FTypeOK, RelayEntry
  <2>4. ASSUME NEW q \in Session, job'[q].op = "cache"
        PROVE  job'[q].copy # c
    <3>1. job[q].op = "cache"
      BY <1>1, <2>4
    <3> QED
      BY <1>1, <1>3, <3>1, NewCopyOwn
  <2> QED
    BY <1>1, <2>1, <2>2, <2>3, <2>4, NullAssumption DEF MayGo
<1>5. /\ relay' \in [Key -> RelayEntry]
      /\ \A l \in Key : relay'[l] = relay[l] \/ relay'[l] = NoEntryCached
  BY <1>1 DEF FInv, FTypeOK
<1> QED
  BY <1>1, <1>4, <1>5, NoHandlerStep

LEMMA SweepStep ==
    ASSUME FInv, Sweep
    PROVE  FInv'
<1>1. /\ disk' = disk \ sweep /\ sweep' = {}
      /\ UNCHANGED <<vars, draft, job, relay, timers, faults, home, uploads, contested, mishaps>>
  BY DEF Sweep, ghosts
<1>2. \A c \in disk : c \in disk' \/ MayGo(c)
  BY <1>1 DEF FInv, SweepFits, MayGo
<1>3. /\ relay' \in [Key -> RelayEntry]
      /\ \A l \in Key : relay'[l] = relay[l] \/ relay'[l] = NoEntryCached
  BY <1>1 DEF FInv, FTypeOK
<1> QED
  BY <1>1, <1>2, <1>3, NoHandlerStep

-----------------------------------------------------------------------------
(* Passing a secret on *)

LEMMA RelayBeginStep ==
    ASSUME FInv, NEW p \in Session, NEW s \in Secret, NEW u \in User, RelayBegin(p, s, u)
    PROVE  FInv'
<1> DEFINE k0 == <<s, u>>
           j == [op |-> "relay", secret |-> s, viewer |-> u, kind |-> relay[k0].kind,
                 cached |-> relay[k0].copy, copy |-> NoPath]
<1>1. /\ tx[p] = Idle /\ job[p] = NoJob /\ relay[k0].kind # "none"
      /\ job' = [job EXCEPT ![p] = j]
      /\ UNCHANGED <<vars, disk, draft, relay, timers, sweep, faults, home, uploads, contested,
                     mishaps>>
  BY DEF RelayBegin, Idles, ghosts
<1>2. /\ k0 \in Key /\ relay[k0] \in RelayEntry /\ EntryFits(k0)
      /\ job \in [Session -> {NoJob} \cup UnlinkJob \cup DeliverJob \cup RelayJob \cup DraftJob]
  BY DEF FInv, FTypeOK, Key
<1>3. /\ j \in RelayJob /\ j.op = "relay" /\ j.cached = relay[k0].copy /\ j.copy = NoPath
      /\ j.kind = relay[k0].kind /\ <<j.secret, j.viewer>> = k0
  BY <1>1, <1>2 DEF RelayJob, RelayEntry, File
<1> HIDE DEF j
<1>4. /\ job' \in [Session -> {NoJob} \cup UnlinkJob \cup DeliverJob \cup RelayJob \cup DraftJob]
      /\ job'[p] = j /\ \A q \in Session \ {p} : job'[q] = job[q]
  BY <1>1, <1>2, <1>3
<1>5. /\ Relays(p)' /\ ~Delivers(p)' /\ KeyOf(p)' = k0 /\ ~Delivers(p) /\ ~Relays(p)
      /\ \A c : ~Pending(c, p)'
      /\ \A q \in Session \ {p} : /\ Delivers(q)' <=> Delivers(q)
                                  /\ Relays(q)' <=> Relays(q)
                                  /\ KeyOf(q)' = KeyOf(q)
      /\ TakesShrink
  BY <1>1, <1>3, <1>4 DEF Delivers, Relays, KeyOf, Pending, NoJob, Takes, TakesShrink
<1>6. FTypeOK'
  BY <1>1, <1>4 DEF FInv, FTypeOK
<1>7. \A c \in Path : OneRole(c)'
  <2>1. ASSUME NEW c \in Path, NEW k \in Key, CopyOf(c, k)'
        PROVE  CopyOf(c, k)
    <3>1. CASE relay'[k].copy = c \/ <<k, c>> \in timers'
      BY <1>1, <3>1 DEF CopyOf
    <3>2. CASE \E q \in Session : Delivers(q)' /\ KeyOf(q)' = k /\ job'[q].copy = c
      BY <1>4, <1>5, <3>2 DEF CopyOf
    <3>3. CASE \E q \in Session : Relays(q)' /\ KeyOf(q)' = k /\ job'[q].cached = c
      BY <1>3, <1>4, <1>5, <3>3 DEF CopyOf
    <3> QED
      BY <2>1, <3>1, <3>2, <3>3 DEF CopyOf
  <2>2. \A c \in Path, q \in Session : Pending(c, q)' => Pending(c, q)
    BY <1>4, <1>5 DEF Pending
  <2> QED
    BY <1>1, <1>5, <2>1, <2>2, RolesShrink DEF TakesShrink
<1>8. \A c \in disk : c \in disk' \/ MayGo(c)
  BY <1>1
<1>9. ASSUME NEW q \in Session
      PROVE  CopyIsNew(q)'
  <2>1. CASE q = p
    BY <1>3, <1>4, <2>1 DEF CopyIsNew
  <2>2. CASE q # p
    <3>1. \A k \in Key : \/ relay'[k].copy = relay[k].copy \/ relay'[k].copy = NoPath
                         \/ p # q /\ Delivers(p) /\ relay'[k].copy = job[p].copy
      BY <1>1
    <3>2. \A t \in timers' : t \in timers \/ (p # q /\ Delivers(p) /\ t[2] = job[p].copy)
      BY <1>1
    <3>3. \E k \in Key : job'[p].cached = relay[k].copy
      BY <1>2, <1>3, <1>4
    <3> QED
      BY <1>1, <1>4, <1>5, <1>6, <1>8, <2>2, <3>1, <3>2, <3>3, NewCopyStays
  <2> QED
    BY <2>1, <2>2
<1>10. ASSUME NEW q \in Session
       PROVE  DeliverFits(q)' /\ RelayFits(q)' /\ UnlinkFits(q)' /\ DraftFits(q)'
  <2>1. DeliverFits(p)' /\ RelayFits(p)' /\ UnlinkFits(p)' /\ DraftFits(p)'
    BY <1>2, <1>3, <1>4, <1>5 DEF DeliverFits, RelayFits, UnlinkFits, DraftFits, EntryFits
  <2> QED
    BY <1>1, <1>4, <1>8, <2>1, JobStays DEF vars
<1>11. \A k \in Key : EntryFits(k)'
  BY <1>1, <1>4, EntriesRest DEF NoJob
<1>12. \A q \in Session : tx[q] # Idle => job'[q] = NoJob
  BY <1>1, <1>4 DEF FInv, TxFits
<1>13. \A x \in Secret : LastFits(x)'
  BY <1>1, <1>4, <1>5, LastStays DEF vars
<1>14. MishapsKept /\ DraftsKnown'
  BY <1>1 DEF MishapsKept, DraftsKnown, FInv
<1> QED
  BY <1>1, <1>6, <1>7, <1>8, <1>9, <1>10, <1>11, <1>12, <1>13, <1>14, FileStep

\* A relay goes on to its insertion, with a file of its own if it passes on a file.
LEMMA RelayGoesOn ==
    ASSUME FInv, NEW p \in Session, job[p].op = "relay", NEW f \in File,
           GoesOn(p, "relay_insert", f),
           \/ job[p].kind = "text" /\ f = NoPath /\ disk' = disk
           \/ job[p].kind = "file" /\ f \in Fresh /\ disk' = disk \cup {f},
           UNCHANGED <<vars, home, relay, timers, sweep, faults, mishaps, draft, uploads, contested>>
    PROVE  FInv'
<1>1. UNCHANGED <<rows, tx>>
  BY DEF vars
<1>2. /\ Relays(p) /\ ~Delivers(p) /\ job[p] # NoJob
      /\ \A c : ~Pending(c, p)
  BY DEF Relays, Delivers, NoJob, Pending
<1>3. /\ job' \in [Session -> {NoJob} \cup UnlinkJob \cup DeliverJob \cup RelayJob \cup DraftJob]
      /\ \A q \in Session \ {p} : job'[q] = job[q]
      /\ job'[p].op = "relay_insert" /\ job'[p].copy = f
      /\ job'[p].secret = job[p].secret /\ job'[p].viewer = job[p].viewer
      /\ job'[p].kind = job[p].kind /\ job'[p].cached = job[p].cached
  BY <1>2 DEF GoesOn
<1>4. /\ Relays(p)' /\ ~Delivers(p)' /\ KeyOf(p)' = KeyOf(p)
      /\ \A q \in Session \ {p} : /\ Delivers(q)' <=> Delivers(q)
                                  /\ Relays(q)' <=> Relays(q)
                                  /\ KeyOf(q)' = KeyOf(q)
      /\ TakesShrink
  BY <1>3 DEF Delivers, Relays, KeyOf, Takes, TakesShrink
<1>5. disk \subseteq disk' /\ disk' \subseteq disk \cup Fresh /\ disk' \subseteq Path
  BY DEF FInv, FTypeOK, Fresh
<1>6. FTypeOK'
  BY <1>3, <1>5 DEF FInv, FTypeOK
<1>7. ASSUME NEW c, NEW k \in Key, CopyOf(c, k)'
      PROVE  CopyOf(c, k)
  <2>1. CASE relay'[k].copy = c \/ <<k, c>> \in timers'
    BY <2>1 DEF CopyOf
  <2>2. CASE \E q \in Session : Delivers(q)' /\ KeyOf(q)' = k /\ job'[q].copy = c
    BY <1>3, <1>4, <2>2 DEF CopyOf
  <2>3. CASE \E q \in Session : Relays(q)' /\ KeyOf(q)' = k /\ job'[q].cached = c
    BY <1>2, <1>3, <1>4, <2>3 DEF CopyOf
  <2> QED
    BY <1>7, <2>1, <2>2, <2>3 DEF CopyOf
<1>8. ASSUME NEW c, NEW q \in Session, Pending(c, q)'
      PROVE  Pending(c, q) \/ (q = p /\ c = f)
  BY <1>3, <1>8 DEF Pending
<1>9. \A c \in Path : OneRole(c)'
  <2>1. CASE f = NoPath
    <3>1. \A c \in Path, q \in Session : Pending(c, q)' => Pending(c, q)
      BY <1>8, <2>1, NullAssumption
    <3> QED
      BY <1>4, <1>7, <3>1, RolesShrink DEF TakesShrink
  <2>2. CASE f \in Fresh
    <3>1. /\ \A k \in Key : ~CopyOf(f, k)
          /\ \A q \in Session : ~Pending(f, q)
      BY <2>2, FreshName
    <3>2. /\ \A k \in Key : ~CopyOf(f, k)'
          /\ \A q \in Session : Pending(f, q)' => q = p
      BY <1>7, <1>8, <3>1
    <3>3. /\ \A c \in Path \ {f}, k \in Key : CopyOf(c, k)' => CopyOf(c, k)
          /\ \A c \in Path \ {f}, q \in Session : Pending(c, q)' => Pending(c, q)
      BY <1>7, <1>8
    <3> QED
      BY <1>4, <2>2, <3>2, <3>3, RolesFresh
  <2> QED
    BY <2>1, <2>2
<1>10. \A c \in disk : c \in disk' \/ MayGo(c)
  BY <1>5
<1>11. ASSUME NEW q \in Session
       PROVE  CopyIsNew(q)'
  <2>1. CASE q = p
    BY <1>3, <2>1 DEF CopyIsNew
  <2>2. CASE q # p
    <3>1. \A k \in Key : \/ relay'[k].copy = relay[k].copy \/ relay'[k].copy = NoPath
                         \/ p # q /\ Delivers(p) /\ relay'[k].copy = job[p].copy
      OBVIOUS
    <3>2. \A t \in timers' : t \in timers \/ (p # q /\ Delivers(p) /\ t[2] = job[p].copy)
      OBVIOUS
    <3> QED
      BY <1>2, <1>3, <1>4, <1>6, <1>10, <2>2, <3>1, <3>2, NewCopyStays
  <2> QED
    BY <2>1, <2>2
<1>12. ASSUME NEW q \in Session
       PROVE  DeliverFits(q)' /\ RelayFits(q)' /\ UnlinkFits(q)' /\ DraftFits(q)'
  <2>1. RelayFits(p)'
    <3>1. job[p].kind = "file" <=> job[p].cached # NoPath
      BY <1>2 DEF FInv, RelayFits
    <3>2. (job[p].kind = "file" <=> f # NoPath) /\ (f # NoPath => f \in disk')
      BY FreshName
    <3> QED
      BY <1>3, <3>1, <3>2 DEF RelayFits
  <2>2. DeliverFits(p)' /\ UnlinkFits(p)' /\ DraftFits(p)'
    BY <1>3, <1>4 DEF DeliverFits, UnlinkFits, DraftFits
  <2> QED
    BY <1>1, <1>3, <1>10, <2>1, <2>2, JobStays
<1>13. \A k \in Key : EntryFits(k)'
  BY <1>3, <1>5, EntriesRest
<1>14. \A q \in Session : tx[q] # Idle => job'[q] = NoJob
  BY <1>2, <1>3 DEF FInv, TxFits
<1>15. \A s \in Secret : LastFits(s)'
  BY <1>1, <1>2, <1>3, <1>5, LastStays
<1>16. MishapsKept /\ DraftsKnown'
  BY DEF MishapsKept, DraftsKnown, FInv
<1> QED
  BY <1>6, <1>9, <1>10, <1>11, <1>12, <1>13, <1>14, <1>15, <1>16, FileStep

LEMMA RelayCloneStep ==
    ASSUME FInv, NEW p \in Session, RelayClone(p)
    PROVE  FInv'
<1>1. /\ job[p].op = "relay"
      /\ UNCHANGED <<vars, draft, relay, timers, sweep, faults, home, uploads, contested, mishaps>>
  BY DEF RelayClone, ghosts
<1>2. Relays(p) /\ ~Delivers(p) /\ job[p] # NoJob /\ RelayFits(p)
  BY <1>1 DEF FInv, Relays, Delivers, NoJob
<1>3. CASE job[p].kind = "text" /\ Advance(p, "relay_insert") /\ UNCHANGED disk
  <2>1. job[p].copy = NoPath /\ NoPath \in File
    BY <1>1, <1>2 DEF RelayFits, File
  <2>2. GoesOn(p, "relay_insert", job[p].copy)
    BY <1>2, <1>3, JobAdvances DEF FInv, Advance
  <2>3. GoesOn(p, "relay_insert", NoPath)
    BY <2>1, <2>2
  <2> QED
    BY <1>1, <1>3, <2>1, <2>3, RelayGoesOn
<1>4. ASSUME job[p].kind = "file", NEW f \in Fresh, disk' = disk \cup {f},
             job' = [job EXCEPT ![p].op = "relay_insert", ![p].copy = f]
      PROVE  FInv'
  <2>1. f \in File
    BY <1>4, FreshName DEF File
  <2>2. GoesOn(p, "relay_insert", f)
    BY <1>2, <1>4, <2>1, JobCopies DEF FInv
  <2> QED
    BY <1>1, <1>4, <2>1, <2>2, RelayGoesOn
<1>5. CASE job' = [job EXCEPT ![p] = NoJob] /\ UNCHANGED disk
  <2>1. /\ relay' \in [Key -> RelayEntry] /\ timers' \subseteq (Key \X Path)
        /\ faults' \in 0..MaxFaults
        /\ job \in [Session -> {NoJob} \cup UnlinkJob \cup DeliverJob \cup RelayJob \cup DraftJob]
    BY <1>1 DEF FInv, FTypeOK
  <2>2. MishapsKept /\ DropsGoOn
    BY <1>1, <1>5, <2>1 DEF MishapsKept, DropsGoOn
  <2> QED
    BY <1>1, <1>2, <1>5, <2>1, <2>2, JobEnds
<1> QED
  BY <1>3, <1>4, <1>5 DEF RelayClone

\* The copy goes before its entry, which is the one of this relay's key.
LEMMA RelayUnlinkStep ==
    ASSUME FInv, NEW p \in Session, RelayUnlink(p)
    PROVE  FInv'
<1>1. /\ job[p].op = "relay_drop"
      /\ disk' = disk \ {job[p].cached}
      /\ job' = [job EXCEPT ![p].op = "relay_del"]
      /\ UNCHANGED <<vars, rows, tx, draft, relay, timers, sweep, faults, home, uploads, contested,
                     mishaps>>
  BY DEF RelayUnlink, Advance, ghosts, vars
<1>2. /\ Relays(p) /\ ~Delivers(p) /\ job[p] # NoJob /\ KeyOf(p) \in Key
      /\ RelayFits(p)
  BY <1>1, JobTypes DEF FInv, Relays, Delivers, NoJob
<1>3. GoesOn(p, "relay_del", job[p].copy)
  BY <1>1, <1>2, JobAdvances DEF FInv
<1>4. /\ job' \in [Session -> {NoJob} \cup UnlinkJob \cup DeliverJob \cup RelayJob \cup DraftJob]
      /\ \A q \in Session \ {p} : job'[q] = job[q]
      /\ job'[p].op = "relay_del" /\ job'[p].copy = job[p].copy
      /\ job'[p].secret = job[p].secret /\ job'[p].viewer = job[p].viewer
      /\ job'[p].kind = job[p].kind /\ job'[p].cached = job[p].cached
  BY <1>2, <1>3 DEF GoesOn
<1>5. /\ Relays(p)' /\ ~Delivers(p)' /\ KeyOf(p)' = KeyOf(p)
      /\ \A c : ~Pending(c, p)'
      /\ \A q \in Session \ {p} : /\ Delivers(q)' <=> Delivers(q)
                                  /\ Relays(q)' <=> Relays(q)
                                  /\ KeyOf(q)' = KeyOf(q)
      /\ TakesShrink
  BY <1>4 DEF Delivers, Relays, KeyOf, Pending, Takes, TakesShrink
<1>6. FTypeOK' /\ disk' \subseteq disk
  BY <1>1, <1>4 DEF FInv, FTypeOK
<1>7. \A c \in Path : OneRole(c)'
  <2>1. ASSUME NEW c \in Path, NEW k \in Key, CopyOf(c, k)'
        PROVE  CopyOf(c, k)
    <3>1. CASE relay'[k].copy = c \/ <<k, c>> \in timers'
      BY <1>1, <3>1 DEF CopyOf
    <3>2. CASE \E q \in Session : Delivers(q)' /\ KeyOf(q)' = k /\ job'[q].copy = c
      BY <1>4, <1>5, <3>2 DEF CopyOf
    <3>3. CASE \E q \in Session : Relays(q)' /\ KeyOf(q)' = k /\ job'[q].cached = c
      BY <1>2, <1>4, <1>5, <3>3 DEF CopyOf
    <3> QED
      BY <2>1, <3>1, <3>2, <3>3 DEF CopyOf
  <2>2. \A c \in Path, q \in Session : Pending(c, q)' => Pending(c, q)
    BY <1>4, <1>5 DEF Pending
  <2> QED
    BY <1>1, <1>5, <2>1, <2>2, RolesShrink DEF TakesShrink
<1>8. \A c \in disk : c \in disk' \/ MayGo(c)
  <2> SUFFICES ASSUME NEW c \in disk, c \notin disk'
               PROVE  MayGo(c)
    OBVIOUS
  <2>1. c = job[p].cached /\ c \in Path
    BY <1>1 DEF FInv, FTypeOK
  <2>2. PICK k \in Key : k = KeyOf(p)
    BY <1>2
  <2>3. CopyOf(c, k) /\ Dropping(p, k, c)'
    BY <1>2, <1>4, <1>5, <2>1, <2>2 DEF CopyOf, Dropping
  <2>4. ASSUME NEW q \in Session, job'[q].op = "cache"
        PROVE  job'[q].copy # c
    <3>1. q # p /\ job'[q] = job[q]
      BY <1>4, <2>4
    <3> QED
      BY <1>2, <2>1, <2>4, <3>1, NewCopyOwn
  <2> QED
    BY <2>3, <2>4 DEF MayGo
<1>9. ASSUME NEW q \in Session
      PROVE  CopyIsNew(q)'
  <2>1. CASE q = p
    BY <1>4, <2>1 DEF CopyIsNew
  <2>2. CASE q # p
    <3>1. /\ \A k \in Key : relay'[k].copy = relay[k].copy
          /\ \A t \in timers' : t \in timers
      BY <1>1
    <3> QED
      BY <1>1, <1>2, <1>4, <1>5, <1>6, <1>8, <2>2, <3>1, NewCopyStays
  <2> QED
    BY <2>1, <2>2
<1>10. ASSUME NEW q \in Session
       PROVE  DeliverFits(q)' /\ RelayFits(q)' /\ UnlinkFits(q)' /\ DraftFits(q)'
  <2>1. DeliverFits(p)' /\ RelayFits(p)' /\ UnlinkFits(p)' /\ DraftFits(p)'
    BY <1>2, <1>4, <1>5 DEF DeliverFits, RelayFits, UnlinkFits, DraftFits
  <2> QED
    BY <1>1, <1>4, <1>8, <2>1, JobStays
<1>11. \A k \in Key : EntryFits(k)'
  <2>1. DropsGoOn
    BY <1>1, <1>4 DEF DropsGoOn
  <2> QED
    BY <1>1, <1>8, <2>1, EntriesStay
<1>12. \A q \in Session : tx[q] # Idle => job'[q] = NoJob
  BY <1>2, <1>4 DEF FInv, TxFits
<1>13. \A s \in Secret : LastFits(s)'
  BY <1>1, <1>2, <1>4, <1>6, LastStays
<1>14. MishapsKept /\ DraftsKnown'
  BY <1>1 DEF MishapsKept, DraftsKnown, FInv
<1> QED
  BY <1>1, <1>6, <1>7, <1>8, <1>9, <1>10, <1>11, <1>12, <1>13, <1>14, FileStep

-----------------------------------------------------------------------------
(* The steps of the store *)

\* A row that can be read is open or has ended.
LEMMA OpenOrEnded ==
    ASSUME IInv, NEW s \in Secret, rows[s].status # "absent"
    PROVE  IsActive(rows[s]) \/ Ended(s)
BY DEF IInv, TypeOK, Row, Status, IsActive, Ended

LEMMA EndedStays ==
    ASSUME NEW s \in Secret, RowMoves(s), Ended(s)
    PROVE  Ended(s)' /\ rows'[s] = rows[s]
BY DEF RowMoves, Ended

LEMMA RowsRest ==
    ASSUME UNCHANGED rows
    PROVE  \A s \in Secret : RowMoves(s)
BY DEF RowMoves, Overdue

\* An open secret stays open, with its file and owner, or ends.
LEMMA OpenMoves ==
    ASSUME IInv', NEW s \in Secret, RowMoves(s), IsActive(rows[s])
    PROVE  /\ Ended(s)' \/ IsActive(rows'[s])
           /\ rows'[s].creator = rows[s].creator /\ rows'[s].kind = rows[s].kind
           /\ IsActive(rows'[s]) => rows'[s].path = rows[s].path
           /\ \A x \in Nat : Overdue(rows[s], x) => Overdue(rows'[s], x)
<1>1. rows'[s] \in Row /\ rows'[s].status # "absent"
  BY DEF IInv, TypeOK, RowMoves, IsActive
<1> QED
  BY <1>1 DEF RowMoves, IsActive, Ended, Row, Status

LEMMA TxStays ==
    ASSUME FInv, IInv', UNCHANGED home, \A s \in Secret : RowMoves(s),
           NEW q \in Session, tx'[q] = tx[q], tx[q] # Idle => job'[q] = NoJob
    PROVE  TxFits(q)'
<1>1. TxFits(q)
  BY DEF FInv
<1>2. ASSUME NEW s \in Secret, NEW u,
             Ended(s) \/ (IsActive(rows[s]) /\ rows[s].creator = u)
      PROVE  Ended(s)' \/ (IsActive(rows'[s]) /\ rows'[s].creator = u)
  BY <1>2, EndedStays, OpenMoves
<1>3. ASSUME tx[q].op = "panic", NEW c \in tx[q].paths
      PROVE  \E s \in Secret : /\ home[s] = c
                               /\ Ended(s)' \/ (IsActive(rows'[s]) /\ rows'[s].creator = tx[q].user)
  <2>1. PICK s \in Secret :
            home[s] = c /\ (Ended(s) \/ (IsActive(rows[s]) /\ rows[s].creator = tx[q].user))
    BY <1>1, <1>3 DEF TxFits
  <2>2. Ended(s)' \/ (IsActive(rows'[s]) /\ rows'[s].creator = tx[q].user)
    BY <1>2, <2>1
  <2> QED
    BY <2>1, <2>2
<1>4. ASSUME tx[q].op = "panic_update", NEW c \in tx[q].paths
      PROVE  \E s \in Secret :
                 /\ home[s] = c
                 /\ Ended(s)' \/ (/\ IsActive(rows'[s]) /\ rows'[s].creator = tx[q].user
                                  /\ s \in tx[q].targets)
  <2>1. PICK s \in Secret :
            /\ home[s] = c
            /\ Ended(s) \/ (/\ IsActive(rows[s]) /\ rows[s].creator = tx[q].user
                            /\ s \in tx[q].targets)
    BY <1>1, <1>4 DEF TxFits
  <2>2. Ended(s)' \/ (IsActive(rows'[s]) /\ rows'[s].creator = tx[q].user)
    BY <1>2, <2>1
  <2>3. Ended(s) => Ended(s)'
    BY EndedStays
  <2> QED
    BY <2>1, <2>2, <2>3
<1> QED
  BY <1>1, <1>3, <1>4 DEF TxFits

LEMMA WorkerStays ==
    ASSUME FInv, IInv', UNCHANGED <<home, worker>>, \A s \in Secret : RowMoves(s), now <= now'
    PROVE  WorkerFits'
<1>1. now \in Nat /\ now' \in Nat /\ worker \in {Idle} \cup ExpireTx /\ WorkerFits
  BY DEF FInv, IInv, TypeOK
<1>2. ASSUME NEW s \in Secret, NEW x \in Nat, NEW y \in Nat, x <= y,
             Ended(s) \/ (IsActive(rows[s]) /\ Overdue(rows[s], x))
      PROVE  Ended(s)' \/ (IsActive(rows'[s]) /\ Overdue(rows'[s], y))
  <2>1. CASE Ended(s)
    BY <2>1, EndedStays
  <2>2. CASE IsActive(rows[s]) /\ Overdue(rows[s], x)
    <3>1. Ended(s)' \/ (IsActive(rows'[s]) /\ Overdue(rows'[s], x))
      BY <2>2, OpenMoves
    <3>2. rows'[s] \in Row
      BY DEF IInv, TypeOK
    <3> QED
      BY <1>2, <3>1, <3>2 DEF Overdue, Row, Time
  <2> QED
    BY <1>2, <2>1, <2>2
<1>3. ASSUME worker.op = "expire", NEW c \in worker.paths
      PROVE  \E s \in Secret : home[s] = c /\ (Ended(s)' \/ (IsActive(rows'[s]) /\ Overdue(rows'[s], now')))
  BY <1>1, <1>2, <1>3 DEF WorkerFits
<1>4. ASSUME worker.op = "expire_update", NEW c \in worker.paths
      PROVE  \E s \in Secret :
                 /\ home[s] = c
                 /\ Ended(s)' \/ (/\ IsActive(rows'[s]) /\ Overdue(rows'[s], worker.cutoff)
                                  /\ s \in worker.targets)
  <2>1. PICK s \in Secret :
            /\ home[s] = c
            /\ Ended(s) \/ (/\ IsActive(rows[s]) /\ Overdue(rows[s], worker.cutoff)
                            /\ s \in worker.targets)
    BY <1>1, <1>4 DEF WorkerFits
  <2>2. worker.cutoff \in Nat
    BY <1>1, <1>4 DEF ExpireTx, Idle
  <2>3. Ended(s)' \/ (IsActive(rows'[s]) /\ Overdue(rows'[s], worker.cutoff))
    BY <1>2, <2>1, <2>2
  <2>4. Ended(s) => Ended(s)'
    BY EndedStays
  <2> QED
    BY <2>1, <2>3, <2>4
<1> QED
  BY <1>3, <1>4 DEF WorkerFits

LEMMA SweepStays ==
    ASSUME FInv, UNCHANGED home, \A s \in Secret : RowMoves(s), sweep' \subseteq sweep
    PROVE  SweepFits'
BY EndedStays DEF FInv, SweepFits, EndedHome

\* A secret that ended with its last view is one already, unless this step ends it so.
LEMMA LastKept ==
    ASSUME FInv, UNCHANGED <<home, disk, faults>>,
           NEW s \in Secret, RowMoves(s),
           rows'[s].reason = "view_limit" => rows[s].reason = "view_limit",
           \A q \in Session : job'[q] = job[q] \/ job[q] = NoJob
    PROVE  LastFits(s)'
<1> SUFFICES ASSUME faults = 0, rows'[s].kind = "file", rows'[s].reason = "view_limit"
             PROVE  \/ home[s] \notin disk
                    \/ \E p \in Session : Delivers(p)' /\ job'[p].secret = s /\ job'[p].last
  BY DEF LastFits
<1>1. rows[s].reason = "view_limit" /\ rows[s] \in Row /\ RowAgrees(rows[s], ledger[s])
  BY DEF FInv, IInv, TypeOK
<1>2. Ended(s)
  BY <1>1 DEF RowAgrees, LedgerAgrees, AbsentRow, IsActive, Ended, Row, Status
<1>3. rows'[s] = rows[s]
  BY <1>2, EndedStays
<1>4. \/ home[s] \notin disk
      \/ \E p \in Session : Delivers(p) /\ job[p].secret = s /\ job[p].last
  BY <1>1, <1>3 DEF FInv, LastFits
<1>5. \A p \in Session : Delivers(p) => job'[p] = job[p]
  BY DEF Delivers, NoJob
<1> QED
  BY <1>4, <1>5 DEF Delivers

\* The job a handler starts with after its commit.
Starts(q) ==
    \/ job'[q] = NoJob
    \/ job'[q] \in UnlinkJob
    \/ job'[q] \in DeliverJob /\ job'[q].op = "start" /\ job'[q].copy = NoPath

\* What remains of the invariant when the files, entries and timers rest.
LEMMA StoreStep ==
    ASSUME FInv, IInv', UNCHANGED <<disk, draft, relay, timers, faults, ghosts>>,
           \A s \in Secret : RowMoves(s), sweep' \subseteq Path,
           job' \in [Session -> {NoJob} \cup UnlinkJob \cup DeliverJob \cup RelayJob \cup DraftJob],
           \A q \in Session :
               \/ job'[q] = job[q]
               \/ job[q] = NoJob /\ Starts(q) /\ DeliverFits(q)' /\ UnlinkFits(q)',
           \A q \in Session : TxFits(q)',
           WorkerFits', SweepFits', \A s \in Secret : LastFits(s)'
    PROVE  FInv'
<1>0. UNCHANGED <<home, uploads, contested, mishaps>>
  BY DEF ghosts
<1>1. FTypeOK'
  BY <1>0 DEF FInv, FTypeOK
<1>2. ASSUME NEW q \in Session, job'[q] # job[q]
      PROVE  /\ job[q] = NoJob /\ ~Relays(q)' /\ \A c : ~Pending(c, q)' /\ ~Takes(q, c)'
             /\ job'[q].op \notin {"cache", "edit", "finalize", "drop", "clear"}
             /\ Delivers(q)' => job'[q].copy = NoPath
  BY <1>2 DEF Starts, Relays, Pending, Takes, Delivers, NoJob, UnlinkJob, DeliverJob
<1>3. ASSUME NEW q \in Session, job'[q] = job[q]
      PROVE  /\ Relays(q)' <=> Relays(q)
             /\ Delivers(q)' <=> Delivers(q)
             /\ KeyOf(q)' = KeyOf(q)
  BY <1>3 DEF Relays, Delivers, KeyOf
<1>4. \A c \in Path : OneRole(c)'
  <2>1. ASSUME NEW c \in Path, NEW k \in Key, CopyOf(c, k)'
        PROVE  CopyOf(c, k)
    <3>1. CASE relay'[k].copy = c \/ <<k, c>> \in timers'
      BY <3>1 DEF CopyOf
    <3>2. CASE \E q \in Session : Delivers(q)' /\ KeyOf(q)' = k /\ job'[q].copy = c
      <4>1. PICK q \in Session : Delivers(q)' /\ KeyOf(q)' = k /\ job'[q].copy = c
        BY <3>2
      <4>2. job'[q] = job[q]
        BY <1>2, <2>1, <4>1, NullAssumption
      <4> QED
        BY <1>3, <4>1, <4>2 DEF CopyOf
    <3>3. CASE \E q \in Session : Relays(q)' /\ KeyOf(q)' = k /\ job'[q].cached = c
      BY <1>2, <1>3, <3>3 DEF CopyOf
    <3> QED
      BY <2>1, <3>1, <3>2, <3>3 DEF CopyOf
  <2>2. \A c \in Path, q \in Session : Pending(c, q)' => Pending(c, q)
    BY <1>2 DEF Pending
  <2>3. \A c \in Path, q \in Session : Takes(q, c)' => Takes(q, c)
    BY <1>2 DEF Takes
  <2> QED
    BY <1>0, <2>1, <2>2, <2>3, RolesShrink
<1>5. ASSUME NEW q \in Session
      PROVE  CopyIsNew(q)'
  <2>1. CASE job'[q] # job[q]
    BY <1>2, <2>1 DEF CopyIsNew
  <2>2. CASE job'[q] = job[q] /\ job[q].op = "cache" /\ job[q].kind = "file"
    <3> DEFINE c == job[q].copy
    <3>1. /\ c \in disk /\ c # NoPath
          /\ \A k \in Key : relay[k].copy # c
          /\ \A t \in timers : t[2] # c
          /\ \A r \in Session \ {q} : Delivers(r) => job[r].copy # c
          /\ \A r \in Session : Relays(r) => job[r].cached # c
      BY <2>2 DEF FInv, CopyIsNew, DeliverFits, Delivers
    <3>2. \A r \in Session \ {q} : Delivers(r)' => job'[r].copy # c
      BY <1>2, <1>3, <3>1
    <3>3. \A r \in Session : Relays(r)' => job'[r].cached # c
      BY <1>2, <1>3, <3>1
    <3>4. job'[q].copy = c
      BY <2>2
    <3> HIDE DEF c
    <3> QED
      BY <3>1, <3>2, <3>3, <3>4 DEF CopyIsNew
  <2>3. CASE job'[q] = job[q] /\ ~(job[q].op = "cache" /\ job[q].kind = "file")
    BY <2>3 DEF CopyIsNew
  <2> QED
    BY <2>1, <2>2, <2>3
<1>6. ASSUME NEW q \in Session
      PROVE  DeliverFits(q)' /\ RelayFits(q)' /\ UnlinkFits(q)' /\ DraftFits(q)'
  <2>1. CASE job'[q] # job[q]
    BY <1>2, <2>1 DEF RelayFits, DraftFits
  <2>2. CASE job'[q] = job[q]
    <3>1. DeliverFits(q) /\ RelayFits(q) /\ UnlinkFits(q) /\ DraftFits(q)
      BY DEF FInv
    <3>2. DeliverFits(q)'
      <4> SUFFICES ASSUME Delivers(q)
                   PROVE  DeliverFits(q)'
        BY <1>3, <2>2 DEF DeliverFits
      <4>0. job[q].secret \in Secret /\ rows[job[q].secret].status # "absent"
        BY <3>1, JobTypes DEF FInv, DeliverFits, DeliverJob
      <4>1. PICK s \in Secret : s = job[q].secret /\ rows[s].status # "absent"
        BY <4>0
      <4>2. rows'[s].status # "absent" /\ rows'[s].kind = rows[s].kind
        <5>1. CASE Ended(s)
          BY <4>1, <5>1, EndedStays
        <5>2. CASE IsActive(rows[s])
          BY <4>1, <5>2 DEF RowMoves
        <5> QED
          BY <4>1, <5>1, <5>2, OpenOrEnded DEF FInv
      <4>3. Ended(s) => Ended(s)'
        BY <4>1, EndedStays
      <4>4. /\ job'[q].secret = s /\ job'[q].kind = job[q].kind /\ job'[q].file = job[q].file
            /\ job'[q].last = job[q].last /\ job'[q].op = job[q].op
            /\ job'[q].copy = job[q].copy /\ home'[s] = home[s]
        BY <1>0, <2>2, <4>1
      <4>5. /\ job[q].kind = rows[s].kind
            /\ job[q].kind = "file" => job[q].file \in Path /\ job[q].file = home[s]
            /\ job[q].last => Ended(s)
            /\ job[q].op = "clone" => job[q].kind = "file"
            /\ job[q].op \in {"start", "clone"} => job[q].copy = NoPath
            /\ job[q].op \in {"cache", "arm", "send"} =>
                   (job[q].kind = "file" <=> job[q].copy # NoPath)
        BY <3>1, <4>1 DEF DeliverFits
      <4>6. job'[q].last => Ended(job[q].secret)'
        BY <4>3, <4>4, <4>5 DEF Ended
      <4> QED
        BY <4>2, <4>4, <4>5, <4>6 DEF DeliverFits
    <3>3. RelayFits(q)'
      BY <1>3, <2>2, <3>1 DEF RelayFits
    <3>4. UnlinkFits(q)'
      BY <1>0, <2>2, <3>1, EndedStays DEF UnlinkFits, EndedHome
    <3>5. DraftFits(q)'
      BY <1>0, <2>2, <3>1 DEF DraftFits
    <3> QED
      BY <3>2, <3>3, <3>4, <3>5
  <2> QED
    BY <2>1, <2>2
<1>7. ASSUME NEW k \in Key
      PROVE  EntryFits(k)'
  <2>1. EntryFits(k)
    BY DEF FInv
  <2>2. ASSUME NEW q \in Session, Dropping(q, k, relay[k].copy)
        PROVE  Dropping(q, k, relay[k].copy)'
    <3>1. job'[q] = job[q]
      BY <1>2, <2>2 DEF Dropping, NoJob
    <3> QED
      BY <2>2, <3>1 DEF Dropping, KeyOf
  <2> QED
    BY <1>0, <2>1, <2>2 DEF EntryFits
<1>8. ASSUME NEW s \in Secret
      PROVE  HomeFits(s)'
  <2>1. HomeFits(s)
    BY DEF FInv
  <2>2. rows'[s].status = "absent" => home[s] = NoPath
    BY <2>1 DEF HomeFits, RowMoves
  <2>3. ASSUME IsActive(rows'[s])
        PROVE  /\ rows'[s].path = home[s]
               /\ home[s] \notin contested \cup {NoPath} => home[s] \in disk
    <3>1. ~Ended(s)
      BY <2>3, EndedStays DEF IsActive, Ended
    <3>2. IsActive(rows[s])
      BY <2>3, <3>1, OpenOrEnded DEF RowMoves, IsActive, FInv
    <3> QED
      BY <2>1, <2>3, <3>2 DEF HomeFits, RowMoves
  <2>4. ~Ended(s)' /\ home[s] \notin contested => <<"missing", s>> \notin mishaps
    BY <2>1, EndedStays DEF HomeFits
  <2> QED
    BY <1>0, <2>2, <2>3, <2>4 DEF HomeFits
<1>9. DraftsKnown' /\ MishapsFit'
  BY <1>0 DEF FInv, DraftsKnown, MishapsFit
<1> QED
  BY <1>1, <1>4, <1>5, <1>6, <1>7, <1>8, <1>9 DEF FInv

\* A transaction begins or goes on, no row changes.
LEMMA FSessionStep ==
    ASSUME FInv, NEW p \in Session, FSession(p)
    PROVE  FInv'
<1>1. /\ job[p] = NoJob /\ UNCHANGED fvars
      /\ UNCHANGED <<disk, draft, job, relay, timers, sweep, faults, home, ghosts>>
  BY DEF FSession, fvars, ghosts
<1>2. /\ UNCHANGED <<rows, now, worker>>
      /\ \A q \in Session \ {p} : tx'[q] = tx[q]
  <2>1. tx \in [Session -> {Idle} \cup RowTx \cup PanicTx]
    BY DEF FInv, IInv, TypeOK
  <2> QED
    BY <2>1 DEF FSession, ConsumeExpired, ConsumeDenied, ConsumeGranted, DestroyOwned, Decide,
                PanicSelect, PanicUpdate, Abort
<1>3. IInv'
  <2>1. [FNext]_allvars
    BY DEF FNext, Handler
  <2> QED
    BY <2>1, StoreKept DEF FInv
<1>4. \A s \in Secret : RowMoves(s)
  BY <1>2, RowsRest
<1>5. TxFits(p)'
  <2> SUFFICES ASSUME tx'[p] # Idle
               PROVE  TxFits(p)'
    BY DEF TxFits, Idle
  <2>1. tx \in [Session -> {Idle} \cup RowTx \cup PanicTx] /\ job'[p] = NoJob
        /\ rows \in [Secret -> Row] /\ now \in Nat /\ ledger \in [Secret -> Entry]
    BY <1>1 DEF FInv, IInv, TypeOK
  <2>2. ASSUME NEW s \in Secret, NEW row, NEW viewer, NEW paths, Decide(p, s, row, viewer, paths),
               \/ paths = {}
               \/ /\ paths = PathsOf({s}) /\ IsActive(rows[s])
                  /\ row.status \in {"destroyed", "expired"}
        PROVE  TxFits(p)'
    <3>1. /\ tx'[p].op = "row" /\ tx'[p].secret = s /\ tx'[p].row = row /\ tx'[p].paths = paths
      BY <2>1, <2>2 DEF Decide
    <3>2. IsActive(rows[s]) => rows[s].path = home[s]
      BY <2>2 DEF FInv, HomeFits
    <3>3. \A c \in PathsOf({s}) : c = rows[s].path
      BY DEF PathsOf
    <3>4. \A c \in paths : c = home[s] /\ row.status \in {"destroyed", "expired"}
      BY <2>2, <3>2, <3>3
    <3> QED
      BY <1>1, <2>1, <3>1, <3>4 DEF TxFits
  <2>3. ASSUME NEW u \in User, NEW s \in Secret, ConsumeExpired(p, u, s)
        PROVE  TxFits(p)'
    <3> DEFINE row == Destroyed(rows[s], "expired", "expired")
    <3>1. row.status = "expired"
      BY <2>1, DestroyedFields DEF Reason, Status
    <3>2. IsActive(rows[s]) /\ Decide(p, s, row, NoUser, PathsOf({s}))
      BY <2>3 DEF ConsumeExpired
    <3> HIDE DEF row
    <3> QED
      BY <2>2, <3>1, <3>2
  <2>4. ASSUME NEW u \in User, NEW s \in Secret, ConsumeDenied(p, u, s)
        PROVE  TxFits(p)'
    <3>1. Decide(p, s, rows[s], NoUser, {})
      BY <2>4 DEF ConsumeDenied
    <3> QED
      BY <2>2, <3>1
  <2>5. ASSUME NEW u \in User, NEW s \in Secret, ConsumeGranted(p, u, s)
        PROVE  TxFits(p)'
    <3> DEFINE row == Opened(rows[s], u, now)
               paths == IF row.kind = "file" /\ ~IsActive(row) THEN PathsOf({s}) ELSE {}
    <3>1. MayOpen(rows[s], u, now) /\ Decide(p, s, row, u, paths)
      BY <2>5 DEF ConsumeGranted
    <3>2. IsActive(rows[s])
      BY <3>1 DEF MayOpen, IsAvailable
    <3>3. row.status \in {"destroyed", "active"}
      <4>1. rows[s] \in Row /\ ledger[s] \in Entry /\ RowAgrees(rows[s], ledger[s])
        BY <2>1 DEF FInv, IInv
      <4> QED
        BY <2>1, <3>1, <4>1, OpenedAgrees
    <3>4. \/ paths = {}
          \/ paths = PathsOf({s}) /\ row.status \in {"destroyed", "expired"}
      BY <3>3 DEF IsActive
    <3> HIDE DEF row, paths
    <3> QED
      BY <2>2, <3>1, <3>2, <3>4
  <2>6. ASSUME NEW u \in User, NEW s \in Secret, DestroyOwned(p, u, s)
        PROVE  TxFits(p)'
    <3> DEFINE row == Destroyed(rows[s], "manual", "destroyed")
    <3>1. row.status = "destroyed"
      BY <2>1, DestroyedFields DEF Reason, Status
    <3>2. \/ IsActive(rows[s]) /\ Decide(p, s, row, NoUser, PathsOf({s}))
          \/ Decide(p, s, rows[s], NoUser, {})
      BY <2>6 DEF DestroyOwned
    <3> HIDE DEF row
    <3> QED
      BY <2>2, <3>1, <3>2
  <2>7. ASSUME NEW u \in User, PanicSelect(p, u)
        PROVE  TxFits(p)'
    <3>1. tx'[p] = [op |-> "panic", user |-> u, paths |-> PathsOf(OwnedActive(u))]
      BY <2>1, <2>7 DEF PanicSelect
    <3>2. ASSUME NEW c \in PathsOf(OwnedActive(u))
          PROVE  \E s \in Secret : home[s] = c /\ IsActive(rows[s]) /\ rows[s].creator = u
      BY <3>2 DEF PathsOf, OwnedActive, FInv, HomeFits
    <3>3. tx'[p].op = "panic" /\ tx'[p].user = u /\ tx'[p].paths = PathsOf(OwnedActive(u))
      BY <3>1
    <3> QED
      BY <1>1, <1>2, <2>1, <3>2, <3>3 DEF TxFits
  <2>8. CASE PanicUpdate(p)
    <3> DEFINE u == tx[p].user
    <3>1. tx[p].op = "panic" /\ tx'[p] = [op |-> "panic_update", user |-> u,
                                          paths |-> tx[p].paths, targets |-> OwnedActive(u)]
      BY <2>1, <2>8 DEF PanicUpdate
    <3>2. ASSUME NEW c \in tx[p].paths
          PROVE  \E s \in Secret : /\ home[s] = c
                                   /\ Ended(s) \/ (/\ IsActive(rows[s]) /\ rows[s].creator = u
                                                   /\ s \in OwnedActive(u))
      BY <3>1, <3>2 DEF FInv, TxFits, OwnedActive
    <3>3. /\ tx'[p].op = "panic_update" /\ tx'[p].user = u /\ tx'[p].paths = tx[p].paths
          /\ tx'[p].targets = OwnedActive(u)
      BY <3>1
    <3> HIDE DEF u
    <3> QED
      BY <1>1, <1>2, <2>1, <3>2, <3>3 DEF TxFits, Ended
  <2>9. CASE Abort(p)
    BY <2>1, <2>9 DEF Abort
  <2> QED
    BY <2>3, <2>4, <2>5, <2>6, <2>7, <2>8, <2>9 DEF FSession
<1>6. ASSUME NEW q \in Session \ {p}
      PROVE  TxFits(q)'
  <2>1. tx[q] # Idle => job'[q] = NoJob
    BY <1>1 DEF FInv, TxFits
  <2> QED
    BY <1>1, <1>2, <1>3, <1>4, <2>1, TxStays DEF FInv
<1>7. WorkerFits'
  BY <1>1, <1>2 DEF FInv, WorkerFits, Ended
<1>8. SweepFits'
  BY <1>1, <1>4, SweepStays
<1>9. \A s \in Secret : LastFits(s)'
  BY <1>1, <1>2, <1>4, LastKept
<1>10. /\ sweep' \subseteq Path
       /\ job' \in [Session -> {NoJob} \cup UnlinkJob \cup DeliverJob \cup RelayJob \cup DraftJob]
  BY <1>1 DEF FInv, FTypeOK
<1> QED
  BY <1>1, <1>3, <1>4, <1>5, <1>6, <1>7, <1>8, <1>9, <1>10, StoreStep

\* What a handler learns from the transaction it commits.
LEMMA CommitFacts ==
    ASSUME FInv, NEW p \in Session, Commit(p), NEW s \in Secret, s = tx[p].secret
    PROVE  /\ job[p] = NoJob /\ tx[p] \in RowTx
           /\ rows'[s] = tx[p].row /\ \A x \in Secret \ {s} : rows'[x] = rows[x]
           /\ tx'[p] = Idle /\ \A q \in Session \ {p} : tx'[q] = tx[q]
           /\ UNCHANGED <<now, worker>>
           /\ rows[s] \in Row /\ rows[s].status # "absent"
           /\ tx[p].row \in Row /\ tx[p].row.status # "absent" /\ tx[p].row.kind = rows[s].kind
           /\ FairDecision(rows[s], tx[p].row, tx[p].viewer, tx[p].at)
           /\ tx[p].viewer # NoUser /\ ~IsActive(tx[p].row) => tx[p].row.status = "destroyed"
<1>1. /\ tx \in [Session -> {Idle} \cup RowTx \cup PanicTx] /\ rows \in [Secret -> Row]
      /\ tx[p].op = "row" /\ tx[p] \in RowTx /\ tx[p] # Idle
  BY DEF FInv, IInv, TypeOK, Commit, Idle, PanicTx
<1>2. /\ rows'[s] = tx[p].row /\ \A x \in Secret \ {s} : rows'[x] = rows[x]
      /\ tx'[p] = Idle /\ \A q \in Session \ {p} : tx'[q] = tx[q]
      /\ UNCHANGED <<now, worker>>
  BY <1>1 DEF Commit
<1>3. job[p] = NoJob
  BY <1>1 DEF FInv, TxFits
<1> DEFINE r == rows[s]
           e == ledger[s]
           new == tx[p].row
           viewer == tx[p].viewer
           t == tx[p].at
<1>4. /\ r \in Row /\ e \in Entry /\ RowAgrees(r, e) /\ r.status # "absent"
      /\ viewer \in User \cup {NoUser} /\ t \in Nat
      /\ FairDecision(r, new, viewer, t)
  BY <1>1 DEF FInv, IInv, TypeOK, DecidedOnCurrentRow, RowTx
<1> HIDE DEF r, e, new, viewer, t
<1>5. /\ new \in Row /\ new.status # "absent" /\ new.kind = r.kind
      /\ viewer # NoUser /\ ~IsActive(new) => new.status = "destroyed"
  BY <1>4, DecisionMoves
<1> QED
  BY <1>1, <1>2, <1>3, <1>4, <1>5 DEF r, new, viewer, t

\* A decision without a viewer ends no secret by its last view.
LEMMA NoViewNoLimit ==
    ASSUME NEW r \in Row, NEW new, NEW t, FairDecision(r, new, NoUser, t),
           new.reason = "view_limit"
    PROVE  r.reason = "view_limit"
<1>1. CASE new = r
  BY <1>1
<1>2. CASE new \in {Destroyed(r, "expired", "expired"), Destroyed(r, "manual", "destroyed")}
  <2>1. /\ Destroyed(r, "expired", "expired").reason = "expired"
        /\ Destroyed(r, "manual", "destroyed").reason = "manual"
    BY DestroyedFields DEF Reason, Status
  <2> QED
    BY <1>2, <2>1
<1> QED
  BY <1>1, <1>2 DEF FairDecision

LEMMA FCommitStep ==
    ASSUME FInv, NEW p \in Session, FCommit(p)
    PROVE  FInv'
<1>1. /\ Commit(p) /\ UNCHANGED <<disk, draft, relay, timers, sweep, faults, home, ghosts>>
      /\ job' = [job EXCEPT ![p] =
             IF tx[p].viewer = NoUser THEN Unlinking(tx[p].paths)
             ELSE [op |-> "start", secret |-> tx[p].secret, viewer |-> tx[p].viewer,
                   kind |-> tx[p].row.kind, file |-> rows[tx[p].secret].path,
                   last |-> ~IsActive(tx[p].row), copy |-> NoPath]]
  BY DEF FCommit, ghosts
<1>2. /\ job \in [Session -> {NoJob} \cup UnlinkJob \cup DeliverJob \cup RelayJob \cup DraftJob]
      /\ sweep' \subseteq Path /\ tx[p].secret \in Secret
  BY <1>1 DEF FInv, FTypeOK, IInv, TypeOK, RowTx, PanicTx, Idle, Commit
<1>3. PICK s \in Secret : s = tx[p].secret
  BY <1>2
<1>4. /\ job[p] = NoJob /\ tx[p] \in RowTx
      /\ rows'[s] = tx[p].row /\ \A x \in Secret \ {s} : rows'[x] = rows[x]
      /\ tx'[p] = Idle /\ \A q \in Session \ {p} : tx'[q] = tx[q]
      /\ UNCHANGED <<now, worker>>
      /\ rows[s] \in Row /\ rows[s].status # "absent"
      /\ tx[p].row \in Row /\ tx[p].row.status # "absent" /\ tx[p].row.kind = rows[s].kind
      /\ FairDecision(rows[s], tx[p].row, tx[p].viewer, tx[p].at)
      /\ tx[p].viewer # NoUser /\ ~IsActive(tx[p].row) => tx[p].row.status = "destroyed"
  BY <1>1, <1>3, CommitFacts
<1>5. IInv'
  <2>1. [FNext]_allvars
    BY DEF FNext, Handler
  <2> QED
    BY <2>1, StoreKept DEF FInv
<1>6. \A x \in Secret : RowMoves(x)
  BY <1>1, CommitMoves DEF FInv
<1>7. TxFits(p)'
  BY <1>4 DEF TxFits, Idle
<1>8. \A q \in Session \ {p} : job'[q] = job[q]
  BY <1>1, <1>2
<1>9. ASSUME NEW q \in Session \ {p}
      PROVE  TxFits(q)'
  <2>1. tx[q] # Idle => job'[q] = NoJob
    BY <1>8 DEF FInv, TxFits
  <2> QED
    BY <1>1, <1>4, <1>5, <1>6, <2>1, TxStays
<1>10. WorkerFits'
  <2>1. now <= now'
    BY <1>4 DEF FInv, IInv, TypeOK
  <2> QED
    BY <1>1, <1>4, <1>5, <1>6, <2>1, WorkerStays
<1>11. SweepFits'
  BY <1>1, <1>6, SweepStays
<1>12. CASE tx[p].viewer = NoUser
  <2>1. /\ job'[p] \in {NoJob} \cup UnlinkJob
        /\ job'[p].op = "unlink" => job'[p].paths = tx[p].paths /\ tx[p].paths # {}
    BY <1>1, <1>2, <1>4, <1>12 DEF Unlinking, UnlinkJob, RowTx, NoJob
  <2>2. job' \in [Session -> {NoJob} \cup UnlinkJob \cup DeliverJob \cup RelayJob \cup DraftJob]
    BY <1>1, <1>2, <2>1
  <2>3. UnlinkFits(p)'
    <3>1. /\ \A c \in tx[p].paths : c = home[s]
          /\ tx[p].paths # {} => tx[p].row.status \in {"destroyed", "expired"}
      BY <1>3, <1>4 DEF FInv, TxFits, RowTx
    <3>2. tx[p].paths # {} => Ended(s)'
      BY <1>4, <3>1 DEF Ended
    <3> QED
      BY <1>1, <2>1, <3>1, <3>2 DEF UnlinkFits, EndedHome
  <2>4. DeliverFits(p)' /\ Starts(p)
    BY <2>1 DEF DeliverFits, Delivers, Starts, UnlinkJob, NoJob
  <2>5. ASSUME NEW x \in Secret
        PROVE  LastFits(x)'
    <3>1. rows'[x].reason = "view_limit" => rows[x].reason = "view_limit"
      <4>1. CASE x = s
        BY <1>4, <1>12, <4>1, NoViewNoLimit
      <4>2. CASE x # s
        BY <1>4, <4>2
      <4> QED
        BY <4>1, <4>2
    <3> QED
      BY <1>1, <1>4, <1>6, <1>8, <3>1, LastKept
  <2>6. \A q \in Session : \/ job'[q] = job[q]
                           \/ job[q] = NoJob /\ Starts(q) /\ DeliverFits(q)' /\ UnlinkFits(q)'
    BY <1>4, <1>8, <2>3, <2>4
  <2>7. \A q \in Session : TxFits(q)'
    BY <1>7, <1>9
  <2> QED
    BY <1>1, <1>2, <1>5, <1>6, <1>10, <1>11, <2>2, <2>5, <2>6, <2>7, StoreStep
<1>13. CASE tx[p].viewer # NoUser
  <2> DEFINE j == [op |-> "start", secret |-> tx[p].secret, viewer |-> tx[p].viewer,
                   kind |-> tx[p].row.kind, file |-> rows[tx[p].secret].path,
                   last |-> ~IsActive(tx[p].row), copy |-> NoPath]
  <2>1. job' = [job EXCEPT ![p] = j]
    BY <1>1, <1>13
  <2>2. /\ j \in DeliverJob /\ j.op = "start" /\ j.secret = s /\ j.kind = rows[s].kind
        /\ j.file = rows[s].path /\ j.last = ~IsActive(tx[p].row) /\ j.copy = NoPath
    BY <1>3, <1>4, <1>13 DEF DeliverJob, RowTx, Row, File
  <2> HIDE DEF j
  <2>3. /\ job' \in [Session -> {NoJob} \cup UnlinkJob \cup DeliverJob \cup RelayJob \cup DraftJob]
        /\ job'[p] = j
    BY <1>2, <2>1, <2>2
  <2>4. IsActive(rows[s]) /\ HasPayload(rows[s])
    BY <1>4, <1>13 DEF FairDecision, MayOpen, IsAvailable
  <2>5. rows[s].path = home[s] /\ (rows[s].kind = "file" => rows[s].path \in Path)
    BY <1>4, <2>4 DEF FInv, HomeFits, HasPayload, Row
  <2>6. ~IsActive(tx[p].row) => Ended(s)'
    BY <1>4, <1>13 DEF Ended
  <2>7. DeliverFits(p)'
    <3>1. /\ job'[p].op = "start" /\ job'[p].secret = s /\ job'[p].kind = rows[s].kind
          /\ job'[p].file = rows[s].path /\ job'[p].last = ~IsActive(tx[p].row)
          /\ job'[p].copy = NoPath
      BY <2>2, <2>3
    <3>2. job'[p].last => Ended(job[p].secret)'
      BY <2>6, <3>1 DEF Ended
    <3>3. /\ rows'[job'[p].secret].status # "absent"
          /\ job'[p].kind = rows'[job'[p].secret].kind
      BY <1>4, <3>1
    <3>4. job'[p].kind = "file" => job'[p].file \in Path /\ job'[p].file = home'[job'[p].secret]
      BY <1>1, <2>5, <3>1
    <3> QED
      BY <3>1, <3>2, <3>3, <3>4 DEF DeliverFits
  <2>8. UnlinkFits(p)' /\ Starts(p) /\ Delivers(p)'
    BY <2>2, <2>3 DEF UnlinkFits, Starts, Delivers
  <2>9. ASSUME NEW x \in Secret
        PROVE  LastFits(x)'
    <3>1. CASE x = s
      <4>1. rows'[s].reason = "view_limit" => ~IsActive(rows'[s])
        BY <1>5 DEF IInv, RowAgrees, LedgerAgrees
      <4>2. rows'[s].reason = "view_limit" =>
                Delivers(p)' /\ job'[p].secret = s /\ job'[p].last
        BY <1>4, <2>2, <2>3, <2>8, <4>1
      <4> QED
        BY <3>1, <4>2 DEF LastFits
    <3>2. CASE x # s
      <4>1. rows'[x].reason = "view_limit" => rows[x].reason = "view_limit"
        BY <1>4, <3>2
      <4> QED
        BY <1>1, <1>4, <1>6, <1>8, <4>1, LastKept
    <3> QED
      BY <3>1, <3>2
  <2>10. \A q \in Session : \/ job'[q] = job[q]
                            \/ job[q] = NoJob /\ Starts(q) /\ DeliverFits(q)' /\ UnlinkFits(q)'
    BY <1>4, <1>8, <2>7, <2>8
  <2>11. \A q \in Session : TxFits(q)'
    BY <1>7, <1>9
  <2> QED
    BY <1>1, <1>2, <1>5, <1>6, <1>10, <1>11, <2>3, <2>9, <2>10, <2>11, StoreStep
<1> QED
  BY <1>12, <1>13

LEMMA FPanicCommitStep ==
    ASSUME FInv, NEW p \in Session, FPanicCommit(p)
    PROVE  FInv'
<1> DEFINE S == tx[p].targets \cap OwnedActive(tx[p].user)
<1>1. /\ PanicCommit(p) /\ UNCHANGED <<disk, draft, relay, timers, sweep, faults, home, ghosts>>
      /\ tx[p].op = "panic_update" /\ tx' = [tx EXCEPT ![p] = Idle]
      /\ rows' = [s \in Secret |-> IF s \in S THEN Destroyed(rows[s], "manual", "destroyed")
                                  ELSE rows[s]]
      /\ UNCHANGED <<now, worker>>
      /\ job' = [job EXCEPT ![p] = Unlinking(tx[p].paths)]
  BY DEF FPanicCommit, PanicCommit, ghosts
<1>2. /\ job \in [Session -> {NoJob} \cup UnlinkJob \cup DeliverJob \cup RelayJob \cup DraftJob]
      /\ sweep' \subseteq Path /\ tx[p] \in PanicTx /\ tx[p] # Idle
      /\ tx'[p] = Idle /\ \A q \in Session \ {p} : tx'[q] = tx[q]
  BY <1>1 DEF FInv, FTypeOK, IInv, TypeOK, RowTx, PanicTx, Idle
<1>3. job[p] = NoJob /\ \A q \in Session \ {p} : job'[q] = job[q]
  BY <1>1, <1>2 DEF FInv, TxFits
<1>4. /\ \A s \in Secret : RowMoves(s)
      /\ \A s \in S : Ended(s)'
      /\ \A s \in S : rows'[s].reason = "manual"
  <2>1. S \in SUBSET Secret /\ (\A s \in S : IsActive(rows[s])) /\ IInv
        /\ "manual" \in Reason /\ "destroyed" \in {"expired", "destroyed"}
    BY DEF OwnedActive, FInv, Reason
  <2> HIDE DEF S
  <2> QED
    BY <1>1, <2>1, BulkMoves
<1>5. IInv'
  <2>1. [FNext]_allvars
    BY DEF FNext, Handler
  <2> QED
    BY <2>1, StoreKept DEF FInv
<1>6. TxFits(p)'
  BY <1>2 DEF TxFits, Idle
<1>7. ASSUME NEW q \in Session \ {p}
      PROVE  TxFits(q)'
  <2>1. tx[q] # Idle => job'[q] = NoJob
    BY <1>3 DEF FInv, TxFits
  <2> QED
    BY <1>1, <1>2, <1>4, <1>5, <2>1, TxStays
<1>8. WorkerFits'
  <2>1. now <= now'
    BY <1>1 DEF FInv, IInv, TypeOK
  <2> QED
    BY <1>1, <1>4, <1>5, <2>1, WorkerStays
<1>9. SweepFits'
  BY <1>1, <1>4, SweepStays
<1>10. /\ job'[p] \in {NoJob} \cup UnlinkJob
       /\ job'[p].op = "unlink" => job'[p].paths = tx[p].paths
  BY <1>1, <1>2 DEF Unlinking, UnlinkJob, PanicTx, NoJob
<1>11. job' \in [Session -> {NoJob} \cup UnlinkJob \cup DeliverJob \cup RelayJob \cup DraftJob]
  BY <1>1, <1>2, <1>10
<1>12. UnlinkFits(p)'
  <2>1. ASSUME NEW c \in tx[p].paths
        PROVE  \E s \in Secret : home[s] = c /\ Ended(s)'
    <3>1. PICK s \in Secret :
              /\ home[s] = c
              /\ Ended(s) \/ (/\ IsActive(rows[s]) /\ rows[s].creator = tx[p].user
                              /\ s \in tx[p].targets)
      BY <1>1, <2>1 DEF FInv, TxFits
    <3>2. Ended(s) => Ended(s)'
      BY <1>4, EndedStays
    <3>3. (IsActive(rows[s]) /\ rows[s].creator = tx[p].user /\ s \in tx[p].targets) => s \in S
      BY DEF OwnedActive
    <3> QED
      BY <1>4, <3>1, <3>2, <3>3
  <2> QED
    BY <1>1, <1>10, <2>1 DEF UnlinkFits, EndedHome
<1>13. DeliverFits(p)' /\ Starts(p)
  BY <1>10 DEF DeliverFits, Delivers, Starts, UnlinkJob, NoJob
<1>14. ASSUME NEW x \in Secret
       PROVE  LastFits(x)'
  <2>1. rows'[x].reason = "view_limit" => rows[x].reason = "view_limit"
    BY <1>1, <1>4
  <2> QED
    BY <1>1, <1>3, <1>4, <2>1, LastKept
<1>15. \A q \in Session : \/ job'[q] = job[q]
                          \/ job[q] = NoJob /\ Starts(q) /\ DeliverFits(q)' /\ UnlinkFits(q)'
  BY <1>3, <1>12, <1>13
<1>16. \A q \in Session : TxFits(q)'
  BY <1>6, <1>7
<1> QED
  BY <1>1, <1>2, <1>4, <1>5, <1>8, <1>9, <1>11, <1>14, <1>15, <1>16, StoreStep

\* The worker's steps and the clock, which no handler takes part in.
LEMMA FWorkerStep ==
    ASSUME FInv, FWorker
    PROVE  FInv'
<1> DEFINE S == worker.targets \cap OverdueActive(worker.cutoff)
<1>1. /\ UNCHANGED <<disk, draft, job, relay, timers, faults, home, ghosts>>
      /\ UNCHANGED <<now, tx>>
      /\ worker \in {Idle} \cup ExpireTx /\ sweep \subseteq Path
  BY DEF FWorker, ExpireSelect, ExpireUpdate, WorkerAbort, ExpireCommit, FInv, IInv, TypeOK,
         FTypeOK, ghosts
<1>2. IInv'
  <2>1. [FNext]_allvars
    BY DEF FNext
  <2> QED
    BY <2>1, StoreKept DEF FInv
<1>3. ASSUME \A s \in Secret : RowMoves(s),
             \A s \in Secret : rows'[s].reason = "view_limit" => rows[s].reason = "view_limit",
             sweep' \subseteq Path, WorkerFits', SweepFits'
      PROVE  FInv'
  <2>1. \A q \in Session : TxFits(q)'
    <3>1. \A q \in Session : tx'[q] = tx[q] /\ (tx[q] # Idle => job'[q] = NoJob)
      BY <1>1 DEF FInv, TxFits
    <3> QED
      BY <1>1, <1>2, <1>3, <3>1, TxStays
  <2>2. \A x \in Secret : LastFits(x)'
    BY <1>1, <1>3, LastKept
  <2>3. /\ job' \in [Session -> {NoJob} \cup UnlinkJob \cup DeliverJob \cup RelayJob \cup DraftJob]
        /\ \A q \in Session : job'[q] = job[q]
    BY <1>1 DEF FInv, FTypeOK
  <2> QED
    BY <1>1, <1>2, <1>3, <2>1, <2>2, <2>3, StoreStep
<1>4. CASE ExpireSelect /\ UNCHANGED sweep
  <2>1. /\ UNCHANGED rows
        /\ worker' = [op |-> "expire", paths |-> PathsOf(OverdueActive(now))]
    BY <1>4 DEF ExpireSelect
  <2>2. worker'.op = "expire" /\ worker'.paths = PathsOf(OverdueActive(now))
    BY <2>1
  <2>3. ASSUME NEW c \in PathsOf(OverdueActive(now))
        PROVE  \E s \in Secret : home[s] = c /\ IsActive(rows[s]) /\ Overdue(rows[s], now)
    BY <2>3 DEF PathsOf, OverdueActive, FInv, HomeFits
  <2>4. WorkerFits'
    BY <1>1, <2>1, <2>2, <2>3 DEF WorkerFits
  <2>5. \A s \in Secret : RowMoves(s)
    BY <2>1, RowsRest
  <2>6. SweepFits'
    BY <1>1, <1>4, <2>5, SweepStays
  <2> QED
    BY <1>1, <1>3, <1>4, <2>1, <2>4, <2>5, <2>6
<1>5. CASE ExpireUpdate /\ UNCHANGED sweep
  <2>1. /\ UNCHANGED rows /\ worker.op = "expire"
        /\ worker' = [op |-> "expire_update", paths |-> worker.paths, cutoff |-> now,
                      targets |-> OverdueActive(now)]
    BY <1>5 DEF ExpireUpdate
  <2>2. /\ worker'.op = "expire_update" /\ worker'.paths = worker.paths
        /\ worker'.cutoff = now /\ worker'.targets = OverdueActive(now)
    BY <2>1
  <2>3. ASSUME NEW c \in worker.paths
        PROVE  \E s \in Secret : /\ home[s] = c
                                 /\ Ended(s) \/ (/\ IsActive(rows[s]) /\ Overdue(rows[s], now)
                                                 /\ s \in OverdueActive(now))
    BY <2>1, <2>3 DEF FInv, WorkerFits, OverdueActive
  <2>4. WorkerFits'
    BY <1>1, <2>1, <2>2, <2>3 DEF WorkerFits, Ended
  <2>5. \A s \in Secret : RowMoves(s)
    BY <2>1, RowsRest
  <2>6. SweepFits'
    BY <1>1, <1>5, <2>5, SweepStays
  <2> QED
    BY <1>1, <1>3, <1>5, <2>1, <2>4, <2>5, <2>6
<1>6. CASE WorkerAbort /\ UNCHANGED sweep
  <2>1. UNCHANGED rows /\ worker' = Idle
    BY <1>6 DEF WorkerAbort
  <2>2. WorkerFits'
    BY <2>1 DEF WorkerFits, Idle
  <2>3. \A s \in Secret : RowMoves(s)
    BY <2>1, RowsRest
  <2>4. SweepFits'
    BY <1>1, <1>6, <2>3, SweepStays
  <2> QED
    BY <1>1, <1>3, <1>6, <2>1, <2>2, <2>3, <2>4
<1>7. CASE ExpireCommit /\ sweep' = worker.paths
  <2>1. /\ worker.op = "expire_update" /\ worker' = Idle
        /\ rows' = [s \in Secret |-> IF s \in S THEN Destroyed(rows[s], "expired", "expired")
                                    ELSE rows[s]]
    BY <1>7 DEF ExpireCommit
  <2>2. /\ \A s \in Secret : RowMoves(s)
        /\ \A s \in S : Ended(s)'
        /\ \A s \in S : rows'[s].reason = "expired"
    <3>1. S \in SUBSET Secret /\ (\A s \in S : IsActive(rows[s])) /\ IInv
          /\ "expired" \in Reason /\ "expired" \in {"expired", "destroyed"}
      BY DEF OverdueActive, FInv, Reason
    <3> HIDE DEF S
    <3> QED
      BY <2>1, <3>1, BulkMoves
  <2>3. WorkerFits'
    BY <2>1 DEF WorkerFits, Idle
  <2>4. sweep' \subseteq Path
    BY <1>1, <1>7, <2>1 DEF ExpireTx, Idle
  <2>5. ASSUME NEW c \in worker.paths
        PROVE  \E s \in Secret : home[s] = c /\ Ended(s)'
    <3>1. PICK s \in Secret :
              /\ home[s] = c
              /\ Ended(s) \/ (/\ IsActive(rows[s]) /\ Overdue(rows[s], worker.cutoff)
                              /\ s \in worker.targets)
      BY <2>1, <2>5 DEF FInv, WorkerFits
    <3>2. Ended(s) => Ended(s)'
      BY <2>2, EndedStays
    <3>3. (IsActive(rows[s]) /\ Overdue(rows[s], worker.cutoff) /\ s \in worker.targets) => s \in S
      BY DEF OverdueActive
    <3> QED
      BY <2>2, <3>1, <3>2, <3>3
  <2>6. SweepFits'
    BY <1>1, <1>7, <2>5 DEF SweepFits, EndedHome
  <2>7. \A s \in Secret : rows'[s].reason = "view_limit" => rows[s].reason = "view_limit"
    BY <2>1, <2>2
  <2> QED
    BY <1>3, <2>2, <2>3, <2>4, <2>6, <2>7
<1> QED
  BY <1>4, <1>5, <1>6, <1>7 DEF FWorker

LEMMA FTickStep ==
    ASSUME FInv, Tick, UNCHANGED fvars
    PROVE  FInv'
<1>1. /\ UNCHANGED <<disk, draft, job, relay, timers, sweep, faults, home, ghosts>>
      /\ UNCHANGED <<rows, tx, worker>> /\ now' = now + 1 /\ now \in Nat
  BY DEF Tick, fvars, ghosts, FInv, IInv, TypeOK
<1>2. IInv'
  <2>1. [FNext]_allvars
    BY DEF FNext
  <2> QED
    BY <2>1, StoreKept DEF FInv
<1>3. \A s \in Secret : RowMoves(s)
  BY <1>1, RowsRest
<1>4. \A q \in Session : TxFits(q)'
  BY <1>1 DEF FInv, TxFits, Ended
<1>5. WorkerFits'
  <2>1. now <= now'
    BY <1>1
  <2> QED
    BY <1>1, <1>2, <1>3, <2>1, WorkerStays
<1>6. SweepFits'
  BY <1>1, <1>3, SweepStays
<1>7. \A s \in Secret : LastFits(s)'
  BY <1>1, <1>3, LastKept
<1>8. /\ sweep' \subseteq Path /\ \A q \in Session : job'[q] = job[q]
      /\ job' \in [Session -> {NoJob} \cup UnlinkJob \cup DeliverJob \cup RelayJob \cup DraftJob]
  BY <1>1 DEF FInv, FTypeOK
<1> QED
  BY <1>1, <1>2, <1>3, <1>4, <1>5, <1>6, <1>7, <1>8, StoreStep

-----------------------------------------------------------------------------
(* A secret comes with a file: taken from a draft, or copied for a relay *)

LEMMA Inserted ==
    ASSUME FInv, IInv', NEW u \in User, NEW d, ValidDraft(d), NEW f \in File, NEW s \in Secret,
           NEW t \in Nat, Create(u, d, f, s, t), home' = [home EXCEPT ![s] = f],
           UNCHANGED <<disk, draft, relay, timers, sweep, faults, uploads, contested, mishaps>>,
           f \notin contested \cup {NoPath} => /\ f \in disk
                                             /\ \A x \in Secret : home[x] # f
                                             /\ \A q \in Session : ~Takes(q, f)',
           f # NoPath => /\ \A k \in Key : ~CopyOf(f, k)
                         /\ \A q \in Session : ~Pending(f, q)',
           job' \in [Session -> {NoJob} \cup UnlinkJob \cup DeliverJob \cup RelayJob \cup DraftJob],
           \A q \in Session :
               \/ job'[q] = job[q]
               \/ job[q].op = "finalize" /\ job'[q].op = "clear" /\ job'[q].file = NoPath
               \/ /\ job[q].op = "relay_insert" /\ job'[q].op = "relay_drop"
                  /\ job'[q].cached = job[q].cached /\ job'[q].kind = job[q].kind
                  /\ job'[q].secret = job[q].secret /\ job'[q].viewer = job[q].viewer
    PROVE  FInv'
<1>1. /\ rows[s].status = "absent" /\ UNCHANGED <<now, tx, worker, aborts>>
      /\ rows' = [rows EXCEPT ![s] = NewRow(u, d, f, t)]
      /\ rows \in [Secret -> Row] /\ home \in [Secret -> File]
  BY DEF Create, FInv, IInv, TypeOK, FTypeOK
<1>2. /\ rows'[s] = NewRow(u, d, f, t) /\ \A x \in Secret \ {s} : rows'[x] = rows[x]
      /\ home'[s] = f /\ \A x \in Secret \ {s} : home'[x] = home[x]
      /\ home' \in [Secret -> File]
  BY <1>1
<1>3. /\ rows'[s].status = "active" /\ rows'[s].path = f /\ rows'[s].reason = "none"
  BY <1>2 DEF NewRow
<1>4. home[s] = NoPath /\ ~Ended(s)
  BY <1>1 DEF FInv, HomeFits, Ended
<1>5. \A x \in Secret : x = s \/ ((Ended(x)' <=> Ended(x)) /\ rows'[x] = rows[x])
  BY <1>2 DEF Ended
<1>6. FTypeOK'
  BY <1>2 DEF FInv, FTypeOK
<1>7. ASSUME NEW q \in Session
      PROVE  /\ Delivers(q)' <=> Delivers(q)
             /\ Delivers(q) => job'[q] = job[q]
             /\ Relays(q)' <=> Relays(q)
             /\ Relays(q) => job'[q].cached = job[q].cached /\ job'[q].kind = job[q].kind
             /\ (Delivers(q) \/ Relays(q)) => KeyOf(q)' = KeyOf(q)
             /\ job'[q].op \notin {"relay", "relay_insert"} \/ job'[q] = job[q]
             /\ job'[q].op \notin {"cache", "unlink"} \/ job'[q] = job[q]
             /\ job[q] = NoJob => job'[q] = NoJob
             /\ job[q].op = "relay_del" => job'[q] = job[q]
             /\ job'[q].op \in {"edit", "finalize", "drop"} => job'[q] = job[q]
             /\ job'[q].op = "clear" => job'[q] = job[q] \/ job'[q].file = NoPath
             /\ \A c : (Pending(c, q)' => Pending(c, q)) /\ (Takes(q, c)' => Takes(q, c))
  BY DEF Delivers, Relays, KeyOf, Pending, Takes, NoJob
<1>8. \A c, k : CopyOf(c, k)' <=> CopyOf(c, k)
  BY <1>7 DEF CopyOf
<1>9. ASSUME NEW c \in Path
      PROVE  OneRole(c)'
  <2>1. OneRole(c)
    BY DEF FInv
  <2>2. CASE c = f
    <3>1. /\ \A k \in Key : ~CopyOf(c, k)'
          /\ \A q \in Session : ~Pending(c, q)'
      BY <1>8, <2>2, NullAssumption
    <3>2. c \notin contested => /\ \A x \in Secret : home'[x] = c => x = s
                               /\ \A q \in Session : ~Takes(q, c)'
      BY <1>2, <2>2, NullAssumption
    <3> QED
      BY <3>1, <3>2 DEF OneRole
  <2>3. CASE c # f
    <3>1. \A x \in Secret : home'[x] = c => home[x] = c
      BY <1>2, <2>3
    <3> QED
      BY <1>7, <1>8, <2>1, <3>1 DEF OneRole
  <2> QED
    BY <2>2, <2>3
<1>10. ASSUME NEW q \in Session
       PROVE  CopyIsNew(q)'
  <2> SUFFICES ASSUME job'[q].op = "cache", job'[q].kind = "file"
               PROVE  CopyIsNew(q)'
    BY DEF CopyIsNew
  <2> DEFINE c == job[q].copy
  <2>1. job'[q] = job[q]
    BY <1>7
  <2>2. /\ c \in disk
        /\ \A k \in Key : relay[k].copy # c
        /\ \A x \in timers : x[2] # c
        /\ \A r \in Session \ {q} : Delivers(r) => job[r].copy # c
        /\ \A r \in Session : Relays(r) => job[r].cached # c
    BY <2>1 DEF FInv, CopyIsNew
  <2>3. /\ \A r \in Session \ {q} : Delivers(r)' => job'[r].copy # c
        /\ \A r \in Session : Relays(r)' => job'[r].cached # c
    BY <1>7, <2>2
  <2>4. job'[q].copy = c
    BY <2>1
  <2> HIDE DEF c
  <2> QED
    BY <2>2, <2>3, <2>4 DEF CopyIsNew
<1>11. ASSUME NEW q \in Session
       PROVE  DeliverFits(q)'
  <2> SUFFICES ASSUME Delivers(q)
               PROVE  DeliverFits(q)'
    BY <1>7 DEF DeliverFits
  <2>1. DeliverFits(q) /\ job'[q] = job[q] /\ job[q].secret \in Secret
    BY <1>7, JobTypes DEF FInv, DeliverJob
  <2>2. PICK x \in Secret : x = job[q].secret
    BY <2>1
  <2>3. x # s
    BY <1>1, <2>1, <2>2 DEF DeliverFits
  <2>4. rows'[x] = rows[x] /\ home'[x] = home[x]
    BY <1>2, <2>3
  <2> QED
    BY <2>1, <2>2, <2>4 DEF DeliverFits, Ended
<1>12. ASSUME NEW q \in Session
       PROVE  RelayFits(q)' /\ DraftFits(q)'
  <2>1. RelayFits(q) /\ DraftFits(q)
    BY DEF FInv
  <2>2. RelayFits(q)'
    BY <1>7, <2>1 DEF RelayFits
  <2>3. DraftFits(q)'
    BY <1>7, <2>1 DEF DraftFits
  <2> QED
    BY <2>2, <2>3
<1>13. ASSUME NEW c \in Path, EndedHome(c)
       PROVE  EndedHome(c)'
  BY <1>2, <1>4, <1>5, <1>13 DEF EndedHome
<1>14. ASSUME NEW q \in Session
       PROVE  UnlinkFits(q)'
  <2> SUFFICES ASSUME job'[q].op = "unlink", NEW c \in job'[q].paths
               PROVE  EndedHome(c)'
    BY DEF UnlinkFits
  <2>1. job'[q] = job[q] /\ EndedHome(c)
    BY <1>7 DEF FInv, UnlinkFits
  <2>2. c \in Path
    BY <2>1, JobTypes DEF FInv, UnlinkJob
  <2> QED
    BY <1>13, <2>1, <2>2
<1>15. ASSUME NEW k \in Key
       PROVE  EntryFits(k)'
  <2>1. EntryFits(k)
    BY DEF FInv
  <2>2. ASSUME NEW q \in Session, Dropping(q, k, relay[k].copy)
        PROVE  Dropping(q, k, relay[k].copy)'
    BY <1>7, <2>2 DEF Dropping, KeyOf
  <2> QED
    BY <2>1, <2>2 DEF EntryFits
<1>16. ASSUME NEW x \in Secret
       PROVE  HomeFits(x)'
  <2>1. CASE x = s
    <3>1. f \notin contested' \cup {NoPath} => f \in disk'
      OBVIOUS
    <3>2. <<"missing", s>> \notin mishaps'
      BY <1>4, NullAssumption DEF FInv, FTypeOK, HomeFits
    <3> QED
      BY <1>2, <1>3, <2>1, <3>1, <3>2 DEF HomeFits
  <2>2. CASE x # s
    <3>1. HomeFits(x) /\ rows'[x] = rows[x] /\ home'[x] = home[x]
      BY <1>2, <2>2 DEF FInv
    <3> QED
      BY <3>1 DEF HomeFits, Ended
  <2> QED
    BY <2>1, <2>2
<1>17. ASSUME NEW q \in Session
       PROVE  TxFits(q)'
  <2>1. TxFits(q) /\ tx'[q] = tx[q] /\ tx[q] \in {Idle} \cup RowTx \cup PanicTx
    BY <1>1 DEF FInv, IInv, TypeOK
  <2>2. tx[q] # Idle => job'[q] = NoJob
    BY <1>7, <2>1 DEF TxFits
  <2>3. tx[q].op = "row" => \A c \in tx[q].paths : c = home'[tx[q].secret]
    <3> SUFFICES ASSUME tx[q].op = "row"
                 PROVE  \A c \in tx[q].paths : c = home'[tx[q].secret]
      OBVIOUS
    <3>1. tx[q].secret \in Secret /\ rows[tx[q].secret].status # "absent"
      BY <2>1 DEF FInv, IInv, DecidedOnCurrentRow, RowTx, PanicTx, Idle
    <3>2. home'[tx[q].secret] = home[tx[q].secret]
      BY <1>1, <1>2, <3>1
    <3> QED
      BY <2>1, <3>2 DEF TxFits
  <2>4. ASSUME tx[q].op = "panic", NEW c \in tx[q].paths
        PROVE  \E x \in Secret :
                   home'[x] = c /\ (Ended(x)' \/ (IsActive(rows'[x]) /\ rows'[x].creator = tx[q].user))
    <3>1. PICK x \in Secret :
              home[x] = c /\ (Ended(x) \/ (IsActive(rows[x]) /\ rows[x].creator = tx[q].user))
      BY <2>1, <2>4 DEF TxFits
    <3>2. x # s
      BY <1>1, <1>4, <3>1 DEF IsActive
    <3>3. rows'[x] = rows[x] /\ home'[x] = home[x]
      BY <1>2, <3>2
    <3> QED
      BY <3>1, <3>3 DEF Ended
  <2>5. ASSUME tx[q].op = "panic_update", NEW c \in tx[q].paths
        PROVE  \E x \in Secret :
                   /\ home'[x] = c
                   /\ Ended(x)' \/ (/\ IsActive(rows'[x]) /\ rows'[x].creator = tx[q].user
                                    /\ x \in tx[q].targets)
    <3>1. PICK x \in Secret :
              /\ home[x] = c
              /\ Ended(x) \/ (/\ IsActive(rows[x]) /\ rows[x].creator = tx[q].user
                              /\ x \in tx[q].targets)
      BY <2>1, <2>5 DEF TxFits
    <3>2. x # s
      BY <1>1, <1>4, <3>1 DEF IsActive
    <3>3. rows'[x] = rows[x] /\ home'[x] = home[x]
      BY <1>2, <3>2
    <3> QED
      BY <3>1, <3>3 DEF Ended
  <2> QED
    BY <2>1, <2>2, <2>3, <2>4, <2>5 DEF TxFits
<1>18. WorkerFits'
  <2>1. WorkerFits /\ worker' = worker /\ now' = now
    BY <1>1 DEF FInv
  <2>2. ASSUME worker.op = "expire", NEW c \in worker.paths
        PROVE  \E x \in Secret :
                   home'[x] = c /\ (Ended(x)' \/ (IsActive(rows'[x]) /\ Overdue(rows'[x], now)))
    <3>1. PICK x \in Secret :
              home[x] = c /\ (Ended(x) \/ (IsActive(rows[x]) /\ Overdue(rows[x], now)))
      BY <2>1, <2>2 DEF WorkerFits
    <3>2. x # s
      BY <1>1, <1>4, <3>1 DEF IsActive
    <3>3. rows'[x] = rows[x] /\ home'[x] = home[x]
      BY <1>2, <3>2
    <3> QED
      BY <3>1, <3>3 DEF Ended
  <2>3. ASSUME worker.op = "expire_update", NEW c \in worker.paths
        PROVE  \E x \in Secret :
                   /\ home'[x] = c
                   /\ Ended(x)' \/ (/\ IsActive(rows'[x]) /\ Overdue(rows'[x], worker.cutoff)
                                    /\ x \in worker.targets)
    <3>1. PICK x \in Secret :
              /\ home[x] = c
              /\ Ended(x) \/ (/\ IsActive(rows[x]) /\ Overdue(rows[x], worker.cutoff)
                              /\ x \in worker.targets)
      BY <2>1, <2>3 DEF WorkerFits
    <3>2. x # s
      BY <1>1, <1>4, <3>1 DEF IsActive
    <3>3. rows'[x] = rows[x] /\ home'[x] = home[x]
      BY <1>2, <3>2
    <3> QED
      BY <3>1, <3>3 DEF Ended
  <2> QED
    BY <2>1, <2>2, <2>3 DEF WorkerFits
<1>19. SweepFits'
  BY <1>13 DEF FInv, FTypeOK, SweepFits
<1>20. ASSUME NEW x \in Secret
       PROVE  LastFits(x)'
  <2>1. CASE x = s
    BY <1>3, <2>1 DEF LastFits
  <2>2. CASE x # s
    <3>1. LastFits(x) /\ rows'[x] = rows[x] /\ home'[x] = home[x]
      BY <1>2, <2>2 DEF FInv
    <3> QED
      BY <1>7, <3>1 DEF LastFits
  <2> QED
    BY <2>1, <2>2
<1>21. DraftsKnown' /\ MishapsFit'
  BY DEF FInv, DraftsKnown, MishapsFit
<1> QED
  BY <1>6, <1>9, <1>10, <1>11, <1>12, <1>14, <1>15, <1>16, <1>17, <1>18, <1>19, <1>20, <1>21
     DEF FInv

\* The secret made of a draft: an uncontested file was taken by this handler alone.
LEMMA FinalizeStep ==
    ASSUME FInv, NEW p \in Session, NEW d \in Drafts, NEW s \in Secret, Finalize(p, d, s)
    PROVE  FInv'
<1>1. /\ job[p].op = "finalize" /\ Create(job[p].user, d, job[p].file, s, now)
      /\ home' = [home EXCEPT ![s] = job[p].file]
      /\ job' = [job EXCEPT ![p] = Clearing(p)]
      /\ UNCHANGED <<disk, draft, relay, timers, sweep, faults, uploads, contested, mishaps>>
  BY DEF Finalize
<1>2. /\ job[p] \in DraftJob /\ DraftFits(p)
      /\ job \in [Session -> {NoJob} \cup UnlinkJob \cup DeliverJob \cup RelayJob \cup DraftJob]
  BY <1>1, JobTypes DEF FInv, FTypeOK
<1>3. now \in Nat /\ ValidDraft(d) /\ job[p].user \in User /\ job[p].file \in File
  BY <1>2, DraftAssumption DEF FInv, IInv, TypeOK, DraftJob
<1>4. IInv'
  <2>1. [FNext]_allvars
    BY DEF FNext, Handler, Drafting
  <2> QED
    BY <2>1, StoreKept DEF FInv
<1>5. Clearing(p) \in DraftJob /\ Clearing(p).op = "clear" /\ Clearing(p).file = NoPath
  BY <1>3 DEF Clearing, DraftJob, File
<1>6. /\ job' \in [Session -> {NoJob} \cup UnlinkJob \cup DeliverJob \cup RelayJob \cup DraftJob]
      /\ \A q \in Session \ {p} : job'[q] = job[q]
      /\ job'[p].op = "clear" /\ job'[p].file = NoPath
  BY <1>1, <1>2, <1>5
<1>7. PICK f \in File : f = job[p].file
  BY <1>3
<1>8. ASSUME f # NoPath
      PROVE  /\ \A k \in Key : ~CopyOf(f, k)
             /\ \A q \in Session : ~Pending(f, q)'
  <2>1. f \in uploads /\ f \in Path
    BY <1>1, <1>2, <1>7, <1>8 DEF DraftFits, FInv, FTypeOK
  <2>2. (\A k \in Key : ~CopyOf(f, k)) /\ (\A q \in Session : ~Pending(f, q))
    BY <2>1 DEF OneRole, FInv
  <2> QED
    BY <1>6, <2>2 DEF Pending
<1>9. ASSUME f \notin contested \cup {NoPath}
      PROVE  /\ f \in disk
             /\ \A x \in Secret : home[x] # f
             /\ \A q \in Session : ~Takes(q, f)'
  <2>1. f \in disk /\ f \in Path /\ Takes(p, f)
    BY <1>1, <1>2, <1>7, <1>9 DEF DraftFits, File, Takes
  <2>2. (\A x \in Secret : home[x] # f) /\ (\A q \in Session : Takes(q, f) => q = p)
    BY <1>9, <2>1 DEF OneRole, FInv
  <2> QED
    BY <1>6, <2>1, <2>2 DEF Takes
<1>10. PICK u \in User : u = job[p].user
  BY <1>3
<1>11. PICK t \in Nat : t = now
  BY <1>3
<1>12. Create(u, d, f, s, t) /\ home' = [home EXCEPT ![s] = f]
  BY <1>1, <1>7, <1>10, <1>11
<1>13. \A q \in Session :
           \/ job'[q] = job[q]
           \/ job[q].op = "finalize" /\ job'[q].op = "clear" /\ job'[q].file = NoPath
  BY <1>1, <1>6
<1>14. /\ f \notin contested \cup {NoPath} => /\ f \in disk
                                             /\ \A x \in Secret : home[x] # f
                                             /\ \A q \in Session : ~Takes(q, f)'
       /\ f # NoPath => /\ \A k \in Key : ~CopyOf(f, k)
                        /\ \A q \in Session : ~Pending(f, q)'
  BY <1>8, <1>9
<1> QED
  BY <1>1, <1>3, <1>4, <1>6, <1>12, <1>13, <1>14, Inserted

LEMMA RelayInsertStep ==
    ASSUME FInv, NEW p \in Session, NEW s \in Secret, RelayInsert(p, s)
    PROVE  FInv'
<1>1. /\ job[p].op = "relay_insert"
      /\ home' = [home EXCEPT ![s] = job[p].copy]
      /\ job' = [job EXCEPT ![p].op = "relay_drop"]
      /\ UNCHANGED <<disk, draft, relay, timers, sweep, faults, uploads, contested, mishaps>>
  BY DEF RelayInsert, Advance
<1>2. Relays(p) /\ ~Delivers(p)
  BY <1>1 DEF Relays, Delivers
<1>3. /\ job[p].viewer \in User /\ job[p].copy \in File
      /\ ValidDraft(RelayDraft(job[p].kind))
      /\ Create(job[p].viewer, RelayDraft(job[p].kind), job[p].copy, s, now)
  BY RelayCreates DEF FInv, RelayJob, File
<1>4. now \in Nat /\ IInv'
  <2>1. [FNext]_allvars
    BY DEF FNext, Handler
  <2> QED
    BY <2>1, StoreKept DEF FInv, IInv, TypeOK
<1>5. GoesOn(p, "relay_drop", job[p].copy)
  BY <1>1, <1>2, JobAdvances DEF FInv
<1>6. /\ job' \in [Session -> {NoJob} \cup UnlinkJob \cup DeliverJob \cup RelayJob \cup DraftJob]
      /\ \A q \in Session \ {p} : job'[q] = job[q]
      /\ job'[p].op = "relay_drop" /\ job'[p].cached = job[p].cached
      /\ job'[p].secret = job[p].secret /\ job'[p].viewer = job[p].viewer
      /\ job'[p].kind = job[p].kind
  BY <1>2, <1>5 DEF GoesOn
<1>7. /\ \E u \in User : u = job[p].viewer
      /\ \E f \in File : f = job[p].copy
      /\ \E d : d = RelayDraft(job[p].kind)
  BY <1>3
<1>8. PICK u \in User : u = job[p].viewer
  BY <1>7
<1>9. PICK f \in File : f = job[p].copy
  BY <1>7
<1>10. PICK d : d = RelayDraft(job[p].kind)
  BY <1>7
<1>11. ASSUME f # NoPath
       PROVE  /\ f \in disk
              /\ \A x \in Secret : home[x] # f
              /\ \A k \in Key : ~CopyOf(f, k)
              /\ \A q \in Session : ~Pending(f, q)' /\ ~Takes(q, f)'
  <2>1. f \in disk /\ f \in Path
    BY <1>1, <1>2, <1>9, <1>11 DEF FInv, RelayFits, File
  <2>2. OneRole(f) /\ Pending(f, p)
    BY <1>1, <1>9, <2>1 DEF FInv, Pending
  <2>3. \A q \in Session : ~Pending(f, q)'
    BY <1>6, <2>2 DEF Pending, OneRole
  <2>4. /\ \A x \in Secret : home[x] # f
        /\ \A k \in Key : ~CopyOf(f, k)
        /\ f \notin uploads
    BY <2>2 DEF OneRole
  <2>5. \A q \in Session \ {p} : ~Takes(q, f)
    BY <1>11, <2>4 DEF FInv, DraftFits, Takes
  <2>6. \A q \in Session : ~Takes(q, f)'
    BY <1>6, <2>5 DEF Takes
  <2> QED
    BY <2>1, <2>3, <2>4, <2>6
<1>12. ValidDraft(d) /\ Create(u, d, f, s, now) /\ home' = [home EXCEPT ![s] = f]
  BY <1>1, <1>3, <1>8, <1>9, <1>10
<1>14. PICK t \in Nat : t = now
  BY <1>4
<1>15. Create(u, d, f, s, t)
  BY <1>12, <1>14
<1>16. \A q \in Session :
           \/ job'[q] = job[q]
           \/ /\ job[q].op = "relay_insert" /\ job'[q].op = "relay_drop"
              /\ job'[q].cached = job[q].cached /\ job'[q].kind = job[q].kind
              /\ job'[q].secret = job[q].secret /\ job'[q].viewer = job[q].viewer
  BY <1>1, <1>6
<1>17. /\ IInv' /\ ValidDraft(d) /\ home' = [home EXCEPT ![s] = f]
       /\ UNCHANGED <<disk, draft, relay, timers, sweep, faults, uploads, contested, mishaps>>
       /\ job' \in [Session -> {NoJob} \cup UnlinkJob \cup DeliverJob \cup RelayJob \cup DraftJob]
  BY <1>1, <1>4, <1>6, <1>12
<1>18. /\ f \notin contested \cup {NoPath} => /\ f \in disk
                                             /\ \A x \in Secret : home[x] # f
                                             /\ \A q \in Session : ~Takes(q, f)'
       /\ f # NoPath => /\ \A k \in Key : ~CopyOf(f, k)
                        /\ \A q \in Session : ~Pending(f, q)'
  BY <1>11
<1> QED
  BY <1>15, <1>16, <1>17, <1>18, Inserted

-----------------------------------------------------------------------------
(* The steps of a draft *)

\* A handler goes on with a draft: a path it takes is nobody's or contested.
LEMMA DraftGoesOn ==
    ASSUME FInv, NEW p \in Session, NEW j \in DraftJob, job' = [job EXCEPT ![p] = j],
           tx[p] = Idle, ~Delivers(p), ~Relays(p),
           UNCHANGED <<vars, draft, relay, timers, sweep, faults, home, mishaps>>,
           disk' \subseteq disk \cup Fresh, \A c \in disk : c \in disk' \/ MayGo(c),
           contested \subseteq contested', contested' \subseteq uploads',
           uploads \subseteq uploads', uploads' \subseteq uploads \cup Fresh,
           \A c \in Path \ contested' :
               Takes(p, c)' => \/ Takes(p, c)
                               \/ /\ \A s \in Secret : home[s] # c
                                  /\ \A q \in Session : ~Takes(q, c),
           DraftFits(p)'
    PROVE  FInv'
<1>1. UNCHANGED <<rows, tx>>
  BY DEF vars
<1>2. /\ job' \in [Session -> {NoJob} \cup UnlinkJob \cup DeliverJob \cup RelayJob \cup DraftJob]
      /\ job'[p] = j /\ \A q \in Session \ {p} : job'[q] = job[q]
      /\ j.op \in {"edit", "finalize", "drop", "clear"}
  BY DEF FInv, FTypeOK, DraftJob
<1>3. /\ ~Delivers(p)' /\ ~Relays(p)' /\ \A c : ~Pending(c, p)'
      /\ \A q \in Session \ {p} : /\ Delivers(q)' <=> Delivers(q)
                                  /\ Relays(q)' <=> Relays(q)
                                  /\ KeyOf(q)' = KeyOf(q)
      /\ \A c, q : q \in Session \ {p} => (Takes(q, c)' <=> Takes(q, c))
  BY <1>2 DEF Delivers, Relays, KeyOf, Pending, Takes
<1>4. FTypeOK'
  <2>1. disk' \subseteq Path /\ uploads' \subseteq Path
    BY DEF FInv, FTypeOK, Fresh
  <2> QED
    BY <1>2, <2>1 DEF FInv, FTypeOK
<1>5. \A c \in Path : OneRole(c)'
  <2>1. ASSUME NEW c \in Path, NEW k \in Key, CopyOf(c, k)'
        PROVE  CopyOf(c, k)
    <3>1. CASE relay'[k].copy = c \/ <<k, c>> \in timers'
      BY <3>1 DEF CopyOf
    <3>2. CASE \E q \in Session : Delivers(q)' /\ KeyOf(q)' = k /\ job'[q].copy = c
      BY <1>2, <1>3, <3>2 DEF CopyOf
    <3>3. CASE \E q \in Session : Relays(q)' /\ KeyOf(q)' = k /\ job'[q].cached = c
      BY <1>2, <1>3, <3>3 DEF CopyOf
    <3> QED
      BY <2>1, <3>1, <3>2, <3>3 DEF CopyOf
  <2>2. \A c \in Path, q \in Session : Pending(c, q)' => Pending(c, q)
    BY <1>2, <1>3 DEF Pending
  <2>3. ASSUME NEW c \in Path \ contested', NEW q \in Session, Takes(q, c)'
        PROVE  \/ Takes(q, c)
               \/ /\ \A s \in Secret : home[s] # c
                  /\ \A r \in Session : Takes(r, c)' => r = q
    BY <1>3, <2>3
  <2> QED
    BY <2>1, <2>2, <2>3, RolesShrink
<1>6. ASSUME NEW q \in Session
      PROVE  CopyIsNew(q)'
  <2>1. CASE q = p
    BY <1>2, <2>1 DEF CopyIsNew
  <2>2. CASE q # p
    <3>1. /\ \A k \in Key : \/ relay'[k].copy = relay[k].copy \/ relay'[k].copy = NoPath
                            \/ p # q /\ Delivers(p) /\ relay'[k].copy = job[p].copy
          /\ \A t \in timers' : t \in timers \/ (p # q /\ Delivers(p) /\ t[2] = job[p].copy)
      OBVIOUS
    <3> QED
      BY <1>2, <1>3, <1>4, <2>2, <3>1, NewCopyStays
  <2> QED
    BY <2>1, <2>2
<1>7. ASSUME NEW q \in Session
      PROVE  DeliverFits(q)' /\ RelayFits(q)' /\ UnlinkFits(q)' /\ DraftFits(q)'
  <2>1. DeliverFits(p)' /\ RelayFits(p)' /\ UnlinkFits(p)'
    BY <1>2, <1>3 DEF DeliverFits, RelayFits, UnlinkFits
  <2> QED
    BY <1>1, <1>2, <2>1, JobStays
<1>8. \A k \in Key : EntryFits(k)'
  <2>1. DropsGoOn
    BY <1>2 DEF DropsGoOn, Relays
  <2> QED
    BY <2>1, EntriesStay
<1>9. \A q \in Session : tx[q] # Idle => job'[q] = NoJob
  BY <1>2 DEF FInv, TxFits
<1>10. \A s \in Secret : LastFits(s)'
  BY <1>1, <1>2, LastStays
<1>11. MishapsKept /\ DraftsKnown'
  BY DEF MishapsKept, DraftsKnown, FInv
<1> QED
  BY <1>4, <1>5, <1>6, <1>7, <1>8, <1>9, <1>10, <1>11, FileStep

LEMMA UploadStep ==
    ASSUME FInv, NEW p \in Session, NEW u \in User, Upload(p, u)
    PROVE  FInv'
<1>1. PICK f \in Fresh :
          /\ disk' = disk \cup {f} /\ uploads' = uploads \cup {f}
          /\ job' = [job EXCEPT ![p] = [op |-> "edit", user |-> u, file |-> f]]
  BY DEF Upload
<1>2. /\ tx[p] = Idle /\ job[p] = NoJob
      /\ UNCHANGED <<vars, draft, relay, timers, sweep, faults, home, contested, mishaps>>
  BY DEF Upload, Idles
<1> DEFINE j == [op |-> "edit", user |-> u, file |-> f]
<1>3. j \in DraftJob /\ j.op = "edit" /\ j.file = f /\ ~Delivers(p) /\ ~Relays(p)
  BY <1>2, FreshName DEF DraftJob, File, Delivers, Relays, NoJob
<1>4. job'[p] = j /\ job' = [job EXCEPT ![p] = j]
  BY <1>1 DEF FInv, FTypeOK
<1> HIDE DEF j
<1>5. DraftFits(p)' /\ \A c : ~Takes(p, c)'
  BY <1>1, <1>3, <1>4 DEF DraftFits, Takes
<1>6. contested' \subseteq uploads' /\ contested \subseteq contested'
  BY <1>1, <1>2 DEF FInv, FTypeOK
<1>7. disk' \subseteq disk \cup Fresh /\ uploads' \subseteq uploads \cup Fresh
      /\ uploads \subseteq uploads' /\ \A c \in disk : c \in disk' \/ MayGo(c)
  BY <1>1
<1> QED
  BY <1>2, <1>3, <1>4, <1>5, <1>6, <1>7, DraftGoesOn

LEMMA DraftReadStep ==
    ASSUME FInv, NEW p \in Session, NEW u \in User, NEW op \in Pressed, DraftRead(p, u, op)
    PROVE  FInv'
<1> DEFINE f == draft[u]
           j == [op |-> op, user |-> u, file |-> f]
           Taken == \/ f \notin disk
                    \/ \E s \in Secret : home[s] = f
                    \/ \E q \in Session : Takes(q, f)
<1>1. /\ tx[p] = Idle /\ job[p] = NoJob /\ op \in {"edit", "finalize", "drop"}
      /\ job' = [job EXCEPT ![p] = j]
      /\ contested' = IF op # "edit" /\ f # NoPath /\ Taken THEN contested \cup {f}
                      ELSE contested
      /\ UNCHANGED <<vars, disk, draft, relay, timers, sweep, faults, home, uploads, mishaps>>
  BY FaultAssumption DEF DraftRead, Idles
<1>2. f \in File /\ f \in uploads \cup {NoPath}
  BY DEF FInv, FTypeOK, DraftsKnown
<1>3. j \in DraftJob /\ j.op = op /\ j.file = f /\ ~Delivers(p) /\ ~Relays(p)
  BY <1>1, <1>2 DEF DraftJob, Delivers, Relays, NoJob
<1> HIDE DEF f, j
<1>4. job'[p] = j
  BY <1>1 DEF FInv, FTypeOK
<1>5. contested \subseteq contested' /\ contested' \subseteq uploads'
  BY <1>1, <1>2 DEF FInv, FTypeOK
<1>6. op # "edit" /\ f \notin contested' \cup {NoPath} => ~Taken
  BY <1>1
<1>7. DraftFits(p)'
  <2>1. job'[p].op = op /\ job'[p].file = f
    BY <1>3, <1>4
  <2> QED
    BY <1>1, <1>2, <1>6, <2>1 DEF DraftFits
<1>8. ASSUME NEW c \in Path \ contested', Takes(p, c)'
      PROVE  (\A s \in Secret : home[s] # c) /\ (\A q \in Session : ~Takes(q, c))
  <2>1. c = f /\ op # "edit" /\ c # NoPath
    BY <1>3, <1>4, <1>8, NullAssumption DEF Takes
  <2>2. ~Taken
    BY <1>6, <1>8, <2>1
  <2> QED
    BY <2>1, <2>2
<1> HIDE DEF Taken
<1>9. disk' \subseteq disk \cup Fresh /\ \A c \in disk : c \in disk' \/ MayGo(c)
  BY <1>1
<1> QED
  BY <1>1, <1>3, <1>5, <1>7, <1>8, <1>9, DraftGoesOn

LEMMA DraftUnlinkStep ==
    ASSUME FInv, NEW p \in Session, DraftUnlink(p)
    PROVE  FInv'
<1>1. /\ job[p].op = "drop" /\ disk' = disk \ {job[p].file}
      /\ job' = [job EXCEPT ![p] = Clearing(p)]
      /\ UNCHANGED <<vars, draft, relay, timers, sweep, faults, home, uploads, contested, mishaps>>
  BY DEF DraftUnlink, ghosts
<1>2. /\ job[p] \in DraftJob /\ DraftFits(p) /\ tx[p] = Idle
      /\ ~Delivers(p) /\ ~Relays(p)
  <2>1. job[p] # NoJob
    BY <1>1 DEF NoJob
  <2> QED
    BY <1>1, <2>1, JobTypes, NoTransaction DEF FInv, Delivers, Relays
<1> DEFINE j == Clearing(p)
<1>3. j \in DraftJob /\ j.op = "clear" /\ j.file = NoPath
  BY <1>2 DEF Clearing, DraftJob, File
<1> HIDE DEF j
<1>4. job'[p] = j /\ job' = [job EXCEPT ![p] = j]
  BY <1>1 DEF FInv, FTypeOK, j
<1>5. DraftFits(p)' /\ \A c : ~Takes(p, c)'
  BY <1>3, <1>4 DEF DraftFits, Takes
<1>6. \A c \in disk : c \in disk' \/ MayGo(c)
  <2> SUFFICES ASSUME NEW c \in disk, c \notin disk'
               PROVE  MayGo(c)
    OBVIOUS
  <2>1. c = job[p].file /\ c \in Path
    BY <1>1 DEF FInv, FTypeOK
  <2>2. c \in uploads /\ Takes(p, c)
    BY <1>1, <1>2, <2>1, NullAssumption DEF DraftFits, Takes
  <2> QED
    BY <1>5, <2>2 DEF MayGo
<1>7. /\ contested \subseteq contested' /\ contested' \subseteq uploads'
      /\ disk' \subseteq disk \cup Fresh /\ uploads' \subseteq uploads \cup Fresh
      /\ uploads \subseteq uploads'
  BY <1>1 DEF FInv, FTypeOK
<1> QED
  BY <1>1, <1>2, <1>3, <1>4, <1>5, <1>6, <1>7, DraftGoesOn

\* The SET of a draft ends its handler.
LEMMA DraftWritten ==
    ASSUME FInv, NEW p \in Session, DraftWrite(p) \/ DraftClear(p)
    PROVE  FInv'
<1>1. /\ job[p].op \in {"edit", "clear"}
      /\ job' = [job EXCEPT ![p] = NoJob]
      /\ UNCHANGED <<vars, disk, relay, timers, sweep, faults, home, uploads, contested, mishaps>>
      /\ draft' = [draft EXCEPT ![job[p].user] = job[p].file]
         \/ draft' = [draft EXCEPT ![job[p].user] = NoPath]
  BY DEF DraftWrite, DraftClear, ghosts
<1>2. /\ job[p] \in DraftJob /\ DraftFits(p) /\ job[p] # NoJob /\ ~Delivers(p)
      /\ draft \in [User -> File] /\ DraftsKnown
  BY <1>1, JobTypes DEF FInv, FTypeOK, Delivers, NoJob
<1>3. job[p].file \in File /\ NoPath \in File /\ job[p].file \in uploads \cup {NoPath}
      /\ job[p].user \in User
  BY <1>1, <1>2 DEF DraftJob, File, DraftFits
<1>4. draft' \in [User -> File] /\ DraftsKnown'
  <2>1. PICK g \in File : g \in uploads \cup {NoPath} /\ draft' = [draft EXCEPT ![job[p].user] = g]
    BY <1>1, <1>3
  <2> QED
    BY <1>1, <1>2, <2>1 DEF DraftsKnown
<1>5. /\ relay' \in [Key -> RelayEntry] /\ timers' \subseteq (Key \X Path)
      /\ faults' \in 0..MaxFaults
      /\ job \in [Session -> {NoJob} \cup UnlinkJob \cup DeliverJob \cup RelayJob \cup DraftJob]
  BY <1>1 DEF FInv, FTypeOK
<1>6. MishapsKept /\ DropsGoOn
  BY <1>1, <1>5 DEF MishapsKept, DropsGoOn
<1> QED
  BY <1>1, <1>2, <1>4, <1>5, <1>6, JobEnds

LEMMA DraftForgetStep ==
    ASSUME FInv, NEW u \in User, DraftForget(u)
    PROVE  FInv'
<1>1. /\ draft' = [draft EXCEPT ![u] = NoPath]
      /\ UNCHANGED <<vars, disk, job, relay, timers, sweep, faults, home, uploads, contested,
                     mishaps>>
  BY DEF DraftForget, ghosts
<1>2. draft' \in [User -> File] /\ DraftsKnown'
  BY <1>1 DEF FInv, FTypeOK, DraftsKnown, File
<1>3. relay' \in [Key -> RelayEntry]
  BY <1>1 DEF FInv, FTypeOK
<1> QED
  BY <1>1, <1>2, <1>3, NoHandlerStep

-----------------------------------------------------------------------------
(* The crashes *)

\* What a handler leaves behind when it stops.
LEMMA LeftFits ==
    ASSUME FInv, NEW p \in Session
    PROVE  /\ LeftBy(p) \subseteq Mishap
           /\ \A s \in Secret : /\ <<"missing", s>> \notin LeftBy(p)
                                /\ <<"plaintext", s>> \in LeftBy(p) => <<"cut off", s>> \in LeftBy(p)
           /\ job[p].op = "relay_del" => <<"undropped", KeyOf(p)>> \in LeftBy(p)
<1>1. CASE Delivers(p)
  <2>1. job[p].secret \in Secret /\ job[p].op # "relay_del"
    BY <1>1, JobTypes DEF FInv, DeliverJob, Delivers
  <2>2. PICK x \in Secret : x = job[p].secret
    BY <2>1
  <2>3. LeftBy(p) = {<<"cut off", x>>} \cup (IF job[p].kind = "file" THEN {<<"plaintext", x>>}
                                            ELSE {})
    BY <1>1, <2>1, <2>2 DEF LeftBy
  <2>4. <<"cut off", x>> \in Mishap /\ <<"plaintext", x>> \in Mishap
    BY DEF Mishap
  <2> QED
    BY <2>1, <2>3, <2>4
<1>2. CASE job[p].op = "relay_del"
  <2>1. KeyOf(p) \in Key /\ ~Delivers(p)
    BY <1>2, JobTypes DEF FInv, Relays
  <2>2. PICK k \in Key : k = KeyOf(p)
    BY <2>1
  <2>3. LeftBy(p) = {<<"undropped", k>>}
    BY <1>2, <2>1, <2>2 DEF LeftBy
  <2>4. <<"undropped", k>> \in Mishap
    BY DEF Mishap
  <2> QED
    BY <2>2, <2>3, <2>4
<1>3. CASE ~Delivers(p) /\ job[p].op # "relay_del"
  BY <1>3 DEF LeftBy
<1> QED
  BY <1>1, <1>2, <1>3

LEMMA HandlerFailsStep ==
    ASSUME FInv, NEW p \in Session, HandlerFails(p)
    PROVE  FInv'
<1>1. /\ job[p].op \notin {"none", "unlink", "send"}
      /\ job' = [job EXCEPT ![p] = NoJob]
      /\ mishaps' = mishaps \cup LeftBy(p)
      /\ faults < MaxFaults /\ faults' = faults + 1
      /\ UNCHANGED <<vars, disk, draft, relay, timers, sweep, home, uploads, contested>>
  BY DEF HandlerFails
<1>2. job[p] # NoJob
  BY <1>1 DEF NoJob
<1>3. faults' \in 0..MaxFaults /\ faults' # 0
  <2>1. faults \in 0..MaxFaults /\ MaxFaults \in Nat
    BY FaultAssumption DEF FInv, FTypeOK
  <2> QED
    BY <1>1, <2>1
<1>4. MishapsKept
  <2>1. PICK left : left = LeftBy(p)
    OBVIOUS
  <2>2. /\ left \subseteq Mishap /\ mishaps' = mishaps \cup left
        /\ \A s \in Secret : /\ <<"missing", s>> \notin left
                             /\ <<"plaintext", s>> \in left => <<"cut off", s>> \in left
    BY <1>1, <2>1, LeftFits
  <2> QED
    BY <2>2, RecordsFault
<1>5. DropsGoOn
  <2> SUFFICES ASSUME NEW q \in Session, job[q].op = "relay_del", job'[q] # job[q]
               PROVE  <<"undropped", KeyOf(q)>> \in mishaps'
    BY DEF DropsGoOn
  <2>1. q = p
    BY <1>1 DEF FInv, FTypeOK
  <2> QED
    BY <1>1, <2>1, LeftFits
<1>6. relay' \in [Key -> RelayEntry] /\ timers' \subseteq (Key \X Path)
  BY <1>1 DEF FInv, FTypeOK
<1> QED
  BY <1>1, <1>2, <1>3, <1>4, <1>5, <1>6, JobEnds

LEMMA BotCrashStep ==
    ASSUME FInv, BotCrash
    PROVE  FInv'
<1>1. /\ tx' = [p \in Session |-> Idle] /\ job' = [p \in Session |-> NoJob]
      /\ timers' = {} /\ faults < MaxFaults /\ faults' = faults + 1
      /\ mishaps' = mishaps \cup UNION {LeftBy(p) : p \in Session}
      /\ UNCHANGED <<now, rows, worker, disk, draft, relay, sweep, home, uploads, contested>>
  BY DEF BotCrash
<1>2. IInv'
  <2>1. [FNext]_allvars
    BY DEF FNext
  <2> QED
    BY <2>1, StoreKept DEF FInv
<1>3. /\ faults \in 0..MaxFaults /\ MaxFaults \in Nat
      /\ faults' \in 0..MaxFaults /\ faults' # 0
  <2>1. faults \in 0..MaxFaults /\ MaxFaults \in Nat
    BY FaultAssumption DEF FInv, FTypeOK
  <2> QED
    BY <1>1, <2>1
<1>0. MishapsKept
  <2> DEFINE left == UNION {LeftBy(p) : p \in Session}
  <2>1. \A m : m \in left <=> \E p \in Session : m \in LeftBy(p)
    OBVIOUS
  <2>2. mishaps' = mishaps \cup left
    BY <1>1
  <2> HIDE DEF left
  <2>3. left \subseteq Mishap
    BY <2>1, LeftFits
  <2>4. ASSUME NEW s \in Secret
        PROVE  /\ <<"missing", s>> \notin left
               /\ <<"plaintext", s>> \in left => <<"cut off", s>> \in left
    <3>1. \A p \in Session : /\ <<"missing", s>> \notin LeftBy(p)
                             /\ <<"plaintext", s>> \in LeftBy(p) => <<"cut off", s>> \in LeftBy(p)
      BY LeftFits
    <3> QED
      BY <2>1, <3>1
  <2> QED
    BY <2>2, <2>3, <2>4, RecordsFault
<1>4. FTypeOK'
  BY <1>0, <1>1, <1>3, MishapsRest DEF FInv, FTypeOK
<1>5. \A q \in Session : /\ job'[q] = NoJob /\ job'[q].op = "none" /\ tx'[q] = Idle
                         /\ ~Delivers(q)' /\ ~Relays(q)'
                         /\ \A c : ~Pending(c, q)' /\ ~Takes(q, c)'
  BY <1>1 DEF NoJob, Delivers, Relays, Pending, Takes
<1>6. \A c \in Path : OneRole(c)'
  <2>1. \A c \in Path, k \in Key : CopyOf(c, k)' => CopyOf(c, k)
    BY <1>1, <1>5 DEF CopyOf
  <2>2. /\ \A c \in Path, q \in Session : Pending(c, q)' => Pending(c, q)
        /\ \A c \in Path, q \in Session : Takes(q, c)' => Takes(q, c)
    BY <1>5
  <2> QED
    BY <1>1, <2>1, <2>2, RolesShrink
<1>7. \A q \in Session : /\ CopyIsNew(q)'
                         /\ DeliverFits(q)' /\ RelayFits(q)' /\ UnlinkFits(q)' /\ DraftFits(q)'
  BY <1>5 DEF CopyIsNew, DeliverFits, RelayFits, UnlinkFits, DraftFits
<1>12. \A c \in disk : c \in disk' \/ MayGo(c)
  BY <1>1
<1>8. \A k \in Key : EntryFits(k)'
  <2>1. DropsGoOn
    <3> SUFFICES ASSUME NEW q \in Session, job[q].op = "relay_del"
                 PROVE  <<"undropped", KeyOf(q)>> \in mishaps'
      BY DEF DropsGoOn
    <3> QED
      BY <1>1, LeftFits
  <2> QED
    BY <1>0, <1>1, <1>12, <2>1, EntriesStay, MishapsRest
<1>9. \A s \in Secret : HomeFits(s)' /\ LastFits(s)'
  <2>1. \A s \in Secret : HomeFits(s)'
    BY <1>0, <1>1, <1>12, HomesStay
  <2> QED
    BY <1>3, <2>1 DEF LastFits
<1>10. \A q \in Session : TxFits(q)'
  BY <1>5 DEF TxFits, Idle
<1>11. WorkerFits' /\ SweepFits'
  BY <1>1 DEF FInv, WorkerFits, SweepFits, EndedHome, Ended
<1>13. DraftsKnown' /\ MishapsFit'
  BY <1>0, <1>1, MishapsRest DEF FInv, DraftsKnown
<1> QED
  BY <1>2, <1>4, <1>6, <1>7, <1>8, <1>9, <1>10, <1>11, <1>13 DEF FInv

LEMMA WorkerCrashStep ==
    ASSUME FInv, WorkerCrash
    PROVE  FInv'
<1>1. /\ worker' = Idle /\ sweep' = {} /\ faults < MaxFaults /\ faults' = faults + 1
      /\ UNCHANGED <<now, rows, tx, disk, draft, job, relay, timers, home, uploads, contested,
                     mishaps>>
  BY DEF WorkerCrash, ghosts
<1>2. IInv'
  <2>1. [FNext]_allvars
    BY DEF FNext
  <2> QED
    BY <2>1, StoreKept DEF FInv
<1>3. /\ faults' \in 0..MaxFaults /\ faults' # 0
  <2>1. faults \in 0..MaxFaults /\ MaxFaults \in Nat
    BY FaultAssumption DEF FInv, FTypeOK
  <2> QED
    BY <1>1, <2>1
<1>4. FTypeOK'
  BY <1>1, <1>3 DEF FInv, FTypeOK
<1>5. \A c \in Path : OneRole(c)'
  <2>1. \A c \in Path, k \in Key : CopyOf(c, k)' => CopyOf(c, k)
    BY <1>1 DEF CopyOf, Delivers, Relays, KeyOf
  <2>2. \A c \in Path, q \in Session : Pending(c, q)' => Pending(c, q)
    BY <1>1 DEF Pending
  <2>3. \A c \in Path, q \in Session : Takes(q, c)' => Takes(q, c)
    BY <1>1 DEF Takes
  <2> QED
    BY <1>1, <2>1, <2>2, <2>3, RolesShrink
<1>6. \A q \in Session : CopyIsNew(q)'
  BY <1>1 DEF FInv, CopyIsNew, Delivers, Relays
<1>7. \A q \in Session : DeliverFits(q)' /\ RelayFits(q)' /\ UnlinkFits(q)' /\ DraftFits(q)'
  <2>1. UNCHANGED <<rows, home, uploads, contested>> /\ (\A c \in disk : c \in disk' \/ MayGo(c))
    BY <1>1
  <2>2. \A q \in Session : job'[q] = job[q]
    BY <1>1
  <2> QED
    BY <2>1, <2>2, JobStays
<1>8. \A k \in Key : EntryFits(k)'
  BY <1>1 DEF FInv, EntryFits, Dropping, KeyOf
<1>9. \A s \in Secret : HomeFits(s)' /\ LastFits(s)'
  BY <1>1, <1>3 DEF FInv, HomeFits, LastFits, Ended
<1>12. DraftsKnown' /\ MishapsFit'
  BY <1>1 DEF FInv, DraftsKnown, MishapsFit
<1>10. \A q \in Session : TxFits(q)'
  BY <1>1 DEF FInv, TxFits, Ended
<1>11. WorkerFits' /\ SweepFits'
  BY <1>1 DEF WorkerFits, SweepFits, Idle
<1> QED
  BY <1>2, <1>4, <1>5, <1>6, <1>7, <1>8, <1>9, <1>10, <1>11, <1>12 DEF FInv

-----------------------------------------------------------------------------
(* The theorems *)

LEMMA InitFInv == FInit => FInv
<1> SUFFICES ASSUME FInit
             PROVE  FInv
  OBVIOUS
<1>1. IInv
  BY InitIInv DEF FInit
<1>2. /\ disk = {} /\ timers = {} /\ sweep = {} /\ faults = 0 /\ mishaps = {} /\ uploads = {}
      /\ \A u \in User : draft[u] = NoPath
      /\ \A p \in Session : job[p] = NoJob /\ tx[p] = Idle
      /\ \A k \in Key : relay[k] = NoEntryCached
      /\ \A s \in Secret : home[s] = NoPath /\ rows[s] = AbsentRow
      /\ worker = Idle
  BY DEF FInit, Init
<1>3. FTypeOK
  BY FaultAssumption DEF FInit, FTypeOK, File, RelayEntry, NoEntryCached
<1>4. \A p \in Session : /\ job[p].op = "none" /\ ~Delivers(p) /\ ~Relays(p)
                         /\ \A c : ~Pending(c, p) /\ ~Takes(p, c)
  BY <1>2 DEF NoJob, Delivers, Relays, Pending, Takes
<1>5. \A c \in Path : OneRole(c)
  <2>1. \A c \in Path, k \in Key : ~CopyOf(c, k)
    BY <1>2, <1>4, NullAssumption DEF CopyOf, NoEntryCached
  <2> QED
    BY <1>2, <1>4, <2>1, NullAssumption DEF OneRole
<1>6. \A p \in Session : /\ CopyIsNew(p)
                         /\ DeliverFits(p) /\ RelayFits(p) /\ UnlinkFits(p) /\ DraftFits(p)
  BY <1>4 DEF CopyIsNew, DeliverFits, RelayFits, UnlinkFits, DraftFits
<1>7. \A k \in Key : EntryFits(k)
  BY <1>2 DEF EntryFits, NoEntryCached
<1>8. \A s \in Secret : HomeFits(s) /\ LastFits(s)
  BY <1>2 DEF HomeFits, LastFits, AbsentRow, IsActive
<1>9. \A p \in Session : TxFits(p)
  BY <1>2 DEF TxFits, Idle
<1>10. WorkerFits /\ SweepFits
  BY <1>2 DEF WorkerFits, SweepFits, Idle
<1>11. DraftsKnown /\ MishapsFit
  BY <1>2 DEF DraftsKnown, MishapsFit
<1> QED
  BY <1>1, <1>3, <1>5, <1>6, <1>7, <1>8, <1>9, <1>10, <1>11 DEF FInv

LEMMA NextFInv == FInv /\ [FNext]_allvars => FInv'
<1> SUFFICES ASSUME FInv, [FNext]_allvars
             PROVE  FInv'
  OBVIOUS
<1>1. ASSUME NEW p \in Session, Handler(p)
      PROVE  FInv'
  <2>1. CASE Drafting(p)
    BY <2>1, UploadStep, DraftReadStep, FinalizeStep, DraftUnlinkStep, DraftWritten DEF Drafting
  <2> QED
    BY <1>1, <2>1, FSessionStep, FCommitStep, FPanicCommitStep, UnlinkStep, StartStep, CloneStep,
       CacheStep, ArmStep, SentStep, SendFailsStep, HandlerFailsStep, RelayCloneStep,
       RelayUnlinkStep, RelayDropStep, RelayInsertStep, RelayBeginStep DEF Handler
<1>2. CASE \E u \in User : DraftForget(u)
  BY <1>2, DraftForgetStep
<1>3. CASE Tick /\ UNCHANGED fvars
  BY <1>3, FTickStep
<1>4. CASE \/ \E k \in Key : RelayExpires(k)
           \/ \E t \in timers : TimerFires(t)
           \/ Sweep
  BY <1>4, RelayExpiresStep, TimerFiresStep, SweepStep
<1>5. CASE FWorker
  BY <1>5, FWorkerStep
<1>6. CASE BotCrash \/ WorkerCrash
  BY <1>6, BotCrashStep, WorkerCrashStep
<1>7. CASE UNCHANGED allvars
  <2>1. /\ UNCHANGED <<disk, draft, job, relay, timers, sweep, faults, home, uploads, contested,
                       mishaps>>
        /\ UNCHANGED vars
    BY <1>7 DEF allvars, vars
  <2>2. /\ relay' \in [Key -> RelayEntry]
        /\ \A k \in Key : relay'[k] = relay[k] \/ relay'[k] = NoEntryCached
    BY <2>1 DEF FInv, FTypeOK
  <2> QED
    BY <2>1, <2>2, NoHandlerStep
<1> QED
  BY <1>1, <1>2, <1>3, <1>4, <1>5, <1>6, <1>7 DEF FNext

\* The store, the files, the relay entries and the jobs fit together in every reachable state,
\* crashes and failed sends included.
THEOREM DeliveryInvariant == FSpec => []FInv
<1> QED
  BY InitFInv, NextFInv, PTL DEF FSpec

\* The state around the transactions is well typed.
THEOREM DeliveryTypesCorrect == FSpec => []FTypeOK
<1>1. FInv => FTypeOK
  BY DEF FInv
<1> QED
  BY <1>1, DeliveryInvariant, PTL

\* No interleaving of handlers, timers, worker, failures and crashes deletes the file of a secret
\* that can still be opened, or has a delivery find it gone, unless a handler took its path from
\* a draft when another had it; and a decrypted file is left only where a fault cut it off.
THEOREM OpenSecretsKeepFiles == FSpec => []ActiveFilePresent
<1>1. FInv => ActiveFilePresent
  <2> SUFFICES ASSUME FInv, NEW s \in Secret, IsActive(rows[s]), home[s] \notin contested
               PROVE  /\ rows[s].path = NoPath \/ rows[s].path \in disk
                      /\ <<"missing", s>> \notin mishaps
                      /\ <<"plaintext", s>> \in mishaps => <<"cut off", s>> \in mishaps
    BY DEF ActiveFilePresent
  <2>1. HomeFits(s) /\ ~Ended(s) /\ MishapsFit
    BY DEF FInv, IsActive, Ended
  <2> QED
    BY <2>1 DEF HomeFits, MishapsFit
<1> QED
  BY <1>1, DeliveryInvariant, PTL

\* A relay entry outlives the copy it names only between the two deletions of a relay of its own
\* key, or when that relay was cut off there.
THEOREM RelayEntriesUsable == FSpec => []RelayEntryUsable
<1>1. FInv => RelayEntryUsable
  BY DEF FInv, EntryFits, RelayEntryUsable
<1> QED
  BY <1>1, DeliveryInvariant, PTL

\* Without a fault, the file of a secret that ended with its last view is deleted by the delivery
\* of that view, before it is over.
THEOREM LastViewCleansUp == FSpec => []LastViewRemovesFile
<1>1. FInv => LastViewRemovesFile
  BY DEF FInv, LastFits, LastViewRemovesFile
<1> QED
  BY <1>1, DeliveryInvariant, PTL

\* With the deliveries, relays, crashes and rollbacks around it, the store still implements the
\* abstract one-time secret.
THEOREM DeliveryImplementsOneTimeSecret == FSpec => ImplementsOneTimeSecret
<1>1. FInit => Abstract!OInit
  BY DEF FInit, Init, Abstract!OInit, PhaseOf, AudienceOf, AbsentRow, NoEntry
<1>2. FInv /\ [FNext]_allvars => [Abstract!ONext]_(Abstract!ovars)
  <2> SUFFICES ASSUME FInv, [FNext]_allvars
               PROVE  [Abstract!ONext]_(Abstract!ovars)
    OBVIOUS
  <2>1. CASE [Next]_vars
    BY <2>1, StepRefines DEF FInv
  <2>2. ASSUME NEW p \in Session, NEW s \in Secret, RelayInsert(p, s)
        PROVE  Abstract!ONext
    <3>1. /\ job[p].viewer \in User /\ job[p].copy \in Path \cup {NoPath}
          /\ ValidDraft(RelayDraft(job[p].kind)) /\ now \in Nat
          /\ Create(job[p].viewer, RelayDraft(job[p].kind), job[p].copy, s, now)
      BY <2>2, RelayCreates DEF FInv, IInv, TypeOK
    <3>2. \E u \in User, path \in Path \cup {NoPath}, t \in Nat : \E d :
              ValidDraft(d) /\ Create(u, d, path, s, t)
      BY <3>1
    <3>3. Abstract!OCreate(s)
      BY <3>2, CreateRefines DEF FInv
    <3> QED
      BY <3>3 DEF Abstract!ONext
  <2>3. CASE BotCrash \/ WorkerCrash
    BY <2>3, Invisible DEF BotCrash, WorkerCrash
  <2> QED
    BY <2>1, <2>2, <2>3, StoreSteps DEF FInv
<1> QED
  BY <1>1, <1>2, DeliveryInvariant, PTL DEF FSpec, ImplementsOneTimeSecret, Abstract!OSpec

-----------------------------------------------------------------------------
(* The copies of a delivery, when no viewer opens a secret twice *)

\* The assumption of CopiesCollected: no fault and no rollback, and every counted view has a
\* viewer of its own.
SingleViews ==
    /\ faults = 0 /\ aborts = 0
    /\ \A s \in Secret : Cardinality(ledger[s].viewers) = ledger[s].opens

ViewersCounted(s) ==
    /\ IsFiniteSet(ledger[s].viewers)
    /\ Cardinality(ledger[s].viewers) <= ledger[s].opens

\* A delivery before and after it wrote the relay entry of its key.
Young(p) == job[p].op \in {"start", "clone", "cache"}
Written(p) == job[p].op \in {"arm", "send"}

DeliversTo(p, k) == Delivers(p) /\ KeyOf(p) = k
RelaysFrom(p, k) == Relays(p) /\ KeyOf(p) = k

Touched(k) ==
    \/ relay[k].kind # "none"
    \/ \E c \in Path : <<k, c>> \in timers
    \/ \E p \in Session : DeliversTo(p, k) \/ RelaysFrom(p, k)

\* One viewer opens one secret once: the entry, the timer and the relays of a key stem from its
\* only delivery, in this order, and name the same copy.
KeyFits(k) ==
    /\ Touched(k) => k[2] \in ledger[k[1]].viewers
    /\ \A p, q \in Session : DeliversTo(p, k) /\ DeliversTo(q, k) => p = q
    /\ \A p \in Session : DeliversTo(p, k) /\ Young(p) =>
           /\ relay[k].kind = "none"
           /\ \A c \in Path : <<k, c>> \notin timers
           /\ \A q \in Session : ~RelaysFrom(q, k)
    /\ \A p \in Session : DeliversTo(p, k) /\ Written(p) =>
           /\ relay[k].kind = "none" \/ relay[k].copy = job[p].copy
           /\ \A c \in Path : <<k, c>> \notin timers
    /\ \A c \in Path : <<k, c>> \in timers => relay[k].kind = "none" \/ relay[k].copy = c
    /\ \A p \in Session : RelaysFrom(p, k) =>
           relay[k].kind = "none" \/ relay[k].copy = job[p].cached
    /\ relay[k].kind = "file" =>
           \/ <<k, relay[k].copy>> \in timers
           \/ \E p \in Session : DeliversTo(p, k) /\ Written(p) /\ job[p].copy = relay[k].copy

\* The other file of a job is the one that its secret was created with. A cached copy that a
\* relay has deleted does not come back.
OwnFile(p) ==
    /\ Delivers(p) => job[p].file \in {NoPath, home[job[p].secret]}
    /\ job[p].op \in {"relay_drop", "relay_del"} =>
           job[p].copy = NoPath \/ \E s \in Secret : home[s] = job[p].copy
    /\ job[p].op = "relay_del" => job[p].cached \notin disk

\* Somebody still sees to a file.
Kept(c) ==
    \/ \E s \in Secret : home[s] = c
    \/ \E k \in Key : relay[k].copy = c
    \/ \E p \in Session : c \in JobFiles(job[p])
    \/ \E t \in timers : t[2] = c

\* The invariant behind CopiesCollected.
CopyInv ==
    /\ FInv
    /\ \A s \in Secret : ViewersCounted(s)
    /\ \A p \in Session : OwnFile(p)
    /\ SingleViews => (\A k \in Key : KeyFits(k)) /\ (\A c \in disk \ uploads : Kept(c))

\* What a step of a handler may do to a key of which it leaves entry and timers alone.
Steady(q, k) ==
    \/ job'[q] = job[q]
    \/ ~DeliversTo(q, k)' /\ ~RelaysFrom(q, k)' /\ ~(DeliversTo(q, k) /\ Written(q))
    \/ DeliversTo(q, k) /\ DeliversTo(q, k)' /\ Young(q) /\ Young(q)'
    \/ /\ DeliversTo(q, k) /\ DeliversTo(q, k)' /\ Written(q) /\ Written(q)'
       /\ job'[q].copy = job[q].copy
    \/ RelaysFrom(q, k) /\ RelaysFrom(q, k)' /\ job'[q].cached = job[q].cached

\* Viewers, uploads and files of secrets are kept for good.
Lasting ==
    /\ uploads \subseteq uploads'
    /\ \A s \in Secret : ledger[s].viewers \subseteq ledger'[s].viewers
    /\ \A s \in Secret : home'[s] = home[s] \/ home[s] = NoPath

\* A step while no viewer opened a secret twice, and what it has to preserve.
Collected == (\A k \in Key : KeyFits(k)) /\ (\A c \in disk \ uploads : Kept(c))

Onward ==
    /\ FInv /\ FInv' /\ Collected /\ Lasting
    /\ \A p \in Session : OwnFile(p)

LEMMA JobFilesOf ==
    ASSUME NEW j
    PROVE  /\ j.op = "none" => JobFiles(j) = {}
           /\ j.op = "unlink" => JobFiles(j) = j.paths
           /\ j.op \in {"relay", "relay_insert", "relay_drop", "relay_del"} =>
                  JobFiles(j) = {j.cached, j.copy}
           /\ j.op \in {"edit", "finalize", "drop", "clear"} => JobFiles(j) = {j.file}
           /\ j.op \in {"start", "clone", "cache", "arm", "send"} =>
                  JobFiles(j) = {j.file, j.copy}
BY DEF JobFiles

LEMMA KeyStays ==
    ASSUME Onward, NEW k \in Key,
           \/ relay'[k].kind = "none"
           \/ relay'[k].kind = relay[k].kind /\ relay'[k].copy = relay[k].copy,
           \A c \in Path : <<k, c>> \in timers' => <<k, c>> \in timers,
           \A c \in Path : <<k, c>> \in timers => <<k, c>> \in timers' \/ relay'[k].kind = "none",
           \A q \in Session : Steady(q, k)
    PROVE  KeyFits(k)'
<1>1. KeyFits(k) /\ EntryFits(k)
  BY DEF Onward, Collected, FInv
<1>2. ASSUME NEW q \in Session
      PROVE  /\ DeliversTo(q, k)' => DeliversTo(q, k)
             /\ DeliversTo(q, k)' /\ Young(q)' => Young(q)
             /\ DeliversTo(q, k)' /\ Written(q)' => Written(q) /\ job'[q].copy = job[q].copy
             /\ DeliversTo(q, k) /\ Written(q) =>
                    DeliversTo(q, k)' /\ Written(q)' /\ job'[q].copy = job[q].copy
             /\ RelaysFrom(q, k)' => RelaysFrom(q, k) /\ job'[q].cached = job[q].cached
  BY DEF Steady, DeliversTo, RelaysFrom, Delivers, Relays, KeyOf, Young, Written
<1>3. Touched(k)' => Touched(k)
  BY <1>2 DEF Touched
<1>4. k[1] \in Secret /\ ledger[k[1]].viewers \subseteq ledger'[k[1]].viewers
  BY DEF Onward, Lasting, Key
<1>5. Touched(k)' => k[2] \in ledger'[k[1]].viewers
  BY <1>1, <1>3, <1>4 DEF KeyFits
<1>6. \A p, q \in Session : DeliversTo(p, k)' /\ DeliversTo(q, k)' => p = q
  BY <1>1, <1>2 DEF KeyFits
<1>7. ASSUME NEW p \in Session, DeliversTo(p, k)', Young(p)'
      PROVE  /\ relay'[k].kind = "none"
             /\ \A c \in Path : <<k, c>> \notin timers'
             /\ \A q \in Session : ~RelaysFrom(q, k)'
  BY <1>1, <1>2, <1>7 DEF KeyFits
<1>8. ASSUME NEW p \in Session, DeliversTo(p, k)', Written(p)'
      PROVE  /\ relay'[k].kind = "none" \/ relay'[k].copy = job'[p].copy
             /\ \A c \in Path : <<k, c>> \notin timers'
  BY <1>1, <1>2, <1>8 DEF KeyFits
<1>9. ASSUME NEW c \in Path, <<k, c>> \in timers'
      PROVE  relay'[k].kind = "none" \/ relay'[k].copy = c
  BY <1>1, <1>9 DEF KeyFits
<1>10. ASSUME NEW p \in Session, RelaysFrom(p, k)'
       PROVE  relay'[k].kind = "none" \/ relay'[k].copy = job'[p].cached
  BY <1>1, <1>2, <1>10 DEF KeyFits
<1>11. ASSUME relay'[k].kind = "file"
       PROVE  \/ <<k, relay'[k].copy>> \in timers'
              \/ \E p \in Session : /\ DeliversTo(p, k)' /\ Written(p)'
                                    /\ job'[p].copy = relay'[k].copy
  <2>1. relay'[k].kind = relay[k].kind /\ relay'[k].copy = relay[k].copy
    BY <1>11
  <2>2. relay[k].copy \in Path
    BY <1>1, <1>11, <2>1 DEF Onward, FInv, FTypeOK, EntryFits, RelayEntry, File
  <2> QED
    BY <1>1, <1>2, <1>11, <2>1, <2>2 DEF KeyFits
<1> QED
  BY <1>5, <1>6, <1>7, <1>8, <1>9, <1>10, <1>11 DEF KeyFits

LEMMA KeptStays ==
    ASSUME Onward, NEW c \in disk \ uploads',
           \A k \in Key : relay[k].copy = c => relay'[k].copy = c \/ Kept(c)',
           \A q \in Session : c \in JobFiles(job[q]) => c \in JobFiles(job'[q]) \/ Kept(c)',
           \A t \in timers : t[2] = c => t \in timers' \/ Kept(c)'
    PROVE  Kept(c)'
<1>1. Kept(c) /\ c # NoPath
  BY NullAssumption DEF Onward, Collected, Lasting, FInv, FTypeOK
<1>2. \A s \in Secret : home[s] = c => home'[s] = c
  BY <1>1 DEF Onward, Lasting
<1> QED
  BY <1>1, <1>2 DEF Kept

\* A step with its effect on one handler, none on entries and timers.
LEMMA HandlerQuiet ==
    ASSUME Onward, NEW p \in Session, \A q \in Session \ {p} : job'[q] = job[q],
           UNCHANGED timers,
           \A k \in Key : relay'[k].kind = relay[k].kind /\ relay'[k].copy = relay[k].copy,
           \A k \in Key : Steady(p, k),
           \A c \in disk' \ uploads' : c \in disk \/ Kept(c)',
           \A c \in disk' \ uploads' : c \in JobFiles(job[p]) => c \in JobFiles(job'[p]) \/ Kept(c)'
    PROVE  Collected'
<1>1. \A q \in Session, k \in Key : Steady(q, k)
  BY DEF Steady
<1>2. ASSUME NEW k \in Key
      PROVE  KeyFits(k)'
  BY <1>1, KeyStays
<1>3. ASSUME NEW c \in disk' \ uploads'
      PROVE  Kept(c)'
  <2>1. CASE c \in disk
    <3>1. \A q \in Session : c \in JobFiles(job[q]) => c \in JobFiles(job'[q]) \/ Kept(c)'
      OBVIOUS
    <3>2. /\ \A k \in Key : relay[k].copy = c => relay'[k].copy = c \/ Kept(c)'
          /\ \A t \in timers : t[2] = c => t \in timers' \/ Kept(c)'
      OBVIOUS
    <3> QED
      BY <2>1, <3>1, <3>2, KeptStays
  <2> QED
    BY <2>1
<1> QED
  BY <1>2, <1>3 DEF Collected

\* A step of no handler that leaves the entries and timers alone.
LEMMA NobodyMoves ==
    ASSUME Onward, UNCHANGED <<job, timers, relay>>,
           \A c \in disk' \ uploads' : c \in disk \/ Kept(c)'
    PROVE  Collected'
<1>1. \A q \in Session, k \in Key : Steady(q, k)
  BY DEF Steady
<1>2. ASSUME NEW k \in Key
      PROVE  KeyFits(k)'
  BY <1>1, KeyStays
<1>3. ASSUME NEW c \in disk' \ uploads'
      PROVE  Kept(c)'
  BY KeptStays
<1> QED
  BY <1>2, <1>3 DEF Collected

\* A handler that ends, or goes on to delete files.
LEMMA HandlerEnds ==
    ASSUME Onward, NEW p \in Session, \A q \in Session \ {p} : job'[q] = job[q],
           job'[p].op \in {"none", "unlink"}, ~Written(p),
           UNCHANGED <<relay, timers>>, disk' \subseteq disk,
           \A c \in disk' \ uploads' : c \in JobFiles(job[p]) => Kept(c)'
    PROVE  Collected'
<1>1. \A k \in Key : Steady(p, k)
  BY DEF Steady, DeliversTo, RelaysFrom, Delivers, Relays
<1>2. \A k \in Key : relay'[k].kind = relay[k].kind /\ relay'[k].copy = relay[k].copy
  OBVIOUS
<1> QED
  BY <1>1, <1>2, HandlerQuiet

\* A file with which a secret was created is kept.
LEMMA HomeKept ==
    ASSUME Onward, NEW c \in Path, NEW s \in Secret, home[s] = c
    PROVE  Kept(c)'
BY NullAssumption DEF Onward, Lasting, Kept

LEMMA OwnFileKept ==
    ASSUME Onward, NEW c \in disk, NEW p \in Session, Delivers(p), job[p].file = c
    PROVE  Kept(c)'
<1>1. c \in Path /\ \E s \in Secret : home[s] = c
  BY JobTypes, NullAssumption DEF Onward, FInv, FTypeOK, OwnFile, DeliverJob
<1> QED
  BY <1>1, HomeKept

LEMMA UnlinkCollects ==
    ASSUME Onward, NEW p \in Session, Unlink(p)
    PROVE  Collected'
<1>1. /\ job[p].op = "unlink" /\ disk' = disk \ job[p].paths
      /\ job' = [job EXCEPT ![p] = NoJob] /\ UNCHANGED <<relay, timers>>
  BY DEF Unlink
<1>2. /\ \A q \in Session \ {p} : job'[q] = job[q]
      /\ job'[p].op = "none" /\ ~Written(p)
  BY <1>1 DEF Onward, FInv, FTypeOK, NoJob, Written
<1>3. JobFiles(job[p]) = job[p].paths
  BY <1>1, JobFilesOf
<1> QED
  BY <1>1, <1>2, <1>3, HandlerEnds

\* A delivery that goes on without a look at entry and timers.
LEMMA DeliveryCollects ==
    ASSUME Onward, NEW p \in Session, Delivers(p), NEW o, NEW f, GoesOn(p, o, f),
           \/ Young(p) /\ o \in {"start", "clone", "cache"}
           \/ Written(p) /\ o \in {"arm", "send"} /\ f = job[p].copy,
           \/ f = job[p].copy /\ disk' = disk
           \/ job[p].copy = NoPath /\ disk' = disk \cup {f},
           UNCHANGED timers,
           \A k \in Key : relay'[k].kind = relay[k].kind /\ relay'[k].copy = relay[k].copy
    PROVE  Collected'
<1>1. /\ \A q \in Session \ {p} : job'[q] = job[q]
      /\ job'[p].op = o /\ job'[p].copy = f /\ job'[p].file = job[p].file
      /\ job'[p].secret = job[p].secret /\ job'[p].viewer = job[p].viewer
  BY DEF GoesOn
<1>2. Delivers(p)' /\ KeyOf(p)' = KeyOf(p) /\ ~Relays(p)'
      /\ \/ Young(p) /\ Young(p)'
         \/ Written(p) /\ Written(p)' /\ job'[p].copy = job[p].copy
  BY <1>1 DEF Delivers, Relays, KeyOf, Young, Written
<1>3. \A k \in Key : Steady(p, k)
  <2>1. \A k : DeliversTo(p, k)' <=> DeliversTo(p, k)
    BY <1>2 DEF DeliversTo
  <2>2. \A k : ~RelaysFrom(p, k)' /\ ~RelaysFrom(p, k)
    BY <1>2 DEF RelaysFrom, Relays, Delivers
  <2> QED
    BY <1>2, <2>1, <2>2 DEF Steady
<1>4. /\ JobFiles(job[p]) = {job[p].file, job[p].copy}
      /\ JobFiles(job'[p]) = {job[p].file, f}
  BY <1>1, <1>2, JobFilesOf DEF Delivers
<1>5. disk' \subseteq Path /\ NoPath \notin Path
  BY NullAssumption DEF Onward, FInv, FTypeOK
<1>6. ASSUME NEW c \in disk' \ uploads', c = f
      PROVE  Kept(c)'
  BY <1>4, <1>6 DEF Kept
<1>7. \A c \in disk' \ uploads' : c \in disk \/ Kept(c)'
  BY <1>6
<1>8. \A c \in disk' \ uploads' : c \in JobFiles(job[p]) => c \in JobFiles(job'[p]) \/ Kept(c)'
  BY <1>4, <1>5
<1> QED
  BY <1>1, <1>3, <1>7, <1>8, HandlerQuiet

\* A delivery that finds no file ends before it has made a copy.
LEMMA LostCollects ==
    ASSUME Onward, NEW p \in Session, job[p].op \in {"start", "clone"},
           job' = [job EXCEPT ![p] = NoJob], UNCHANGED <<relay, timers, disk>>
    PROVE  Collected'
<1>1. Delivers(p) /\ ~Written(p) /\ job[p].copy = NoPath
  BY DEF Onward, FInv, DeliverFits, Delivers, Written
<1>2. /\ \A q \in Session \ {p} : job'[q] = job[q]
      /\ job'[p].op = "none"
  BY DEF Onward, FInv, FTypeOK, NoJob
<1>3. ASSUME NEW c \in disk' \ uploads', c \in JobFiles(job[p])
      PROVE  Kept(c)'
  <2>1. c # NoPath /\ c \in disk \ uploads'
    BY NullAssumption DEF Onward, FInv, FTypeOK
  <2>2. c = job[p].file
    BY <1>1, <1>3, <2>1, JobFilesOf DEF Delivers
  <2> QED
    BY <1>1, <2>1, <2>2, OwnFileKept
<1> QED
  BY <1>1, <1>2, <1>3, HandlerEnds

LEMMA StartCollects ==
    ASSUME Onward, NEW p \in Session, Start(p)
    PROVE  Collected'
<1>1. job[p].op = "start" /\ UNCHANGED <<disk, relay, timers>>
  BY DEF Start
<1>2. Delivers(p) /\ Young(p)
  BY <1>1 DEF Delivers, Young
<1>3. ASSUME NEW o \in {"clone", "cache"}, job' = [job EXCEPT ![p].op = o]
      PROVE  Collected'
  <2>1. GoesOn(p, o, job[p].copy)
    BY <1>2, <1>3, JobAdvances DEF Onward, FInv
  <2>2. PICK f : f = job[p].copy
    OBVIOUS
  <2>3. GoesOn(p, o, f)
    BY <2>1, <2>2
  <2>4. \A k \in Key : relay'[k].kind = relay[k].kind /\ relay'[k].copy = relay[k].copy
    BY <1>1
  <2>5. disk' = disk /\ timers' = timers
    BY <1>1
  <2> QED
    BY <1>2, <1>3, <2>2, <2>3, <2>4, <2>5, DeliveryCollects
<1>4. CASE job' = [job EXCEPT ![p] = NoJob]
  BY <1>1, <1>4, LostCollects
<1> QED
  BY <1>3, <1>4 DEF Start, Advance

LEMMA CloneCollects ==
    ASSUME Onward, NEW p \in Session, Clone(p)
    PROVE  Collected'
<1>1. job[p].op = "clone" /\ UNCHANGED <<relay, timers>>
  BY DEF Clone
<1>2. Delivers(p) /\ Young(p) /\ job[p].copy = NoPath
  BY <1>1 DEF Delivers, Young, Onward, FInv, DeliverFits
<1>3. ASSUME NEW f \in Fresh, disk' = disk \cup {f},
             job' = [job EXCEPT ![p].op = "cache", ![p].copy = f]
      PROVE  Collected'
  <2>1. f \in File
    BY FreshName DEF File
  <2>2. GoesOn(p, "cache", f)
    BY <1>2, <1>3, <2>1, JobCopies DEF Onward, FInv
  <2>3. \A k \in Key : relay'[k].kind = relay[k].kind /\ relay'[k].copy = relay[k].copy
    BY <1>1
  <2> QED
    BY <1>1, <1>2, <1>3, <2>2, <2>3, DeliveryCollects
<1>4. CASE job' = [job EXCEPT ![p] = NoJob] /\ UNCHANGED disk
  BY <1>1, <1>4, LostCollects
<1> QED
  BY <1>3, <1>4 DEF Clone

LEMMA ArmCollects ==
    ASSUME Onward, NEW p \in Session, Arm(p)
    PROVE  Collected'
<1>1. /\ job[p].op = "arm" /\ UNCHANGED <<disk, timers>>
      /\ relay' = [relay EXCEPT ![KeyOf(p)].ttl = (relay[KeyOf(p)].kind # "none")]
      /\ job' = [job EXCEPT ![p].op = "send"]
  BY DEF Arm, Advance
<1>2. Delivers(p) /\ Written(p)
  BY <1>1 DEF Delivers, Written
<1>3. GoesOn(p, "send", job[p].copy)
  BY <1>1, <1>2, JobAdvances DEF Onward, FInv
<1>4. PICK f : f = job[p].copy
  OBVIOUS
<1>5. GoesOn(p, "send", f)
  BY <1>3, <1>4
<1>6. \A k \in Key : relay'[k].kind = relay[k].kind /\ relay'[k].copy = relay[k].copy
  BY <1>1 DEF Onward, FInv, FTypeOK, RelayEntry
<1>7. disk' = disk /\ timers' = timers
  BY <1>1
<1> QED
  BY <1>2, <1>4, <1>5, <1>6, <1>7, DeliveryCollects

LEMMA CacheCollects ==
    ASSUME Onward, NEW p \in Session, Cache(p)
    PROVE  Collected'
<1>1. Delivers(p) /\ Young(p) /\ ~Relays(p) /\ KeyOf(p) \in Key
  BY JobTypes DEF Cache, Onward, FInv, Delivers, Relays, Young
<1>2. PICK l \in Key : l = KeyOf(p)
  BY <1>1
<1> DEFINE e == [kind |-> job[p].kind, copy |-> job[p].copy, ttl |-> relay[l].ttl]
<1>3. /\ job[p].op = "cache" /\ relay' = [relay EXCEPT ![l] = e]
      /\ job' = [job EXCEPT ![p].op = "arm"] /\ UNCHANGED <<disk, timers>>
  BY <1>2 DEF Cache, Advance
<1>4. relay \in [Key -> RelayEntry] /\ e.kind = job[p].kind /\ e.copy = job[p].copy
  BY DEF Onward, FInv, FTypeOK
<1>5. relay'[l] = e /\ \A k \in Key \ {l} : relay'[k] = relay[k]
  BY <1>1, <1>3, <1>4
<1>6. /\ \A q \in Session \ {p} : job'[q] = job[q]
      /\ job'[p].op = "arm" /\ job'[p].copy = job[p].copy /\ job'[p].file = job[p].file
      /\ job'[p].secret = job[p].secret /\ job'[p].viewer = job[p].viewer
  BY <1>1, <1>3, JobAdvances DEF Onward, FInv, GoesOn
<1>7. KeyOf(p)' = l /\ Delivers(p)' /\ Written(p)' /\ ~Young(p)' /\ ~Relays(p)'
  BY <1>2, <1>6 DEF KeyOf, Delivers, Written, Young, Relays
<1> HIDE DEF e
<1>8. KeyFits(l) /\ DeliversTo(p, l)
  BY <1>1, <1>2 DEF Onward, Collected, DeliversTo
<1>9. /\ relay[l].kind = "none" /\ relay[l].copy = NoPath
      /\ \A c \in Path : <<l, c>> \notin timers
      /\ \A q \in Session : ~RelaysFrom(q, l)
  BY <1>1, <1>8 DEF KeyFits, Onward, FInv, EntryFits
<1>10. \A q \in Session, k \in Key : /\ DeliversTo(q, k)' <=> DeliversTo(q, k)
                                     /\ RelaysFrom(q, k)' <=> RelaysFrom(q, k)
  BY <1>1, <1>6, <1>7 DEF DeliversTo, RelaysFrom, Delivers, Relays, KeyOf
<1>11. KeyFits(l)'
  <2>1. l[2] \in ledger'[l[1]].viewers
    BY <1>1, <1>8 DEF KeyFits, Touched, Onward, Lasting, Key
  <2>2. \A q \in Session : DeliversTo(q, l)' => q = p
    BY <1>1, <1>2, <1>8, <1>10 DEF KeyFits
  <2>3. /\ \A q \in Session : ~RelaysFrom(q, l)'
        /\ \A c \in Path : <<l, c>> \notin timers'
    BY <1>1, <1>2, <1>3, <1>9, <1>10
  <2>4. /\ DeliversTo(p, l)' /\ Written(p)' /\ ~Young(p)'
        /\ relay'[l].copy = job'[p].copy
    BY <1>1, <1>2, <1>4, <1>5, <1>6, <1>7, <1>8, <1>10
  <2> QED
    BY <2>1, <2>2, <2>3, <2>4 DEF KeyFits
<1>12. ASSUME NEW k \in Key, k # l
       PROVE  KeyFits(k)'
  <2>1. \A q \in Session : Steady(q, k)
    <3>1. ~DeliversTo(p, k)' /\ ~RelaysFrom(p, k)' /\ ~DeliversTo(p, k)
      BY <1>2, <1>7, <1>10, <1>12 DEF DeliversTo, RelaysFrom
    <3> QED
      BY <1>6, <3>1 DEF Steady
  <2> QED
    BY <1>3, <1>5, <1>12, <2>1, KeyStays
<1>13. ASSUME NEW c \in disk' \ uploads'
       PROVE  Kept(c)'
  <2>1. c \in disk \ uploads' /\ c # NoPath
    BY <1>3, NullAssumption DEF Onward, FInv, FTypeOK
  <2>2. \A k \in Key : relay[k].copy = c => relay'[k].copy = c
    BY <1>5, <1>9, <2>1
  <2>3. JobFiles(job'[p]) = JobFiles(job[p])
    BY <1>1, <1>6, <1>7, JobFilesOf DEF Delivers
  <2>4. \A q \in Session : c \in JobFiles(job[q]) => c \in JobFiles(job'[q])
    BY <1>6, <2>3
  <2> QED
    BY <1>3, <2>1, <2>2, <2>4, KeptStays
<1> QED
  BY <1>11, <1>12, <1>13 DEF Collected

LEMMA SentCollects ==
    ASSUME Onward, NEW p \in Session, Sent(p)
    PROVE  Collected'
<1>1. /\ job[p].op = "send" /\ job' = [job EXCEPT ![p] = NoJob] /\ UNCHANGED relay
      /\ disk' \subseteq disk
      /\ timers' = timers \cup (IF job[p].kind = "file" THEN {<<KeyOf(p), job[p].copy>>} ELSE {})
  BY DEF Sent
<1>2. /\ Delivers(p) /\ Written(p) /\ ~Relays(p) /\ KeyOf(p) \in Key
      /\ job[p].kind = "file" <=> job[p].copy # NoPath
  BY <1>1, JobTypes DEF Onward, FInv, DeliverFits, Delivers, Relays, Written
<1>3. PICK l \in Key : l = KeyOf(p)
  BY <1>2
<1>4. PICK d : d = job[p].copy
  OBVIOUS
<1>5. /\ \A q \in Session \ {p} : job'[q] = job[q]
      /\ job'[p].op = "none" /\ ~Delivers(p)' /\ ~Relays(p)'
  BY <1>1 DEF Onward, FInv, FTypeOK, NoJob, Delivers, Relays
<1>6. KeyFits(l) /\ EntryFits(l) /\ DeliversTo(p, l)
  BY <1>2, <1>3 DEF Onward, Collected, FInv, DeliversTo
<1>7. /\ relay[l].kind = "none" \/ relay[l].copy = d
      /\ \A c \in Path : <<l, c>> \notin timers
  BY <1>2, <1>4, <1>6 DEF KeyFits
<1>8. \A q \in Session, k \in Key : /\ DeliversTo(q, k)' <=> q # p /\ DeliversTo(q, k)
                                    /\ RelaysFrom(q, k)' <=> RelaysFrom(q, k)
  BY <1>2, <1>5 DEF DeliversTo, RelaysFrom, Delivers, Relays, KeyOf
<1>9. KeyFits(l)'
  <2>1. l[2] \in ledger'[l[1]].viewers
    BY <1>6 DEF KeyFits, Touched, Onward, Lasting, Key
  <2>2. \A q \in Session : ~DeliversTo(q, l)'
    BY <1>6, <1>8 DEF KeyFits
  <2>3. \A c \in Path : <<l, c>> \in timers' => c = d
    BY <1>1, <1>4, <1>7
  <2>4. \A q \in Session : RelaysFrom(q, l)' =>
            relay'[l].kind = "none" \/ relay'[l].copy = job'[q].cached
    BY <1>1, <1>2, <1>5, <1>6, <1>8 DEF KeyFits, RelaysFrom
  <2>5. relay'[l].kind = "file" => <<l, relay'[l].copy>> \in timers'
    BY <1>1, <1>2, <1>3, <1>4, <1>6, <1>7 DEF EntryFits
  <2> QED
    BY <1>1, <1>7, <2>1, <2>2, <2>3, <2>4, <2>5 DEF KeyFits
<1>10. ASSUME NEW k \in Key, k # l
       PROVE  KeyFits(k)'
  <2>1. \A q \in Session : Steady(q, k)
    <3>1. ~DeliversTo(p, k)' /\ ~RelaysFrom(p, k)' /\ ~DeliversTo(p, k)
      BY <1>2, <1>3, <1>5, <1>10 DEF DeliversTo, RelaysFrom
    <3> QED
      BY <1>5, <3>1 DEF Steady
  <2>2. \A c \in Path : <<k, c>> \in timers' <=> <<k, c>> \in timers
    BY <1>1, <1>3, <1>10
  <2> QED
    BY <1>1, <2>1, <2>2, KeyStays
<1>11. ASSUME NEW c \in disk' \ uploads'
       PROVE  Kept(c)'
  <2>1. c \in disk \ uploads' /\ c # NoPath
    BY <1>1, NullAssumption DEF Onward, FInv, FTypeOK
  <2>2. ASSUME c \in JobFiles(job[p])
        PROVE  Kept(c)'
    <3>1. JobFiles(job[p]) = {job[p].file, job[p].copy}
      BY <1>1, JobFilesOf
    <3>2. CASE c = job[p].file
      BY <1>2, <2>1, <3>2, OwnFileKept
    <3>3. CASE c = job[p].copy
      <4>1. <<l, c>> \in timers'
        BY <1>1, <1>2, <1>3, <2>1, <3>3
      <4> QED
        BY <4>1 DEF Kept
    <3> QED
      BY <2>2, <3>1, <3>2, <3>3
  <2>3. \A q \in Session : c \in JobFiles(job[q]) => c \in JobFiles(job'[q]) \/ Kept(c)'
    BY <1>5, <2>2
  <2>4. /\ \A k \in Key : relay[k].copy = c => relay'[k].copy = c
        /\ \A t \in timers : t \in timers'
    BY <1>1
  <2> QED
    BY <2>1, <2>3, <2>4, KeptStays
<1> QED
  BY <1>9, <1>10, <1>11 DEF Collected

\* An expired entry leaves its copy to the delivery or the timer that it stems from.
LEMMA ExpiryCollects ==
    ASSUME Onward, NEW k \in Key, RelayExpires(k)
    PROVE  Collected'
<1>1. relay' = [relay EXCEPT ![k] = NoEntryCached] /\ UNCHANGED <<disk, job, timers>>
  BY DEF RelayExpires
<1>2. \A l \in Key : relay'[l] = relay[l] \/ relay'[l].kind = "none"
  BY <1>1 DEF Onward, FInv, FTypeOK, NoEntryCached
<1>3. \A l \in Key, q \in Session : Steady(q, l)
  BY <1>1 DEF Steady
<1>4. \A l \in Key : KeyFits(l)'
  BY <1>1, <1>2, <1>3, KeyStays
<1>5. ASSUME NEW c \in disk' \ uploads'
      PROVE  Kept(c)'
  <2>1. c \in disk \ uploads' /\ c # NoPath
    BY <1>1, NullAssumption DEF Onward, FInv, FTypeOK
  <2>2. ASSUME NEW l \in Key, relay[l].copy = c
        PROVE  Kept(c)'
    <3>1. KeyFits(l) /\ relay[l].kind = "file"
      BY <2>1, <2>2 DEF Onward, Collected, FInv, EntryFits
    <3>2. CASE <<l, c>> \in timers
      BY <1>1, <3>2 DEF Kept
    <3>3. ASSUME NEW p \in Session, Delivers(p), job[p].copy = c
          PROVE  Kept(c)'
      <4>1. c \in JobFiles(job[p])
        BY <3>3, JobFilesOf DEF Delivers
      <4> QED
        BY <1>1, <4>1 DEF Kept
    <3> QED
      BY <2>2, <3>1, <3>2, <3>3 DEF KeyFits, DeliversTo
  <2>3. /\ \A q \in Session : c \in JobFiles(job[q]) => c \in JobFiles(job'[q])
        /\ \A t \in timers : t \in timers'
    BY <1>1
  <2> QED
    BY <2>1, <2>2, <2>3, KeptStays
<1> QED
  BY <1>4, <1>5 DEF Collected

\* A timer that fires finds no entry of another copy, and deletes its own.
LEMMA TimerCollects ==
    ASSUME Onward, NEW t \in timers, TimerFires(t)
    PROVE  Collected'
<1>1. /\ relay[t[1]].copy # t[2] /\ timers' = timers \ {t} /\ UNCHANGED <<relay, job>>
      /\ disk' = IF relay[t[1]].kind = "none" THEN disk \ {t[2]} ELSE disk
  BY DEF TimerFires
<1>2. t[1] \in Key /\ t[2] \in Path /\ t = <<t[1], t[2]>>
  BY DEF Onward, FInv, FTypeOK
<1>3. relay[t[1]].kind = "none" /\ disk' = disk \ {t[2]}
  BY <1>1, <1>2 DEF Onward, Collected, KeyFits
<1>4. \A l \in Key, q \in Session : Steady(q, l)
  BY <1>1 DEF Steady
<1>5. ASSUME NEW l \in Key
      PROVE  KeyFits(l)'
  <2>1. \A c \in Path : <<l, c>> \in timers => <<l, c>> \in timers' \/ relay'[l].kind = "none"
    BY <1>1, <1>2, <1>3
  <2> QED
    BY <1>1, <1>4, <2>1, KeyStays
<1>6. ASSUME NEW c \in disk' \ uploads'
      PROVE  Kept(c)'
  BY <1>1, <1>3, KeptStays
<1> QED
  BY <1>5, <1>6 DEF Collected

-----------------------------------------------------------------------------
(* The copies and the relays *)

LEMMA RelayBeginCollects ==
    ASSUME Onward, NEW p \in Session, NEW s \in Secret, NEW u \in User, RelayBegin(p, s, u)
    PROVE  Collected'
<1>1. PICK l \in Key : l = <<s, u>>
  BY DEF Key
<1>2. PICK j : j = [op |-> "relay", secret |-> s, viewer |-> u, kind |-> relay[l].kind,
                    cached |-> relay[l].copy, copy |-> NoPath]
  OBVIOUS
<1>3. /\ job[p] = NoJob /\ relay[l].kind # "none" /\ job' = [job EXCEPT ![p] = j]
      /\ UNCHANGED <<disk, relay, timers>>
  BY <1>1, <1>2 DEF RelayBegin, Idles
<1>4. /\ \A q \in Session \ {p} : job'[q] = job[q]
      /\ job'[p] = j
  BY <1>3 DEF Onward, FInv, FTypeOK
<1>5. /\ ~Delivers(p) /\ ~Relays(p) /\ ~Delivers(p)' /\ Relays(p)' /\ KeyOf(p)' = l
      /\ job'[p].cached = relay[l].copy
  BY <1>1, <1>2, <1>3, <1>4 DEF NoJob, Delivers, Relays, KeyOf
<1>6. KeyFits(l)
  BY DEF Onward, Collected
<1>7. \A q \in Session, k \in Key :
          /\ DeliversTo(q, k)' <=> DeliversTo(q, k)
          /\ RelaysFrom(q, k)' <=> RelaysFrom(q, k) \/ (q = p /\ k = l)
  BY <1>4, <1>5 DEF DeliversTo, RelaysFrom, Delivers, Relays, KeyOf
<1>8. KeyFits(l)'
  <2>1. l[2] \in ledger'[l[1]].viewers
    BY <1>3, <1>6 DEF KeyFits, Touched, Onward, Lasting, Key
  <2>2. \A q \in Session : DeliversTo(q, l)' => q # p /\ job'[q] = job[q] /\ DeliversTo(q, l)
    BY <1>4, <1>5, <1>7 DEF DeliversTo
  <2>3. \A q \in Session : DeliversTo(q, l)' => ~Young(q)'
    BY <1>3, <1>6, <2>2 DEF KeyFits, Young
  <2>4. \A q \in Session : DeliversTo(q, l)' /\ Written(q)' =>
            /\ relay'[l].kind = "none" \/ relay'[l].copy = job'[q].copy
            /\ \A c \in Path : <<l, c>> \notin timers'
    BY <1>3, <1>6, <2>2 DEF KeyFits, Written
  <2>5. \A q, r \in Session : DeliversTo(q, l)' /\ DeliversTo(r, l)' => q = r
    BY <1>6, <2>2 DEF KeyFits
  <2>6. \A c \in Path : <<l, c>> \in timers' => relay'[l].kind = "none" \/ relay'[l].copy = c
    BY <1>3, <1>6 DEF KeyFits
  <2>7. ASSUME NEW q \in Session, RelaysFrom(q, l)'
        PROVE  relay'[l].kind = "none" \/ relay'[l].copy = job'[q].cached
    <3>1. CASE q = p
      BY <1>3, <1>5, <3>1
    <3>2. CASE q # p
      BY <1>3, <1>4, <1>6, <1>7, <2>7, <3>2 DEF KeyFits
    <3> QED
      BY <3>1, <3>2
  <2>8. ASSUME relay'[l].kind = "file"
        PROVE  \/ <<l, relay'[l].copy>> \in timers'
               \/ \E q \in Session : /\ DeliversTo(q, l)' /\ Written(q)'
                                     /\ job'[q].copy = relay'[l].copy
    <3>1. CASE <<l, relay[l].copy>> \in timers
      BY <1>3, <3>1
    <3>2. ASSUME NEW q \in Session, DeliversTo(q, l), Written(q), job[q].copy = relay[l].copy
          PROVE  DeliversTo(q, l)' /\ Written(q)' /\ job'[q].copy = relay'[l].copy
      <4>1. q # p
        BY <1>5, <3>2 DEF DeliversTo
      <4> QED
        BY <1>3, <1>4, <1>7, <3>2, <4>1 DEF Written
    <3> QED
      BY <1>3, <1>6, <2>8, <3>1, <3>2 DEF KeyFits
  <2> QED
    BY <2>1, <2>3, <2>4, <2>5, <2>6, <2>7, <2>8 DEF KeyFits
<1>9. ASSUME NEW k \in Key, k # l
      PROVE  KeyFits(k)'
  <2>1. \A q \in Session : Steady(q, k)
    <3>1. ~DeliversTo(p, k)' /\ ~RelaysFrom(p, k)' /\ ~DeliversTo(p, k)
      BY <1>5, <1>9 DEF DeliversTo, RelaysFrom
    <3> QED
      BY <1>4, <3>1 DEF Steady
  <2> QED
    BY <1>3, <2>1, KeyStays
<1>10. ASSUME NEW c \in disk' \ uploads'
       PROVE  Kept(c)'
  <2>1. JobFiles(job[p]) = {}
    BY <1>3, JobFilesOf DEF NoJob
  <2>2. \A q \in Session : c \in JobFiles(job[q]) => c \in JobFiles(job'[q])
    BY <1>4, <2>1
  <2> QED
    BY <1>3, <2>2, KeptStays
<1> QED
  BY <1>8, <1>9, <1>10 DEF Collected

\* A relay that goes on.
LEMMA RelayGoesCollects ==
    ASSUME Onward, NEW p \in Session, Relays(p), NEW o \in {"relay_insert", "relay_drop", "relay_del"},
           NEW f, GoesOn(p, o, f), UNCHANGED <<relay, timers>>,
           \/ f = job[p].copy /\ disk' \subseteq disk
           \/ job[p].copy = NoPath /\ disk' = disk \cup {f}
    PROVE  Collected'
<1>1. /\ \A q \in Session \ {p} : job'[q] = job[q]
      /\ job'[p].op = o /\ job'[p].copy = f /\ job'[p].cached = job[p].cached
      /\ job'[p].secret = job[p].secret /\ job'[p].viewer = job[p].viewer
  BY DEF GoesOn
<1>2. Relays(p)' /\ KeyOf(p)' = KeyOf(p) /\ ~Delivers(p) /\ ~Delivers(p)'
  BY <1>1 DEF Relays, Delivers, KeyOf
<1>3. \A k \in Key : Steady(p, k)
  BY <1>1, <1>2 DEF Steady, RelaysFrom, DeliversTo
<1>4. /\ JobFiles(job[p]) = {job[p].cached, job[p].copy}
      /\ JobFiles(job'[p]) = {job[p].cached, f}
  BY <1>1, <1>2, JobFilesOf DEF Relays
<1>5. disk' \subseteq Path /\ NoPath \notin Path
  BY NullAssumption DEF Onward, FInv, FTypeOK
<1>6. ASSUME NEW c \in disk' \ uploads', c = f
      PROVE  Kept(c)'
  BY <1>4, <1>6 DEF Kept
<1>7. \A c \in disk' \ uploads' : c \in disk \/ Kept(c)'
  BY <1>6
<1>8. \A c \in disk' \ uploads' : c \in JobFiles(job[p]) => c \in JobFiles(job'[p]) \/ Kept(c)'
  BY <1>4, <1>5
<1> QED
  BY <1>1, <1>3, <1>7, <1>8, HandlerQuiet

LEMMA RelayCloneCollects ==
    ASSUME Onward, NEW p \in Session, RelayClone(p)
    PROVE  Collected'
<1>1. job[p].op = "relay" /\ UNCHANGED <<relay, timers>>
  BY DEF RelayClone
<1>2. Relays(p) /\ ~Delivers(p) /\ ~Written(p) /\ job[p].copy = NoPath
  BY <1>1 DEF Relays, Delivers, Written, Onward, FInv, RelayFits
<1>3. CASE job' = [job EXCEPT ![p].op = "relay_insert"] /\ UNCHANGED disk
  <2>1. GoesOn(p, "relay_insert", job[p].copy)
    BY <1>2, <1>3, JobAdvances DEF Onward, FInv
  <2>2. PICK f : f = job[p].copy
    OBVIOUS
  <2>3. GoesOn(p, "relay_insert", f) /\ disk' = disk
    BY <1>3, <2>1, <2>2
  <2> QED
    BY <1>1, <1>2, <2>2, <2>3, RelayGoesCollects
<1>4. ASSUME NEW f \in Fresh, disk' = disk \cup {f},
             job' = [job EXCEPT ![p].op = "relay_insert", ![p].copy = f]
      PROVE  Collected'
  <2>1. f \in File
    BY FreshName DEF File
  <2>2. GoesOn(p, "relay_insert", f)
    BY <1>2, <1>4, <2>1, JobCopies DEF Onward, FInv
  <2> QED
    BY <1>1, <1>2, <1>4, <2>2, RelayGoesCollects
<1>5. CASE job[p].cached \notin disk /\ job' = [job EXCEPT ![p] = NoJob] /\ UNCHANGED disk
  <2>1. /\ \A q \in Session \ {p} : job'[q] = job[q]
        /\ job'[p].op = "none"
    BY <1>5 DEF Onward, FInv, FTypeOK, NoJob
  <2>2. JobFiles(job[p]) = {job[p].cached, NoPath} /\ NoPath \notin disk
    BY <1>1, <1>2, JobFilesOf, NullAssumption DEF Onward, FInv, FTypeOK
  <2> QED
    BY <1>1, <1>2, <1>5, <2>1, <2>2, HandlerEnds
<1> QED
  BY <1>3, <1>4, <1>5 DEF RelayClone, Advance

LEMMA RelayInsertCollects ==
    ASSUME Onward, NEW p \in Session, NEW s \in Secret, RelayInsert(p, s)
    PROVE  Collected'
<1>1. /\ job[p].op = "relay_insert" /\ job' = [job EXCEPT ![p].op = "relay_drop"]
      /\ UNCHANGED <<relay, timers>> /\ disk' = disk
  BY DEF RelayInsert, Advance
<1>2. Relays(p)
  BY <1>1 DEF Relays
<1>3. GoesOn(p, "relay_drop", job[p].copy)
  BY <1>1, <1>2, JobAdvances DEF Onward, FInv
<1>4. PICK f : f = job[p].copy
  OBVIOUS
<1>5. GoesOn(p, "relay_drop", f)
  BY <1>3, <1>4
<1> QED
  BY <1>1, <1>2, <1>4, <1>5, RelayGoesCollects

LEMMA RelayUnlinkCollects ==
    ASSUME Onward, NEW p \in Session, RelayUnlink(p)
    PROVE  Collected'
<1>1. /\ job[p].op = "relay_drop" /\ job' = [job EXCEPT ![p].op = "relay_del"]
      /\ UNCHANGED <<relay, timers>> /\ disk' \subseteq disk
  BY DEF RelayUnlink, Advance
<1>2. Relays(p)
  BY <1>1 DEF Relays
<1>3. GoesOn(p, "relay_del", job[p].copy)
  BY <1>1, <1>2, JobAdvances DEF Onward, FInv
<1>4. PICK f : f = job[p].copy
  OBVIOUS
<1>5. GoesOn(p, "relay_del", f)
  BY <1>3, <1>4
<1> QED
  BY <1>1, <1>2, <1>4, <1>5, RelayGoesCollects

\* The relay drops the entry, whose copy it has deleted; what else it names is the file of the
\* new secret.
LEMMA RelayDropCollects ==
    ASSUME Onward, NEW p \in Session, RelayDrop(p)
    PROVE  Collected'
<1>1. /\ job[p].op = "relay_del" /\ disk' = disk
      /\ relay' = [relay EXCEPT ![KeyOf(p)] = NoEntryCached]
      /\ job' = [job EXCEPT ![p] = NoJob] /\ UNCHANGED timers
  BY DEF RelayDrop
<1>2. Relays(p) /\ ~Delivers(p) /\ KeyOf(p) \in Key
  BY <1>1, JobTypes DEF Onward, FInv, Relays, Delivers
<1>3. PICK l \in Key : l = KeyOf(p)
  BY <1>2
<1>4. /\ \A q \in Session \ {p} : job'[q] = job[q]
      /\ job'[p].op = "none" /\ ~Delivers(p)' /\ ~Relays(p)'
  BY <1>1 DEF Onward, FInv, FTypeOK, NoJob, Delivers, Relays
<1>5. relay'[l].kind = "none" /\ \A k \in Key \ {l} : relay'[k] = relay[k]
  BY <1>1, <1>3 DEF Onward, FInv, FTypeOK, NoEntryCached
<1>6. \A q \in Session, k \in Key : Steady(q, k)
  BY <1>2, <1>4 DEF Steady, DeliversTo, RelaysFrom
<1>7. ASSUME NEW k \in Key
      PROVE  KeyFits(k)'
  BY <1>1, <1>5, <1>6, KeyStays
<1>8. ASSUME NEW c \in disk' \ uploads'
      PROVE  Kept(c)'
  <2>1. /\ c \in disk \ uploads' /\ c \in Path /\ c # NoPath
        /\ c # job[p].cached
    BY <1>1, NullAssumption DEF Onward, OwnFile, FInv, FTypeOK
  <2>2. relay[l].copy # c
    <3>1. KeyFits(l) /\ EntryFits(l) /\ RelaysFrom(p, l)
      BY <1>2, <1>3 DEF Onward, Collected, FInv, RelaysFrom
    <3> QED
      BY <2>1, <3>1 DEF KeyFits, EntryFits
  <2>3. ASSUME c \in JobFiles(job[p])
        PROVE  Kept(c)'
    <3>1. c = job[p].copy
      BY <1>1, <2>1, <2>3, JobFilesOf
    <3>2. \E s \in Secret : home[s] = c
      BY <1>1, <2>1, <3>1 DEF Onward, OwnFile
    <3> QED
      BY <2>1, <3>2, HomeKept
  <2>4. \A q \in Session : c \in JobFiles(job[q]) => c \in JobFiles(job'[q]) \/ Kept(c)'
    BY <1>4, <2>3
  <2>5. /\ \A k \in Key : relay[k].copy = c => relay'[k].copy = c
        /\ \A x \in timers : x \in timers'
    BY <1>1, <1>5, <2>2
  <2> QED
    BY <2>1, <2>4, <2>5, KeptStays
<1> QED
  BY <1>7, <1>8 DEF Collected

-----------------------------------------------------------------------------
(* The copies and the transactions *)

\* The first open of a viewer finds its key untouched.
LEMMA GrantCollects ==
    ASSUME Onward, NEW p \in Session, FCommit(p), tx[p].viewer # NoUser,
           tx[p].viewer \notin ledger[tx[p].secret].viewers
    PROVE  Collected'
<1>1. /\ tx[p].op = "row" /\ tx[p].secret \in Secret /\ tx[p].viewer \in User
      /\ ledger' = [ledger EXCEPT ![tx[p].secret] =
                        EntryAfter(ledger[tx[p].secret], tx[p].viewer, tx[p].at)]
      /\ ledger \in [Secret -> Entry]
  BY DEF FCommit, Commit, Onward, FInv, IInv, TypeOK, RowTx, PanicTx, Idle
<1>2. PICK s \in Secret, u \in User : s = tx[p].secret /\ u = tx[p].viewer
  BY <1>1
<1>3. PICK l \in Key : l = <<s, u>>
  BY DEF Key
<1>4. PICK j : job' = [job EXCEPT ![p] = j] /\ j.op = "start" /\ j.secret = s /\ j.viewer = u
  <2> DEFINE j == [op |-> "start", secret |-> tx[p].secret, viewer |-> tx[p].viewer,
                   kind |-> tx[p].row.kind, file |-> rows[tx[p].secret].path,
                   last |-> ~IsActive(tx[p].row), copy |-> NoPath]
  <2>1. job' = [job EXCEPT ![p] = j]
    BY DEF FCommit
  <2>2. j.op = "start" /\ j.secret = s /\ j.viewer = u
    BY <1>2
  <2> HIDE DEF j
  <2> QED
    BY <2>1, <2>2
<1>5. UNCHANGED <<disk, relay, timers>>
  BY DEF FCommit
<1>6. job[p] = NoJob
  BY <1>1 DEF Onward, FInv, TxFits, Idle
<1>7. /\ \A q \in Session \ {p} : job'[q] = job[q]
      /\ job'[p] = j
  BY <1>4 DEF Onward, FInv, FTypeOK
<1>8. /\ ~Delivers(p) /\ ~Relays(p) /\ Delivers(p)' /\ Young(p)' /\ ~Written(p)' /\ ~Relays(p)'
      /\ KeyOf(p)' = l
  BY <1>3, <1>4, <1>6, <1>7 DEF NoJob, Delivers, Relays, Young, Written, KeyOf
<1>9. \A q \in Session, k \in Key :
          /\ DeliversTo(q, k)' <=> DeliversTo(q, k) \/ (q = p /\ k = l)
          /\ RelaysFrom(q, k)' <=> RelaysFrom(q, k)
  BY <1>7, <1>8 DEF DeliversTo, RelaysFrom, Delivers, Relays, KeyOf
<1>10. ~Touched(l) /\ KeyFits(l)
  BY <1>2, <1>3 DEF Onward, Collected, KeyFits
<1>11. KeyFits(l)'
  <2>1. l[2] \in ledger'[l[1]].viewers
    BY <1>1, <1>2, <1>3 DEF EntryAfter, Entry
  <2>2. /\ \A q \in Session : DeliversTo(q, l)' => q = p
        /\ \A q \in Session : ~RelaysFrom(q, l)'
        /\ relay'[l].kind = "none" /\ \A c \in Path : <<l, c>> \notin timers'
    BY <1>5, <1>9, <1>10 DEF Touched
  <2> QED
    BY <1>8, <2>1, <2>2 DEF KeyFits
<1>12. ASSUME NEW k \in Key, k # l
       PROVE  KeyFits(k)'
  <2>1. \A q \in Session : Steady(q, k)
    <3>1. ~DeliversTo(p, k)' /\ ~RelaysFrom(p, k)' /\ ~DeliversTo(p, k)
      BY <1>8, <1>12 DEF DeliversTo, RelaysFrom
    <3> QED
      BY <1>7, <3>1 DEF Steady
  <2> QED
    BY <1>5, <2>1, KeyStays
<1>13. ASSUME NEW c \in disk' \ uploads'
       PROVE  Kept(c)'
  <2>1. JobFiles(job[p]) = {}
    BY <1>6, JobFilesOf DEF NoJob
  <2>2. \A q \in Session : c \in JobFiles(job[q]) => c \in JobFiles(job'[q])
    BY <1>7, <2>1
  <2> QED
    BY <1>5, <2>2, KeptStays
<1> QED
  BY <1>11, <1>12, <1>13 DEF Collected

\* A transaction that let nobody in leaves at most files to delete.
LEMMA EndingCollects ==
    ASSUME Onward, NEW p \in Session, job[p] = NoJob, NEW S,
           job' = [job EXCEPT ![p] = Unlinking(S)], UNCHANGED <<disk, relay, timers>>
    PROVE  Collected'
<1>1. /\ \A q \in Session \ {p} : job'[q] = job[q]
      /\ job'[p].op \in {"none", "unlink"}
  BY DEF Onward, FInv, FTypeOK, Unlinking, NoJob
<1>2. ~Written(p) /\ JobFiles(job[p]) = {}
  BY JobFilesOf DEF Written, NoJob
<1> QED
  BY <1>1, <1>2, HandlerEnds

LEMMA FCommitCollects ==
    ASSUME Onward, NEW p \in Session, FCommit(p),
           tx[p].viewer # NoUser => tx[p].viewer \notin ledger[tx[p].secret].viewers
    PROVE  Collected'
<1>1. CASE tx[p].viewer = NoUser
  <2>1. job[p] = NoJob
    BY DEF FCommit, Commit, Onward, FInv, TxFits, Idle
  <2>2. /\ job' = [job EXCEPT ![p] = Unlinking(tx[p].paths)]
        /\ UNCHANGED <<disk, relay, timers>>
    BY <1>1 DEF FCommit
  <2> QED
    BY <2>1, <2>2, EndingCollects
<1>2. CASE tx[p].viewer # NoUser
  BY <1>2, GrantCollects
<1> QED
  BY <1>1, <1>2

LEMMA FPanicCommitCollects ==
    ASSUME Onward, NEW p \in Session, FPanicCommit(p)
    PROVE  Collected'
<1>1. job[p] = NoJob
  BY DEF FPanicCommit, PanicCommit, Onward, FInv, TxFits, Idle
<1>2. /\ job' = [job EXCEPT ![p] = Unlinking(tx[p].paths)]
      /\ UNCHANGED <<disk, relay, timers>>
  BY DEF FPanicCommit
<1> QED
  BY <1>1, <1>2, EndingCollects

\* A handler at work on a draft names uploads only.
LEMMA DraftCollects ==
    ASSUME Onward, NEW p \in Session, \A q \in Session \ {p} : job'[q] = job[q],
           job[p].op \in {"none", "edit", "finalize", "drop", "clear"},
           job'[p].op \in {"none", "edit", "finalize", "drop", "clear"},
           UNCHANGED <<relay, timers>>, disk' \ uploads' \subseteq disk
    PROVE  Collected'
<1>1. \A k \in Key : Steady(p, k)
  BY DEF Steady, DeliversTo, RelaysFrom, Delivers, Relays, Written
<1>2. ASSUME NEW c \in disk' \ uploads'
      PROVE  c \notin JobFiles(job[p])
  <2>1. c \notin uploads \cup {NoPath}
    BY NullAssumption DEF Onward, Lasting, FInv, FTypeOK
  <2>2. CASE job[p].op = "none"
    BY <2>2, JobFilesOf
  <2>3. CASE job[p].op # "none"
    <3>1. JobFiles(job[p]) = {job[p].file}
      BY <2>3, JobFilesOf
    <3>2. job[p].file \in uploads \cup {NoPath}
      BY <2>3 DEF Onward, FInv, DraftFits
    <3> QED
      BY <2>1, <3>1, <3>2
  <2> QED
    BY <2>2, <2>3
<1>3. \A k \in Key : relay'[k].kind = relay[k].kind /\ relay'[k].copy = relay[k].copy
  OBVIOUS
<1> QED
  BY <1>1, <1>2, <1>3, HandlerQuiet

LEMMA DraftingCollects ==
    ASSUME Onward, NEW p \in Session, Drafting(p)
    PROVE  Collected'
<1>1. job \in [Session -> {NoJob} \cup UnlinkJob \cup DeliverJob \cup RelayJob \cup DraftJob]
  BY DEF Onward, FInv, FTypeOK
<1>2. ASSUME NEW j, job' = [job EXCEPT ![p] = j],
             job[p].op \in {"none", "edit", "finalize", "drop", "clear"},
             j.op \in {"none", "edit", "finalize", "drop", "clear"},
             UNCHANGED <<relay, timers>>, disk' \ uploads' \subseteq disk
      PROVE  Collected'
  <2>1. job'[p] = j /\ \A q \in Session \ {p} : job'[q] = job[q]
    BY <1>1, <1>2
  <2> QED
    BY <1>2, <2>1, DraftCollects
<1>3. CASE \E u \in User : Upload(p, u)
  <2>1. PICK u \in User, f \in Fresh :
            /\ Idles(p) /\ disk' = disk \cup {f} /\ uploads' = uploads \cup {f}
            /\ job' = [job EXCEPT ![p] = [op |-> "edit", user |-> u, file |-> f]]
            /\ UNCHANGED <<relay, timers>>
    BY <1>3 DEF Upload
  <2>2. PICK j : j = [op |-> "edit", user |-> u, file |-> f]
    OBVIOUS
  <2>3. job[p].op = "none" /\ j.op = "edit" /\ disk' \ uploads' \subseteq disk
    BY <2>1, <2>2 DEF Idles, NoJob
  <2> QED
    BY <1>2, <2>1, <2>2, <2>3
<1>4. CASE \E u \in User, op \in Pressed : DraftRead(p, u, op)
  <2>1. PICK u \in User, op \in {"edit", "finalize", "drop"} :
            /\ Idles(p) /\ UNCHANGED <<disk, relay, timers>>
            /\ job' = [job EXCEPT ![p] = [op |-> op, user |-> u, file |-> draft[u]]]
    BY <1>4, FaultAssumption DEF DraftRead
  <2>2. PICK j : j = [op |-> op, user |-> u, file |-> draft[u]]
    OBVIOUS
  <2>3. job[p].op = "none" /\ j.op = op /\ disk' \ uploads' \subseteq disk
    BY <2>1, <2>2 DEF Idles, NoJob
  <2> QED
    BY <1>2, <2>1, <2>2, <2>3
<1>5. CASE DraftWrite(p) \/ DraftClear(p)
  <2>1. /\ job[p].op \in {"edit", "clear"} /\ job' = [job EXCEPT ![p] = NoJob]
        /\ UNCHANGED <<disk, relay, timers>> /\ NoJob.op = "none"
    BY <1>5 DEF DraftWrite, DraftClear, NoJob
  <2> QED
    BY <1>2, <2>1
<1>6. CASE DraftUnlink(p) \/ \E d \in Drafts, s \in Secret : Finalize(p, d, s)
  <2>1. PICK j : j = Clearing(p)
    OBVIOUS
  <2>2. /\ job[p].op \in {"finalize", "drop"} /\ job' = [job EXCEPT ![p] = j]
        /\ disk' \subseteq disk /\ UNCHANGED <<relay, timers>>
    BY <1>6, <2>1 DEF DraftUnlink, Finalize
  <2>3. j.op = "clear"
    BY <2>1 DEF Clearing
  <2> QED
    BY <1>2, <2>2, <2>3
<1> QED
  BY <1>3, <1>4, <1>5, <1>6 DEF Drafting

\* Every step without fault, as long as it lets no viewer in twice.
LEMMA StepCollects ==
    ASSUME Onward, [FNext]_allvars, faults' = 0, faults = 0,
           \A p \in Session : FCommit(p) /\ tx[p].viewer # NoUser =>
               tx[p].viewer \notin ledger[tx[p].secret].viewers
    PROVE  Collected'
<1>1. ~BotCrash /\ ~WorkerCrash /\ \A p \in Session : ~SendFails(p) /\ ~HandlerFails(p)
  BY DEF BotCrash, WorkerCrash, SendFails, HandlerFails
<1>2. ASSUME NEW p \in Session, Handler(p)
      PROVE  Collected'
  <2>1. CASE FSession(p)
    <3>1. UNCHANGED <<job, timers, relay, disk>>
      BY <2>1 DEF FSession, fvars
    <3> QED
      BY <3>1, NobodyMoves
  <2>2. CASE FCommit(p)
    BY <2>2, FCommitCollects
  <2>3. CASE ~FSession(p) /\ ~FCommit(p)
    BY <1>1, <1>2, <2>3, FPanicCommitCollects, UnlinkCollects, StartCollects, CloneCollects,
       CacheCollects, ArmCollects, SentCollects, RelayCloneCollects, RelayUnlinkCollects,
       RelayDropCollects, RelayInsertCollects, RelayBeginCollects, DraftingCollects
       DEF Handler
  <2> QED
    BY <2>1, <2>2, <2>3
<1>3. CASE \E u \in User : DraftForget(u)
  <2>1. UNCHANGED <<job, timers, relay, disk>>
    BY <1>3 DEF DraftForget
  <2> QED
    BY <2>1, NobodyMoves
<1>4. CASE (\E k \in Key : RelayExpires(k)) \/ (\E t \in timers : TimerFires(t))
  BY <1>4, ExpiryCollects, TimerCollects
<1>5. CASE \/ Tick /\ UNCHANGED fvars
           \/ FWorker
           \/ Sweep
           \/ UNCHANGED allvars
  <2>1. UNCHANGED <<job, timers, relay>> /\ disk' \subseteq disk
    BY <1>5 DEF fvars, FWorker, Sweep, allvars
  <2> QED
    BY <2>1, NobodyMoves
<1> QED
  BY <1>1, <1>2, <1>3, <1>4, <1>5 DEF FNext

-----------------------------------------------------------------------------
(* The views and the files that last *)

\* Some step begins a secret.
Creates == \E p \in Session, s \in Secret :
               RelayInsert(p, s) \/ \E d \in Drafts : Finalize(p, d, s)

\* What a step does to the ledger: nothing, a new entry, or one more open.
LEMMA LedgerSteps ==
    ASSUME FInv, [FNext]_allvars
    PROVE  \/ ledger' = ledger /\ \A p \in Session : FCommit(p) => tx[p].viewer = NoUser
           \/ /\ \A p \in Session : ~FCommit(p)
              /\ \E s \in Secret : \E d, t : /\ rows[s].status = "absent"
                                             /\ ledger' = [ledger EXCEPT ![s] = NewEntry(d, t)]
           \/ \E p \in Session : FCommit(p) /\ tx[p].viewer # NoUser
<1> SUFFICES ASSUME \A p \in Session : FCommit(p) => tx[p].viewer = NoUser
             PROVE  \/ ledger' = ledger
                    \/ /\ \A p \in Session : ~FCommit(p)
                       /\ \E s \in Secret : \E d, t :
                              /\ rows[s].status = "absent"
                              /\ ledger' = [ledger EXCEPT ![s] = NewEntry(d, t)]
  OBVIOUS
<1>1. CASE \E p \in Session : FCommit(p)
  BY <1>1 DEF FCommit, Commit
<1>2. CASE \A p \in Session : ~FCommit(p)
  <2>1. ASSUME NEW s \in Secret, NEW u, NEW d, NEW path, NEW t, Create(u, d, path, s, t)
        PROVE  rows[s].status = "absent" /\ ledger' = [ledger EXCEPT ![s] = NewEntry(d, t)]
    BY <2>1 DEF Create
  <2>2. CASE Creates
    BY <1>2, <2>1, <2>2 DEF Creates, Finalize, RelayInsert
  <2>3. ASSUME NEW p \in Session, Handler(p), ~Creates
        PROVE  ledger' = ledger
    <3>1. CASE FSession(p)
      BY <3>1 DEF FSession, ConsumeExpired, ConsumeDenied, ConsumeGranted, DestroyOwned,
                  PanicSelect, PanicUpdate, Abort, Decide
    <3>2. CASE ~FSession(p)
      BY <1>2, <2>3, <3>2 DEF Creates, Handler, FPanicCommit, PanicCommit, Unlink, Start, Clone,
             Cache, Arm, Sent, SendFails, HandlerFails, RelayClone, RelayUnlink, RelayDrop,
             RelayBegin, Drafting, Upload, DraftRead, DraftWrite, DraftUnlink, DraftClear, vars
    <3> QED
      BY <3>1, <3>2
  <2>4. CASE ~\E p \in Session : Handler(p)
    BY <2>4 DEF FNext, DraftForget, Tick, RelayExpires, TimerFires, FWorker, ExpireSelect, ExpireUpdate,
                WorkerAbort, ExpireCommit, Sweep, BotCrash, WorkerCrash, allvars, vars
  <2> QED
    BY <2>2, <2>3, <2>4
<1> QED
  BY <1>1, <1>2

\* Viewers are never more than opens; once a viewer came twice the two stay apart.
LEMMA ViewersStay ==
    ASSUME FInv, [FNext]_allvars, NEW s \in Secret, ViewersCounted(s)
    PROVE  /\ ViewersCounted(s)'
           /\ ledger[s].viewers \subseteq ledger'[s].viewers
           /\ Cardinality(ledger'[s].viewers) = ledger'[s].opens =>
                  /\ Cardinality(ledger[s].viewers) = ledger[s].opens
                  /\ \A p \in Session : FCommit(p) /\ tx[p].viewer # NoUser /\ tx[p].secret = s =>
                         tx[p].viewer \notin ledger[s].viewers
<1>1. /\ ledger \in [Secret -> Entry] /\ RowAgrees(rows[s], ledger[s])
      /\ ledger[s].opens \in Nat
  BY DEF FInv, IInv, TypeOK, Entry
<1>2. ASSUME ledger'[s] = ledger[s],
             \A p \in Session : FCommit(p) /\ tx[p].viewer # NoUser => tx[p].secret # s
      PROVE  /\ ViewersCounted(s)'
             /\ ledger[s].viewers \subseteq ledger'[s].viewers
             /\ Cardinality(ledger'[s].viewers) = ledger'[s].opens =>
                    /\ Cardinality(ledger[s].viewers) = ledger[s].opens
                    /\ \A p \in Session :
                           FCommit(p) /\ tx[p].viewer # NoUser /\ tx[p].secret = s =>
                               tx[p].viewer \notin ledger[s].viewers
  BY <1>2 DEF ViewersCounted
<1>3. CASE ledger' = ledger /\ \A p \in Session : FCommit(p) => tx[p].viewer = NoUser
  BY <1>2, <1>3
<1>4. ASSUME \A p \in Session : ~FCommit(p), NEW x \in Secret, NEW d, NEW t,
             rows[x].status = "absent", ledger' = [ledger EXCEPT ![x] = NewEntry(d, t)]
      PROVE  /\ ViewersCounted(s)'
             /\ ledger[s].viewers \subseteq ledger'[s].viewers
             /\ Cardinality(ledger'[s].viewers) = ledger'[s].opens =>
                    /\ Cardinality(ledger[s].viewers) = ledger[s].opens
                    /\ \A p \in Session :
                           FCommit(p) /\ tx[p].viewer # NoUser /\ tx[p].secret = s =>
                               tx[p].viewer \notin ledger[s].viewers
  <2>1. CASE x # s
    BY <1>1, <1>2, <1>4, <2>1
  <2>2. CASE x = s
    <3>1. ledger[s].viewers = {} /\ ledger[s].opens = 0
      BY <1>1, <1>4, <2>2 DEF RowAgrees, LedgerAgrees, NoEntry
    <3>2. ledger'[s].viewers = {} /\ ledger'[s].opens = 0
      BY <1>1, <1>4, <2>2 DEF NewEntry, NoEntry
    <3> QED
      BY <1>4, <3>1, <3>2, FS_EmptySet DEF ViewersCounted
  <2> QED
    BY <2>1, <2>2
<1>5. ASSUME NEW p \in Session, FCommit(p), tx[p].viewer # NoUser
      PROVE  /\ ViewersCounted(s)'
             /\ ledger[s].viewers \subseteq ledger'[s].viewers
             /\ Cardinality(ledger'[s].viewers) = ledger'[s].opens =>
                    /\ Cardinality(ledger[s].viewers) = ledger[s].opens
                    /\ \A q \in Session :
                           FCommit(q) /\ tx[q].viewer # NoUser /\ tx[q].secret = s =>
                               tx[q].viewer \notin ledger[s].viewers
  <2>1. /\ tx[p].op = "row" /\ tx[p].secret \in Secret
        /\ ledger' = [ledger EXCEPT ![tx[p].secret] =
                          EntryAfter(ledger[tx[p].secret], tx[p].viewer, tx[p].at)]
    BY <1>5 DEF FCommit, Commit, FInv, IInv, TypeOK, RowTx, PanicTx, Idle
  <2>2. \A q \in Session : FCommit(q) => q = p
    <3>1. \A q \in Session : FCommit(q) =>
              /\ tx[q] # Idle /\ tx' = [tx EXCEPT ![q] = Idle]
      BY DEF FCommit, Commit, Idle
    <3>2. tx \in [Session -> {Idle} \cup RowTx \cup PanicTx]
      BY DEF FInv, IInv, TypeOK
    <3> QED
      BY <1>5, <3>1, <3>2
  <2>3. CASE tx[p].secret # s
    <3>1. ledger'[s] = ledger[s]
      BY <1>1, <2>1, <2>3
    <3> QED
      BY <1>2, <2>2, <2>3, <3>1
  <2>4. CASE tx[p].secret = s
    <3>1. PICK V : V = ledger[s].viewers
      OBVIOUS
    <3>2. PICK n \in Nat : n = ledger[s].opens
      BY <1>1
    <3>3. PICK u : u = tx[p].viewer
      OBVIOUS
    <3>4. ledger'[s].viewers = V \cup {u} /\ ledger'[s].opens = n + 1
      BY <1>1, <2>1, <2>4, <3>1, <3>2, <3>3 DEF EntryAfter, Entry
    <3>5. IsFiniteSet(V) /\ Cardinality(V) <= n /\ Cardinality(V) \in Nat
      BY <3>1, <3>2, FS_CardinalityType DEF ViewersCounted
    <3>6. /\ IsFiniteSet(V \cup {u})
          /\ u \in V => Cardinality(V \cup {u}) = Cardinality(V)
          /\ u \notin V => Cardinality(V \cup {u}) = Cardinality(V) + 1
      BY <3>5, FS_AddElement
    <3>7. /\ Cardinality(V \cup {u}) <= n + 1
          /\ Cardinality(V \cup {u}) = n + 1 => u \notin V /\ Cardinality(V) = n
      BY <3>5, <3>6
    <3> QED
      BY <2>2, <3>1, <3>2, <3>3, <3>4, <3>6, <3>7 DEF ViewersCounted
  <2> QED
    BY <2>3, <2>4
<1> QED
  BY <1>3, <1>4, <1>5, LedgerSteps

\* A file stays the one its secret was created with.
LEMMA HomesLast ==
    ASSUME FInv, [FNext]_allvars, NEW s \in Secret
    PROVE  home'[s] = home[s] \/ home[s] = NoPath
<1>1. /\ home \in [Secret -> File] /\ HomeFits(s)
  BY DEF FInv, FTypeOK
<1>2. ASSUME NEW x \in Secret, NEW u, NEW d, NEW path, NEW t, Create(u, d, path, x, t),
             NEW f, home' = [home EXCEPT ![x] = f]
      PROVE  home'[s] = home[s] \/ home[s] = NoPath
  BY <1>1, <1>2 DEF Create, HomeFits
<1>3. CASE Creates
  BY <1>2, <1>3 DEF Creates, Finalize, RelayInsert
<1>4. ASSUME NEW p \in Session, Handler(p), ~Creates
      PROVE  home' = home
  BY <1>4 DEF Creates, Handler, FSession, FCommit, FPanicCommit, Unlink, Start, Clone, Cache, Arm,
              Sent, SendFails, HandlerFails, RelayClone, RelayUnlink, RelayDrop, RelayBegin,
              Drafting, Upload, DraftRead, DraftWrite, DraftUnlink, DraftClear, fvars, ghosts
<1>5. CASE ~\E p \in Session : Handler(p)
  BY <1>5 DEF FNext, DraftForget, RelayExpires, TimerFires, FWorker, Sweep, BotCrash,
              WorkerCrash, fvars, allvars, ghosts
<1> QED
  BY <1>3, <1>4, <1>5

\* Faults and rollbacks are not forgotten.
LEMMA FaultsLast ==
    ASSUME FInv, [FNext]_allvars
    PROVE  (faults' = 0 => faults = 0) /\ (aborts' = 0 => aborts = 0)
<1>1. faults \in Nat /\ aborts \in Nat
  BY FaultAssumption DEF FInv, FTypeOK, IInv, TypeOK
<1>2. faults' = faults \/ faults' = faults + 1
  <2>1. ASSUME NEW p \in Session, Handler(p)
        PROVE  faults' = faults \/ faults' = faults + 1
    <3>1. CASE Drafting(p)
      BY <3>1 DEF Drafting, Upload, DraftRead, DraftWrite, Finalize, DraftUnlink, DraftClear
    <3>2. CASE ~Drafting(p)
      BY <2>1, <3>2 DEF Handler, FSession, FCommit, FPanicCommit, Unlink, Start, Clone, Cache, Arm,
             Sent, SendFails, HandlerFails, RelayClone, RelayInsert, RelayUnlink, RelayDrop,
             RelayBegin, fvars
    <3> QED
      BY <3>1, <3>2
  <2>2. CASE ~\E p \in Session : Handler(p)
    BY <2>2 DEF FNext, DraftForget, RelayExpires, TimerFires, FWorker, Sweep, BotCrash,
                WorkerCrash, fvars, allvars
  <2> QED
    BY <2>1, <2>2
<1>3. aborts' = aborts \/ aborts' = aborts + 1
  <2>1. ASSUME NEW p \in Session, Handler(p)
        PROVE  aborts' = aborts \/ aborts' = aborts + 1
    <3>1. CASE FSession(p)
      BY <3>1 DEF FSession, ConsumeExpired, ConsumeDenied, ConsumeGranted, DestroyOwned,
                  PanicSelect, PanicUpdate, Abort, Decide
    <3>2. CASE ~FSession(p)
      BY <2>1, <3>2 DEF Handler, FCommit, Commit, FPanicCommit, PanicCommit, Unlink, Start,
                        Clone, Cache, Arm, Sent, SendFails, HandlerFails, RelayClone,
                        RelayInsert, Create, RelayUnlink, RelayDrop, RelayBegin, Drafting,
                        Upload, DraftRead, DraftWrite, Finalize, DraftUnlink, DraftClear, vars
    <3> QED
      BY <3>1, <3>2
  <2>2. CASE ~\E p \in Session : Handler(p)
    BY <2>2 DEF FNext, DraftForget, Tick, RelayExpires, TimerFires, FWorker,
                ExpireSelect, ExpireUpdate, WorkerAbort, ExpireCommit, Sweep, BotCrash,
                WorkerCrash, allvars, vars
  <2> QED
    BY <2>1, <2>2
<1> QED
  BY <1>1, <1>2, <1>3

\* Uploads are not forgotten, and a file that comes to the disk has a name nobody uses.
LEMMA FilesArrive ==
    ASSUME [FNext]_allvars
    PROVE  uploads \subseteq uploads' /\ disk' \subseteq disk \cup Fresh
<1>1. ASSUME NEW p \in Session, Handler(p)
      PROVE  uploads \subseteq uploads' /\ disk' \subseteq disk \cup Fresh
  <2>1. CASE \E u \in User : Upload(p, u)
    BY <2>1 DEF Upload
  <2>2. CASE Drafting(p) /\ ~\E u \in User : Upload(p, u)
    BY <2>2 DEF Drafting, DraftRead, DraftWrite, Finalize, DraftUnlink, DraftClear, ghosts
  <2>3. CASE Clone(p) \/ RelayClone(p)
    BY <2>3 DEF Clone, RelayClone, ghosts
  <2>4. CASE ~Drafting(p) /\ ~Clone(p) /\ ~RelayClone(p)
    BY <1>1, <2>4 DEF Handler, FSession, FCommit, FPanicCommit, Unlink, Start, Cache, Arm, Sent,
             SendFails, HandlerFails, RelayInsert, RelayUnlink, RelayDrop, RelayBegin, fvars,
             ghosts
  <2> QED
    BY <2>1, <2>2, <2>3, <2>4
<1>2. CASE ~\E p \in Session : Handler(p)
  BY <1>2 DEF FNext, DraftForget, RelayExpires, TimerFires, FWorker, Sweep, BotCrash,
              WorkerCrash, fvars, allvars, ghosts
<1> QED
  BY <1>1, <1>2

\* The files that the jobs name besides their copies.
LEMMA OwnFilesStay ==
    ASSUME FInv, [FNext]_allvars, \A p \in Session : OwnFile(p), NEW q \in Session
    PROVE  OwnFile(q)'
<1>1. \A s \in Secret : home'[s] = home[s] \/ home[s] = NoPath
  BY HomesLast
<1>2. /\ job \in [Session -> {NoJob} \cup UnlinkJob \cup DeliverJob \cup RelayJob \cup DraftJob]
      /\ home \in [Secret -> File] /\ OwnFile(q)
  BY DEF FInv, FTypeOK
<1>3. Delivers(q) => job[q].secret \in Secret
  BY JobTypes DEF FInv, DeliverJob
<1>4. CASE job'[q] = job[q]
  <2>1. ASSUME job[q].op = "relay_del"
        PROVE  job[q].cached \notin disk'
    <3>1. job[q].cached \notin disk
      BY <1>2, <2>1 DEF OwnFile
    <3>2. job[q].cached \notin Fresh
      BY <2>1, FreshName DEF Relays
    <3> QED
      BY <3>1, <3>2, FilesArrive
  <2> QED
    BY <1>1, <1>2, <1>3, <1>4, <2>1 DEF OwnFile, Delivers
<1>5. CASE job'[q].op \in {"none", "unlink", "relay", "relay_insert", "edit", "finalize", "drop",
                         "clear"}
  BY <1>5 DEF OwnFile, Delivers
<1>6. ASSUME NEW o, NEW f, GoesOn(q, o, f), Delivers(q),
             o \in {"clone", "cache", "arm", "send"}
      PROVE  OwnFile(q)'
  BY <1>1, <1>2, <1>3, <1>6 DEF OwnFile, GoesOn, Delivers
<1>7. ASSUME NEW s \in Secret, RelayInsert(q, s)
      PROVE  OwnFile(q)'
  <2>1. job[q].op = "relay_insert" /\ job' = [job EXCEPT ![q].op = "relay_drop"]
        /\ home' = [home EXCEPT ![s] = job[q].copy]
    BY <1>7 DEF RelayInsert, Advance
  <2>2. GoesOn(q, "relay_drop", job[q].copy)
    BY <2>1, JobAdvances DEF FInv, Relays
  <2>3. job'[q].op = "relay_drop" /\ job'[q].copy = job[q].copy /\ home'[s] = job[q].copy
    BY <1>2, <2>1, <2>2 DEF GoesOn
  <2> QED
    BY <2>3 DEF OwnFile, Delivers
<1>8. ASSUME FCommit(q)
      PROVE  OwnFile(q)'
  <2>1. /\ tx[q].op = "row" /\ tx[q].secret \in Secret /\ UNCHANGED home
        /\ tx[q].viewer # NoUser => MayOpen(rows[tx[q].secret], tx[q].viewer, tx[q].at)
    BY <1>8 DEF FCommit, Commit, FInv, IInv, TypeOK, RowTx, PanicTx, Idle, DecidedOnCurrentRow,
                FairDecision, ghosts
  <2>2. CASE tx[q].viewer = NoUser
    <3>1. job'[q].op \in {"none", "unlink"}
      BY <1>2, <1>8, <2>2 DEF FCommit, Unlinking, NoJob
    <3> QED
      BY <1>5, <3>1
  <2>3. CASE tx[q].viewer # NoUser
    <3>1. /\ job'[q].op = "start" /\ job'[q].secret = tx[q].secret
          /\ job'[q].file = rows[tx[q].secret].path
      BY <1>2, <1>8, <2>3 DEF FCommit
    <3>2. rows[tx[q].secret].path = home[tx[q].secret]
      BY <2>1, <2>3 DEF FInv, HomeFits, MayOpen, IsAvailable, IsActive
    <3> QED
      BY <2>1, <3>1, <3>2 DEF OwnFile, Delivers
  <2> QED
    BY <2>2, <2>3
<1>9. ASSUME NEW p \in Session, Handler(p)
      PROVE  OwnFile(q)'
  <2>1. CASE p # q
    <3>1. CASE Drafting(p)
      BY <1>2, <1>4, <2>1, <3>1 DEF Drafting, Upload, DraftRead, DraftWrite, Finalize, DraftUnlink,
             DraftClear
    <3>2. CASE ~Drafting(p)
      BY <1>2, <1>4, <1>9, <2>1, <3>2 DEF Handler, FSession, FCommit, FPanicCommit, Unlink, Start,
             Clone, Cache, Arm, Sent, SendFails, HandlerFails, RelayClone, RelayInsert,
             RelayUnlink, RelayDrop, RelayBegin, fvars, Advance
    <3> QED
      BY <3>1, <3>2
  <2>2. CASE p = q
    <3>1. CASE FSession(q)
      BY <1>4, <3>1 DEF FSession, fvars
    <3>2. CASE \/ FPanicCommit(q) \/ Unlink(q) \/ Sent(q) \/ SendFails(q) \/ RelayDrop(q)
               \/ DraftWrite(q) \/ DraftClear(q) \/ HandlerFails(q)
               \/ job' = [job EXCEPT ![q] = NoJob]
      <4>1. \/ job' = [job EXCEPT ![q] = NoJob]
            \/ job' = [job EXCEPT ![q] = Unlinking(tx[q].paths)]
        BY <3>2 DEF FPanicCommit, Unlink, Sent, SendFails, RelayDrop, DraftWrite, DraftClear,
                    HandlerFails
      <4>2. job'[q].op \in {"none", "unlink"}
        BY <1>2, <4>1 DEF Unlinking, NoJob
      <4> QED
        BY <1>5, <4>2
    <3>3. ASSUME NEW o \in {"clone", "cache", "arm", "send"}, Delivers(q),
                 \/ job' = [job EXCEPT ![q].op = o]
                 \/ \E f \in File : job' = [job EXCEPT ![q].op = o, ![q].copy = f]
          PROVE  OwnFile(q)'
      <4>1. \E f : GoesOn(q, o, f)
        BY <3>3, JobAdvances, JobCopies DEF FInv
      <4> QED
        BY <1>6, <3>3, <4>1
    <3>4. Fresh \subseteq File
      BY DEF Fresh, File
    <3>5. CASE Start(q) \/ Clone(q) \/ Cache(q) \/ Arm(q)
      <4>1. Delivers(q)
        BY <3>5 DEF Start, Clone, Cache, Arm, Delivers
      <4> QED
        BY <3>2, <3>3, <3>4, <3>5, <4>1 DEF Start, Clone, Cache, Arm, Advance
    <3>6. CASE RelayClone(q)
      <4>1. CASE \/ job' = [job EXCEPT ![q].op = "relay_insert"]
                 \/ \E f \in File : job' = [job EXCEPT ![q].op = "relay_insert", ![q].copy = f]
        <5>1. \E f : GoesOn(q, "relay_insert", f)
          BY <3>6, <4>1, JobAdvances, JobCopies DEF FInv, RelayClone, Relays
        <5> QED
          BY <1>5, <5>1 DEF GoesOn
      <4> QED
        BY <3>2, <3>4, <3>6, <4>1 DEF RelayClone, Advance
    <3>7. CASE \E s \in Secret, u \in User : RelayBegin(q, s, u)
      <4>1. job'[q].op = "relay"
        BY <1>2, <3>7 DEF RelayBegin
      <4> QED
        BY <1>5, <4>1
    <3>8. CASE RelayUnlink(q)
      <4>1. /\ job[q].op = "relay_drop" /\ job' = [job EXCEPT ![q].op = "relay_del"]
            /\ disk' = disk \ {job[q].cached} /\ home' = home
        BY <3>8 DEF RelayUnlink, Advance, ghosts
      <4>2. GoesOn(q, "relay_del", job[q].copy) /\ Relays(q)
        BY <4>1, JobAdvances DEF FInv, Relays
      <4>3. /\ job'[q].op = "relay_del" /\ job'[q].copy = job[q].copy
            /\ job'[q].cached = job[q].cached
        BY <4>2 DEF GoesOn
      <4> QED
        BY <1>2, <4>1, <4>3 DEF OwnFile, Delivers
    <3>9. CASE \/ \E u \in User : Upload(q, u)
               \/ \E u \in User, op \in Pressed : DraftRead(q, u, op)
               \/ DraftUnlink(q)
               \/ \E d \in Drafts, s \in Secret : Finalize(q, d, s)
      <4>1. job'[q].op \in {"edit", "finalize", "drop", "clear"}
        BY <1>2, <3>9, FaultAssumption
           DEF Upload, DraftRead, DraftUnlink, Finalize, Clearing
      <4> QED
        BY <1>5, <4>1
    <3> QED
      BY <1>7, <1>8, <1>9, <2>2, <3>1, <3>2, <3>5, <3>6, <3>7, <3>8, <3>9 DEF Handler, Drafting
  <2> QED
    BY <2>1, <2>2
<1>10. CASE BotCrash
  <2>1. job'[q].op = "none"
    BY <1>10 DEF BotCrash, NoJob
  <2> QED
    BY <1>5, <2>1
<1>11. CASE ~BotCrash /\ ~\E p \in Session : Handler(p)
  BY <1>4, <1>11 DEF FNext, DraftForget, RelayExpires, TimerFires, FWorker, Sweep,
                     WorkerCrash, fvars, allvars
<1> QED
  BY <1>9, <1>10, <1>11

LEMMA InitCopyInv == FInit => CopyInv
<1> SUFFICES ASSUME FInit
             PROVE  CopyInv
  OBVIOUS
<1>1. FInv
  BY InitFInv
<1>2. /\ disk = {} /\ timers = {}
      /\ \A p \in Session : job[p] = NoJob
      /\ \A k \in Key : relay[k] = NoEntryCached
      /\ \A s \in Secret : ledger[s] = NoEntry
  BY DEF FInit, Init
<1>3. \A p \in Session : ~Delivers(p) /\ ~Relays(p) /\ OwnFile(p)
  BY <1>2 DEF NoJob, Delivers, Relays, OwnFile
<1>4. \A s \in Secret : ViewersCounted(s)
  BY <1>2, FS_EmptySet DEF ViewersCounted, NoEntry
<1>5. \A k \in Key : KeyFits(k)
  BY <1>2, <1>3 DEF KeyFits, Touched, DeliversTo, RelaysFrom, NoEntryCached
<1> QED
  BY <1>1, <1>2, <1>3, <1>4, <1>5 DEF CopyInv

LEMMA NextCopyInv == CopyInv /\ [FNext]_allvars => CopyInv'
<1> SUFFICES ASSUME CopyInv, [FNext]_allvars
             PROVE  CopyInv'
  OBVIOUS
<1>1. FInv /\ FInv'
  BY NextFInv DEF CopyInv
<1>2. \A s \in Secret : ViewersCounted(s)'
  BY <1>1, ViewersStay DEF CopyInv
<1>3. \A p \in Session : OwnFile(p)'
  BY <1>1, OwnFilesStay DEF CopyInv
<1>4. ASSUME SingleViews'
      PROVE  Collected'
  <2>1. SingleViews
    <3>1. faults = 0 /\ aborts = 0
      BY <1>1, <1>4, FaultsLast DEF SingleViews
    <3>2. \A s \in Secret : Cardinality(ledger[s].viewers) = ledger[s].opens
      BY <1>1, <1>4, ViewersStay DEF CopyInv, SingleViews
    <3> QED
      BY <3>1, <3>2 DEF SingleViews
  <2>2. Onward
    BY <1>1, <2>1, ViewersStay, HomesLast, FilesArrive DEF CopyInv, Onward, Collected, Lasting
  <2>3. \A p \in Session : FCommit(p) /\ tx[p].viewer # NoUser =>
            tx[p].viewer \notin ledger[tx[p].secret].viewers
    <3>1. \A p \in Session : FCommit(p) => tx[p].secret \in Secret
      BY <1>1 DEF FCommit, Commit, FInv, IInv, TypeOK, RowTx, PanicTx, Idle
    <3> QED
      BY <1>1, <1>4, <3>1, ViewersStay DEF CopyInv, SingleViews
  <2> QED
    BY <1>4, <2>1, <2>2, <2>3, StepCollects DEF SingleViews
<1> QED
  BY <1>1, <1>2, <1>3, <1>4 DEF CopyInv, Collected

\* Without fault, and as long as no viewer opens a secret twice, every file on disk is an upload,
\* the one a secret was created with, or an entry, a handler or a timer will see to it: the
\* copies of deliver_secret and relay_secret are collected.
THEOREM CopiesAreCollected == FSpec => []CopiesCollected
<1>1. CopyInv => CopiesCollected
  BY DEF CopyInv, SingleViews, Kept, CopiesCollected
<1> QED
  BY <1>1, InitCopyInv, NextCopyInv, PTL DEF FSpec

=============================================================================
