----------------------------- MODULE FileDelivery -----------------------------
(***************************************************************************)
(* What the handlers and the worker do around the transactions of the      *)
(* secret store: app/handlers.py (receive_file, finalize_secret, menu and  *)
(* cancel, deliver_secret, relay_secret, destroy, panic_execute),          *)
(* app/worker.py (cleanup_loop), app/file_store.py. State no transaction   *)
(* covers: encrypted files on disk, the paths drafts hold in Redis, the    *)
(* relay entries in Redis that let a viewer pass a secret on, the bot's    *)
(* in-memory timers.                                                       *)
(*                                                                         *)
(* A session of the store is a handler here; before its transaction, after *)
(* its commit, or without one it has a job, one step per await. File names *)
(* are random: a fresh file takes a name nothing refers to. The TTL of a   *)
(* relay entry (300 s) is a step that may happen at any moment after       *)
(* EXPIRE. Of a draft only the path is kept: CreateFlow has the rest.      *)
(***************************************************************************)
EXTENDS SecretStore

CONSTANTS
    RelayTTL,   \* the 86400 of relay_secret
    Pressed,    \* what users of this instance do with a draft
    MaxUploads, \* bound of the files users upload
    MaxFaults   \* bound of the crashes, failed sends and failed commands

ASSUME FaultAssumption ==
    /\ RelayTTL \in Nat \ {0} /\ MaxUploads \in Nat /\ MaxFaults \in Nat
    /\ Pressed \subseteq {"edit", "finalize", "drop", "forget"}

VARIABLES
    disk,       \* encrypted files in the storage directory
    draft,      \* Redis: encrypted_file_path of each user's draft
    job,        \* for each handler, what is left to do
    relay,      \* Redis: relay:{secret}:{viewer}
    timers,     \* delete_relay_copy_later tasks of the running bot
    sweep,      \* files the worker is about to delete
    faults,     \* how many crashes, failed sends and failed commands there were
    home,       \* ghost: the file each secret was created with
    uploads,    \* ghost: the files users uploaded
    contested,  \* ghost: draft paths read when they were already taken or gone
    mishaps     \* ghost: what deliveries and relays that ended early left behind

fvars == <<disk, draft, job, relay, timers, sweep, faults, home, uploads, contested, mishaps>>
ghosts == <<home, uploads, contested, mishaps>>
allvars == <<now, rows, tx, worker, aborts, ledger, disk, draft, job, relay, timers, sweep,
             faults, home, uploads, contested, mishaps>>

File == Path \cup {NoPath}
Key == Secret \X User

NoEntryCached == [kind |-> "none", copy |-> NoPath, ttl |-> FALSE]
RelayEntry == [kind: {"none", "text", "file"}, copy: File, ttl: BOOLEAN]

NoJob == [op |-> "none"]
UnlinkJob == [op: {"unlink"}, paths: SUBSET Path]
DeliverJob == [op: {"start", "clone", "cache", "arm", "send"}, secret: Secret, viewer: User,
               kind: Kind, file: File, last: BOOLEAN, copy: File]
RelayJob == [op: {"relay", "relay_insert", "relay_drop", "relay_del"}, secret: Secret,
             viewer: User, kind: {"text", "file"}, cached: File, copy: File]
DraftJob == [op: {"edit", "finalize", "drop", "clear"}, user: User, file: File]

\* What is recorded of the deliveries of a secret: one found the file gone ("missing"), a fault
\* ended one early ("cut off"), a decrypted file may be left. Of a relay: it deleted the copy
\* but not the entry ("undropped").
Mishap == ({"missing", "cut off", "plaintext"} \X Secret) \cup ({"undropped"} \X Key)

FTypeOK ==
    /\ disk \subseteq Path
    /\ draft \in [User -> File]
    /\ job \in [Session -> {NoJob} \cup UnlinkJob \cup DeliverJob \cup RelayJob \cup DraftJob]
    /\ relay \in [Key -> RelayEntry]
    /\ timers \subseteq (Key \X Path)
    /\ sweep \subseteq Path
    /\ faults \in 0..MaxFaults
    /\ home \in [Secret -> File]
    /\ contested \subseteq uploads
    /\ uploads \subseteq Path
    /\ mishaps \subseteq Mishap

FInit ==
    /\ Init
    /\ disk = {}
    /\ draft = [u \in User |-> NoPath]
    /\ job = [p \in Session |-> NoJob]
    /\ relay = [k \in Key |-> NoEntryCached]
    /\ timers = {}
    /\ sweep = {}
    /\ faults = 0
    /\ home = [s \in Secret |-> NoPath]
    /\ uploads = {}
    /\ contested = {}
    /\ mishaps = {}

Delivers(p) == job[p].op \in {"start", "clone", "cache", "arm", "send"}
Relays(p) == job[p].op \in {"relay", "relay_insert", "relay_drop", "relay_del"}

\* A handler that read a draft to make a secret of its file, or to delete it.
Takes(p, f) == job[p].op \in {"finalize", "drop"} /\ job[p].file = f

\* Names something still refers to: a new file gets another one.
JobFiles(j) == CASE j.op = "none" -> {}
                 [] j.op = "unlink" -> j.paths
                 [] j.op \in {"relay", "relay_insert", "relay_drop", "relay_del"} ->
                        {j.cached, j.copy}
                 [] j.op \in {"edit", "finalize", "drop", "clear"} -> {j.file}
                 [] OTHER -> {j.file, j.copy}

Named ==
    (UNION {JobFiles(job[p]) : p \in Session})
    \cup (UNION {tx[p].paths : p \in {q \in Session : tx[q] # Idle}})
    \cup (IF worker = Idle THEN {} ELSE worker.paths)
    \cup {relay[k].copy : k \in Key} \cup {t[2] : t \in timers}
    \cup {home[s] : s \in Secret} \cup sweep
    \cup {draft[u] : u \in User} \cup uploads

Fresh == Path \ (disk \cup Named)

Idles(p) == tx[p] = Idle /\ job[p] = NoJob

-----------------------------------------------------------------------------
(* The draft of a user and its file *)

\* receive_file: the upload is encrypted into a fresh file and update_data begins.
Upload(p, u) ==
    /\ Idles(p)
    /\ Cardinality(uploads) < MaxUploads
    /\ \E f \in Fresh :
           /\ disk' = disk \cup {f}
           /\ uploads' = uploads \cup {f}
           /\ job' = [job EXCEPT ![p] = [op |-> "edit", user |-> u, file |-> f]]
    /\ UNCHANGED <<vars, draft, relay, timers, sweep, faults, home, contested, mishaps>>

\* The GET of finalize_secret, of the handlers that drop a draft (start, menu, cancel, create)
\* and of every update_data. The latter two matter only when the draft has a file; an INSERT
\* is begun while the instance has a secret left for it.
DraftRead(p, u, op) ==
    /\ Idles(p)
    /\ op \in Pressed \ {"forget"}
    /\ IF op = "finalize" THEN \E s \in Secret : rows[s].status = "absent"
       ELSE draft[u] # NoPath
    /\ job' = [job EXCEPT ![p] = [op |-> op, user |-> u, file |-> draft[u]]]
    /\ contested' = IF /\ op # "edit" /\ draft[u] # NoPath
                       /\ \/ draft[u] \notin disk
                          \/ \E s \in Secret : home[s] = draft[u]
                          \/ \E q \in Session : Takes(q, draft[u])
                    THEN contested \cup {draft[u]} ELSE contested
    /\ UNCHANGED <<vars, disk, draft, relay, timers, sweep, faults, home, uploads, mishaps>>

\* The SET of update_data writes the whole draft back as it was read.
DraftWrite(p) ==
    /\ job[p].op = "edit"
    /\ draft' = [draft EXCEPT ![job[p].user] = job[p].file]
    /\ job' = [job EXCEPT ![p] = NoJob]
    /\ UNCHANGED <<vars, disk, relay, timers, sweep, faults, ghosts>>

Clearing(p) == [op |-> "clear", user |-> job[p].user, file |-> NoPath]

\* finalize_secret: the INSERT commits, with the path of the draft as it was read.
Finalize(p, d, s) ==
    /\ job[p].op = "finalize"
    /\ Create(job[p].user, d, job[p].file, s, now)
    /\ home' = [home EXCEPT ![s] = job[p].file]
    /\ job' = [job EXCEPT ![p] = Clearing(p)]
    /\ UNCHANGED <<disk, draft, relay, timers, sweep, faults, uploads, contested, mishaps>>

DraftUnlink(p) ==
    /\ job[p].op = "drop"
    /\ disk' = disk \ {job[p].file}
    /\ job' = [job EXCEPT ![p] = Clearing(p)]
    /\ UNCHANGED <<vars, draft, relay, timers, sweep, faults, ghosts>>

\* state.clear, after either.
DraftClear(p) ==
    /\ job[p].op = "clear"
    /\ draft' = [draft EXCEPT ![job[p].user] = NoPath]
    /\ job' = [job EXCEPT ![p] = NoJob]
    /\ UNCHANGED <<vars, disk, relay, timers, sweep, faults, ghosts>>

\* The dialogues of requests, answers and PINs clear the draft without a look at its file.
DraftForget(u) ==
    /\ "forget" \in Pressed
    /\ draft[u] # NoPath
    /\ draft' = [draft EXCEPT ![u] = NoPath]
    /\ UNCHANGED <<vars, disk, job, relay, timers, sweep, faults, ghosts>>

-----------------------------------------------------------------------------
(* The store's transactions, and what the handlers do next *)

\* A handler begins or advances its transaction.
FSession(p) ==
    /\ job[p] = NoJob
    /\ \/ \E u \in User, s \in Secret :
              \/ ConsumeExpired(p, u, s)
              \/ ConsumeDenied(p, u, s)
              \/ ConsumeGranted(p, u, s)
              \/ DestroyOwned(p, u, s)
       \/ \E u \in User : PanicSelect(p, u)
       \/ PanicUpdate(p)
       \/ Abort(p)
    /\ UNCHANGED fvars

Unlinking(S) == IF S = {} THEN NoJob ELSE [op |-> "unlink", paths |-> S]

\* deliver_secret, destroy: the result of the committed transaction. A granted open still has
\* the path of the row as it was under the lock.
FCommit(p) ==
    LET t == tx[p]
    IN  /\ Commit(p)
        /\ job' = [job EXCEPT ![p] =
               IF t.viewer = NoUser THEN Unlinking(t.paths)
               ELSE [op |-> "start", secret |-> t.secret, viewer |-> t.viewer,
                     kind |-> t.row.kind, file |-> rows[t.secret].path,
                     last |-> ~IsActive(t.row), copy |-> NoPath]]
        /\ UNCHANGED <<disk, draft, relay, timers, sweep, faults, ghosts>>

FPanicCommit(p) ==
    /\ PanicCommit(p)
    /\ job' = [job EXCEPT ![p] = Unlinking(tx[p].paths)]
    /\ UNCHANGED <<disk, draft, relay, timers, sweep, faults, ghosts>>

\* file_store.delete, missing files included.
Unlink(p) ==
    /\ job[p].op = "unlink"
    /\ disk' = disk \ job[p].paths
    /\ job' = [job EXCEPT ![p] = NoJob]
    /\ UNCHANGED <<vars, draft, relay, timers, sweep, faults, ghosts>>

-----------------------------------------------------------------------------
(* deliver_secret after consume_secret *)

KeyOf(p) == <<job[p].secret, job[p].viewer>>

Advance(p, op) == job' = [job EXCEPT ![p].op = op]

\* A text goes straight to the relay entry; a file is decrypted to a temporary file first,
\* and an exception (its file is gone) ends the handler.
Start(p) ==
    /\ job[p].op = "start"
    /\ \/ job[p].kind = "text" /\ Advance(p, "cache") /\ UNCHANGED mishaps
       \/ job[p].kind = "file" /\ job[p].file \in disk /\ Advance(p, "clone")
          /\ UNCHANGED mishaps
       \/ job[p].kind = "file" /\ job[p].file \notin disk
          /\ job' = [job EXCEPT ![p] = NoJob]
          /\ mishaps' = mishaps \cup {<<"missing", job[p].secret>>}
    /\ UNCHANGED <<vars, disk, draft, relay, timers, sweep, faults, home, uploads, contested>>

\* clone_encrypted stands before the try: when it raises, nobody unlinks the temporary file.
Clone(p) ==
    /\ job[p].op = "clone"
    /\ \/ \E f \in Fresh :
              /\ job[p].file \in disk
              /\ disk' = disk \cup {f}
              /\ job' = [job EXCEPT ![p].op = "cache", ![p].copy = f]
              /\ UNCHANGED mishaps
       \/ /\ job[p].file \notin disk
          /\ job' = [job EXCEPT ![p] = NoJob]
          /\ mishaps' = mishaps \cup ({"missing", "plaintext"} \X {job[p].secret})
          /\ UNCHANGED disk
    /\ UNCHANGED <<vars, draft, relay, timers, sweep, faults, home, uploads, contested>>

\* HSET writes the entry and leaves the TTL of an older one; EXPIRE is the next command.
Cache(p) ==
    /\ job[p].op = "cache"
    /\ relay' = [relay EXCEPT ![KeyOf(p)] =
           [kind |-> job[p].kind, copy |-> job[p].copy, ttl |-> @.ttl]]
    /\ Advance(p, "arm")
    /\ UNCHANGED <<vars, disk, draft, timers, sweep, faults, ghosts>>

Arm(p) ==
    /\ job[p].op = "arm"
    /\ relay' = [relay EXCEPT ![KeyOf(p)].ttl = (relay[KeyOf(p)].kind # "none")]
    /\ Advance(p, "send")
    /\ UNCHANGED <<vars, disk, draft, timers, sweep, faults, ghosts>>

\* A mutant of Sent: the file of a secret destroyed by its last view is left to the worker.
SentKeepsFile(p) ==
    /\ job[p].op = "send"
    /\ timers' = timers \cup (IF job[p].kind = "file" THEN {<<KeyOf(p), job[p].copy>>} ELSE {})
    /\ job' = [job EXCEPT ![p] = NoJob]
    /\ UNCHANGED <<vars, disk, draft, relay, sweep, faults, ghosts>>

\* A mutant of Sent: the last view starts no timer.
SentLastNoTimer(p) ==
    /\ job[p].op = "send"
    /\ timers' = timers \cup
           (IF job[p].kind = "file" /\ ~job[p].last THEN {<<KeyOf(p), job[p].copy>>} ELSE {})
    /\ disk' = IF job[p].kind = "file" /\ job[p].last THEN disk \ {job[p].file} ELSE disk
    /\ job' = [job EXCEPT ![p] = NoJob]
    /\ UNCHANGED <<vars, draft, relay, sweep, faults, ghosts>>

\* A mutant of Sent: the timer of a file copy is started for a text too.
SentAlwaysTimer(p) ==
    /\ job[p].op = "send"
    /\ timers' = timers \cup {<<KeyOf(p), job[p].copy>>}
    /\ disk' = IF job[p].kind = "file" /\ job[p].last THEN disk \ {job[p].file} ELSE disk
    /\ job' = [job EXCEPT ![p] = NoJob]
    /\ UNCHANGED <<vars, draft, relay, sweep, faults, ghosts>>

\* The send returned: the temporary file is unlinked, the timer of the copy starts, and the
\* file of a destroyed secret is deleted, with no await in between.
Sent(p) ==
    /\ job[p].op = "send"
    /\ timers' = timers \cup (IF job[p].kind = "file" THEN {<<KeyOf(p), job[p].copy>>} ELSE {})
    /\ disk' = IF job[p].kind = "file" /\ job[p].last THEN disk \ {job[p].file} ELSE disk
    /\ job' = [job EXCEPT ![p] = NoJob]
    /\ UNCHANGED <<vars, draft, relay, sweep, faults, ghosts>>

\* The send raised (the viewer blocked the bot, Telegram is away): the entry and the copy are
\* deleted, or the DEL raises as well and both stay. The temporary file is unlinked anyway.
SendFails(p) ==
    /\ faults < MaxFaults
    /\ job[p].op = "send"
    /\ \/ /\ job[p].kind = "file"
          /\ relay' = [relay EXCEPT ![KeyOf(p)] = NoEntryCached]
          /\ disk' = disk \ {job[p].copy}
       \/ UNCHANGED <<relay, disk>>
    /\ job' = [job EXCEPT ![p] = NoJob]
    /\ faults' = faults + 1
    /\ mishaps' = mishaps \cup {<<"cut off", job[p].secret>>}
    /\ UNCHANGED <<vars, draft, timers, sweep, home, uploads, contested>>

RelayExpires(k) ==
    /\ relay[k].ttl
    /\ relay' = [relay EXCEPT ![k] = NoEntryCached]
    /\ UNCHANGED <<vars, disk, draft, job, timers, sweep, faults, ghosts>>

\* delete_relay_copy_later sleeps longer than the entry its delivery wrote can live; it spares
\* the copy when it finds an entry, which then belongs to a later delivery.
TimerFires(t) ==
    /\ t \in timers
    /\ relay[t[1]].copy # t[2]
    /\ timers' = timers \ {t}
    /\ disk' = IF relay[t[1]].kind = "none" THEN disk \ {t[2]} ELSE disk
    /\ UNCHANGED <<vars, draft, job, relay, sweep, faults, ghosts>>

-----------------------------------------------------------------------------
(* relay_secret: a viewer passes on what the relay entry still holds *)

RelayDraft(kind) ==
    [kind |-> kind, mode |-> "any", recipient |-> NoUser, pin |-> FALSE, ttl |-> RelayTTL,
     views |-> 1, available_at |-> NoTime, destroy_after |-> 3600]

RelayBegin(p, s, u) ==
    /\ Idles(p)
    /\ relay[<<s, u>>].kind # "none"
    /\ job' = [job EXCEPT ![p] =
           [op |-> "relay", secret |-> s, viewer |-> u, kind |-> relay[<<s, u>>].kind,
            cached |-> relay[<<s, u>>].copy, copy |-> NoPath]]
    /\ UNCHANGED <<vars, disk, draft, relay, timers, sweep, faults, ghosts>>

\* A mutant of RelayClone: the new secret takes over the cached file, which is then deleted.
RelayCloneShared(p) ==
    /\ job[p].op = "relay"
    /\ job' = [job EXCEPT ![p].op = "relay_insert", ![p].copy = job[p].cached]
    /\ UNCHANGED <<vars, disk, draft, relay, timers, sweep, faults, ghosts>>

\* The file is copied once more for the new secret; a missing cached copy raises.
RelayClone(p) ==
    /\ job[p].op = "relay"
    /\ \/ job[p].kind = "text" /\ Advance(p, "relay_insert") /\ UNCHANGED disk
       \/ /\ job[p].kind = "file" /\ job[p].cached \in disk
          /\ \E f \in Fresh :
                 /\ disk' = disk \cup {f}
                 /\ job' = [job EXCEPT ![p].op = "relay_insert", ![p].copy = f]
       \/ /\ job[p].kind = "file" /\ job[p].cached \notin disk
          /\ job' = [job EXCEPT ![p] = NoJob]
          /\ UNCHANGED disk
    /\ UNCHANGED <<vars, draft, relay, timers, sweep, faults, ghosts>>

RelayInsert(p, s) ==
    /\ job[p].op = "relay_insert"
    /\ Create(job[p].viewer, RelayDraft(job[p].kind), job[p].copy, s, now)
    /\ home' = [home EXCEPT ![s] = job[p].copy]
    /\ Advance(p, "relay_drop")
    /\ UNCHANGED <<disk, draft, relay, timers, sweep, faults, uploads, contested, mishaps>>

\* A mutant of RelayUnlink: the entry is left to its TTL.
RelayUnlinkOnly(p) ==
    /\ job[p].op = "relay_drop"
    /\ disk' = disk \ {job[p].cached}
    /\ job' = [job EXCEPT ![p] = NoJob]
    /\ UNCHANGED <<vars, draft, relay, timers, sweep, faults, ghosts>>

\* The cached copy is deleted first, and for the time of one command its entry stays.
RelayUnlink(p) ==
    /\ job[p].op = "relay_drop"
    /\ disk' = disk \ {job[p].cached}
    /\ Advance(p, "relay_del")
    /\ UNCHANGED <<vars, draft, relay, timers, sweep, faults, ghosts>>

\* DEL takes whatever entry is under the key by now.
RelayDrop(p) ==
    /\ job[p].op = "relay_del"
    /\ relay' = [relay EXCEPT ![KeyOf(p)] = NoEntryCached]
    /\ job' = [job EXCEPT ![p] = NoJob]
    /\ UNCHANGED <<vars, disk, draft, timers, sweep, faults, ghosts>>

-----------------------------------------------------------------------------
(* The worker's loop and the crashes *)

\* A mutant of FWorker: the files are deleted as soon as their secrets are selected.
FWorkerSweepsSelected ==
    /\ \/ sweep = {} /\ ExpireSelect /\ sweep' = worker'.paths
       \/ ExpireUpdate /\ UNCHANGED sweep
       \/ WorkerAbort /\ UNCHANGED sweep
       \/ ExpireCommit /\ UNCHANGED sweep
    /\ UNCHANGED <<disk, draft, job, relay, timers, faults, ghosts>>

\* expire_secrets starts a cycle only when the files of the last one are deleted.
FWorker ==
    /\ \/ sweep = {} /\ ExpireSelect /\ UNCHANGED sweep
       \/ ExpireUpdate /\ UNCHANGED sweep
       \/ WorkerAbort /\ UNCHANGED sweep
       \/ ExpireCommit /\ sweep' = worker.paths
    /\ UNCHANGED <<disk, draft, job, relay, timers, faults, ghosts>>

Sweep ==
    /\ sweep # {}
    /\ disk' = disk \ sweep
    /\ sweep' = {}
    /\ UNCHANGED <<vars, draft, job, relay, timers, faults, ghosts>>

\* What a handler that stops here leaves behind.
LeftBy(p) ==
    CASE Delivers(p) ->
             {<<"cut off", job[p].secret>>}
             \cup (IF job[p].kind = "file" THEN {<<"plaintext", job[p].secret>>} ELSE {})
      [] job[p].op = "relay_del" -> {<<"undropped", KeyOf(p)>>}
      [] OTHER -> {}

\* A command raises, and with it the handler that awaits it: Redis or the disk is away (724 to
\* 734, 797, 811, every step of a draft), or the INSERT fails.
HandlerFails(p) ==
    /\ faults < MaxFaults
    /\ job[p].op \notin {"none", "unlink", "send"}
    /\ job' = [job EXCEPT ![p] = NoJob]
    /\ mishaps' = mishaps \cup LeftBy(p)
    /\ faults' = faults + 1
    /\ UNCHANGED <<vars, disk, draft, relay, timers, sweep, home, uploads, contested>>

\* The bot process dies: transactions roll back, handlers and timers are forgotten.
BotCrash ==
    /\ faults < MaxFaults
    /\ tx' = [p \in Session |-> Idle]
    /\ job' = [p \in Session |-> NoJob]
    /\ timers' = {}
    /\ mishaps' = mishaps \cup UNION {LeftBy(p) : p \in Session}
    /\ faults' = faults + 1
    /\ UNCHANGED <<now, rows, worker, aborts, ledger, disk, draft, relay, sweep, home, uploads,
                   contested>>

\* The worker process dies, or expire_requests raises after expire_secrets committed.
WorkerCrash ==
    /\ faults < MaxFaults
    /\ worker' = Idle
    /\ sweep' = {}
    /\ faults' = faults + 1
    /\ UNCHANGED <<now, rows, tx, aborts, ledger, disk, draft, job, relay, timers, ghosts>>

-----------------------------------------------------------------------------

Drafting(p) ==
    \/ \E u \in User : Upload(p, u)
    \/ \E u \in User, op \in Pressed : DraftRead(p, u, op)
    \/ DraftWrite(p)
    \/ \E d \in Drafts, s \in Secret : Finalize(p, d, s)
    \/ DraftUnlink(p)
    \/ DraftClear(p)

Handler(p) ==
    \/ Drafting(p)
    \/ FSession(p)
    \/ FCommit(p)
    \/ FPanicCommit(p)
    \/ Unlink(p)
    \/ Start(p)
    \/ Clone(p)
    \/ Cache(p)
    \/ Arm(p)
    \/ Sent(p)
    \/ SendFails(p)
    \/ HandlerFails(p)
    \/ RelayClone(p)
    \/ RelayUnlink(p)
    \/ RelayDrop(p)
    \/ \E s \in Secret : RelayInsert(p, s)
    \/ \E s \in Secret, u \in User : RelayBegin(p, s, u)

FNext ==
    \/ Tick /\ UNCHANGED fvars
    \/ \E p \in Session : Handler(p)
    \/ \E u \in User : DraftForget(u)
    \/ \E k \in Key : RelayExpires(k)
    \/ \E t \in timers : TimerFires(t)
    \/ FWorker
    \/ Sweep
    \/ BotCrash
    \/ WorkerCrash

FSpec == FInit /\ [][FNext]_allvars

-----------------------------------------------------------------------------
(* Properties *)

\* The file of a secret that can still be opened: no delivery, destroy, panic, relay, timer or
\* worker deletes it, whatever fails or dies on the way, and no delivery found it gone: a view
\* is lost, or a decrypted file left behind, only where a fault cut the delivery off. The one
\* exception is a path that a handler took from a draft (finalize_secret, or a menu that
\* deletes the file) while another handler had taken it, or when it was a secret's or deleted
\* already: the draft keeps the path until state.clear (handlers.py:689).
ActiveFilePresent ==
    \A s \in Secret :
        IsActive(rows[s]) /\ home[s] \notin contested
        => /\ rows[s].path = NoPath \/ rows[s].path \in disk
           /\ <<"missing", s>> \notin mishaps
           /\ <<"plaintext", s>> \in mishaps => <<"cut off", s>> \in mishaps

\* The relay in handler p deleted the copy c of entry k, and has not yet deleted the entry.
Dropping(p, k, c) == job[p].op = "relay_del" /\ KeyOf(p) = k /\ job[p].cached = c

\* A relay entry names a copy that exists, whichever of two deliveries to one viewer wrote it
\* last, and whoever relays or fails beside it, but for a relay of the same key that stands
\* between its two deletions (handlers.py:810, 811) or was cut off there.
RelayEntryUsable ==
    \A k \in Key :
        relay[k].kind = "file" /\ relay[k].copy \notin disk
        => \/ \E p \in Session : Dropping(p, k, relay[k].copy)
           \/ <<"undropped", k>> \in mishaps

\* Without any fault, the file of a secret that ended with its last view is gone
\* once its deliveries are over (deliver_secret, line 750).
LastViewRemovesFile ==
    \A s \in Secret :
        (/\ faults = 0 /\ aborts = 0
         /\ rows[s].kind = "file" /\ rows[s].reason = "view_limit"
         /\ \A p \in Session : Delivers(p) => job[p].secret # s)
        => home[s] \notin disk

\* Without any fault, the copies made for relaying are collected: a file on disk is an upload,
\* the one a secret was created with, or an entry, a handler or a timer will see to it. One
\* viewer who opens a secret twice is excepted: the timer of the first copy finds the entry
\* of the second under their common key and spares its own (delete_relay_copy_later, 747).
CopiesCollected ==
    (/\ faults = 0 /\ aborts = 0
     /\ \A s \in Secret : Cardinality(ledger[s].viewers) = ledger[s].opens)
    => \A f \in disk \ uploads :
           \/ \E s \in Secret : home[s] = f
           \/ \E k \in Key : relay[k].copy = f
           \/ \E p \in Session : f \in JobFiles(job[p])
           \/ \E t \in timers : t[2] = f

\* README.md:40 offers 1, 2, 3 or 5 views: with no fault, and unless the secret was ended by
\* hand or by time meanwhile, or its path was contested in the draft, the viewer of every
\* counted view is sent the file.
EveryViewDelivered ==
    \A s \in Secret :
        /\ faults = 0 /\ aborts = 0
        /\ rows[s].reason \in {"none", "view_limit"} /\ home[s] \notin contested
        => <<"missing", s>> \notin mishaps

\* handlers.py:1094 promises that panic destroys the encrypted files: once no handler is at
\* work, a secret ended by hand has left no file behind.
PanicRemovesFiles ==
    \A s \in Secret :
        (/\ faults = 0 /\ aborts = 0
         /\ rows[s].reason = "manual"
         /\ \A p \in Session : tx[p] = Idle /\ job[p] = NoJob)
        => home[s] \notin disk

=============================================================================
