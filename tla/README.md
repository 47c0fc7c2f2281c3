# T-Secret: specification and verification

T-Secret is a Telegram bot for one-time secrets. A user stores a text, password or file,
encrypted, and hands out a link; the secret may be opened a limited number of times, by
whom and when its creator chose, and is then destroyed. This directory models the parts of
the program in which that promise can break, checks them with TLC on small instances, and
proves with TLAPS, for any number of secrets, users, sessions and updates, nearly every safety
property that TLC checks.

Source paths below are relative to the repository.

## 1. The system

Two processes share PostgreSQL, Redis and a directory of encrypted files. The **bot**
(`app/main.py`) runs every Telegram update in an asyncio task of its own: two taps of one
user, or of two users, interleave at every `await`. The **worker** (`app/worker.py`) loops
forever: expire secrets, delete their files, expire requests, notify, sleep.

| Part | State it keeps | Operations | Talks to |
|---|---|---|---|
| Secret store (`services.py` 31-240, `models.py`) | rows of `secrets` | create, consume, destroy one, destroy all, expire | called by handlers and worker, each with a session of its own |
| Secret requests (`services.py` 243-307) | rows of `secret_requests` | create, cancel, fulfil, expire | inserts into the secret store in the same transaction |
| Delivery and relay (`handlers.py` 704-830, 1100-1130; `file_store.py`) | files on disk, `relay:*` keys in Redis, in-process timers | deliver, relay, destroy, panic, clean up | runs after the store has committed |
| Cleanup worker (`worker.py`) | paths between commit and deletion | one cycle | store, requests, files |
| Creation dialogue (`handlers.py` 222-695, `states.py`) | FSM state and draft in Redis, an uploaded file | choose type and protections, upload, finalize, cancel | store, files |
| Opening dialogue (`handlers.py` 120-192, 820-933; `rate_limit.py`, `pin.py`) | attempts, blocks and grants in Redis | link, reveal, PIN, confirm | store, delivery |
| Asking and answering dialogue (`handlers.py` 119-151, 956-1024) | state and `request_id` in Redis | link, ask, answer, leave | requests |
| Access control (`bot/middlewares/security.py`, `users.py`, `admin.py` 357-379) | rows of `users`, `middleware:*` counters | restrict, let a ban lapse, judge, count | every update |
| Emoji settings (`ui_emoji.py`, `admin.py` 462-600) | table, in-process cache, the editor's draft | edit, reset, wizard, reload | keyboards |
| Generator (`generator.py`, `handlers.py` 350-430) | charset choices in the FSM data | toggle, generate | creation dialogue |
| Startup (`wait_for_schema.py`, `main.py`, `healthcheck.py`) | none | poll | database, Redis |
| Cryptography, audit, logging, statistics, keyboards, configuration | none the models need | pure functions, append-only rows, layout | everyone |

### What is hard in it, and what correct means

* **Secret store.** Concurrent sessions decide on the same row. Correct: never more opens
  than allowed; only the people meant; only in the time window; the payload, link, PIN hash
  and recipient are gone once the secret has ended, however it ended; a secret ends once;
  and an overdue one does end.
* **Requests.** Fulfil, cancel and expire race. Correct: one outcome; the use of the request
  and the secret it becomes are published together; only the asker can open the answer.
* **Delivery.** Nothing protects a file between the commit that grants an open and the read
  that follows it; a relay key is shared by all deliveries of one secret to one viewer;
  timers and collected paths live in memory; a draft in Redis keeps the path of a file until
  after its secret is created. Correct: an active secret has its file, a relay entry names a copy
  that exists, files of ended secrets go away, a counted view is delivered.
* **Dialogues.** State is read from Redis before an await and used after it; old menus can
  still be pressed; a draft's file outlives or underlives its draft.
* **PIN and rate limits.** Counters are tested before the slow hash and incremented after it.
* **Asking and answering.** The pages name no request: which one a message answers is a field of
  one draft per user, read after the chat was cleaned. Correct: a message goes where its sender
  means it to go.
* **Access control.** The middleware writes a lapsed ban back from a row it read without a lock, and
  decides after its transaction is over. Correct: orders stand, an update is judged by the orders
  that stood when it came in, nobody is refused without one, and rates hold.
* **Emoji settings.** A table, then a cache, with awaits and failures between them; a wizard whose
  slot and position other buttons also write. Correct: the cache shows the table; the wizard
  leaves nothing out.

The full list, each at the line where it bites and with the property that would catch it, is
`hazards` in `PROJECT.json`.

## 2. The modules

```
Secrets            a row of table "secrets" and its pure functions
  ├─ SecretsProofs                       what each of them does to a row
  ├─ SecretStore   the transactions on it: bot sessions, panic, worker, clock
  │    ├─ (implements) OneTimeSecret     what T-Secret promises of a secret
  │    ├─ SecretStoreProofs
  │    ├─ SecretRequests                 requests, composed with the store
  │    │    └─ SecretRequestsProofs
  │    └─ FileDelivery                   files, drafts, relay, timers, crashes, around the store
  │         └─ FileDeliveryProofs
  └─ OpenFlow      link, reveal, PIN and confirmation, up to an open
       ├─ RateLimiter                    a counter in Redis that expires
       └─ OpenFlowProofs
AccessControl      the middleware and the administrators' orders (uses RateLimiter)
  └─ AccessControlProofs
CreateFlow         the creation dialogue: state, draft and uploaded file
  └─ CreateFlowProofs
EmojiSettings      the emoji editor: table, cache, wizard
AnswerDialogue     asking for a secret and answering
  └─ DialogueProofs                      proofs about both
```

`MCSecretStore`, `MCSecretRequests`, `MCFileDelivery`, `MCOpenFlow`, `MCCreateFlow` and `MCUserState`
give the constants values for TLC (`MCUserState` those of AccessControl, AnswerDialogue
and EmojiSettings). The dialogues are not composed with the store: what
they hand to it is one step of theirs (`InsertSecret`, `Deliver`, `Fulfil`), and what the store makes
of such a step under concurrency is SecretStore's and SecretRequests' subject. Nor are the
dialogues composed with each other, although one user has one state and one draft for all of
them: each module has steps that stand for the others (`other_dialogue_starts`,
`another_dialogue`, `ClearSteps`).

### Secrets, SecretStore

`Secrets` is one row and what the code computes from it: `NewRow` (create_secret),
`IsAvailable`, `MayOpen` (the tests of consume_secret), `Opened` (its assignments),
`Destroyed` (destroy_payload and the value lists of the two bulk UPDATEs). An encrypted value
is three columns in the code and one BOOLEAN here; telegram ids and file names are model
values; time is a natural number.

`SecretStore` has the committed `rows`, one open transaction per bot session (`tx`) and one
for the worker (`worker`). How a transaction is cut into steps follows from READ COMMITTED:

| Code | Actions |
|---|---|
| `create_secret` | `Create`: one INSERT; the clock is read up to any time earlier |
| `consume_secret` | `ConsumeExpired`, `ConsumeDenied`, `ConsumeGranted` when SELECT ... FOR UPDATE has the row; then `Commit` |
| `destroy_owned` | `DestroyOwned`, then `Commit` |
| `destroy_all_owned` | `PanicSelect` (paths), `PanicUpdate` (the rows the UPDATE will visit), `PanicCommit` (after the row locks, WHERE tested again) |
| `expire_secrets` | `ExpireSelect`, `ExpireUpdate`, `ExpireCommit`, the same way |
| a lost connection, a killed process, a deadlock victim | `Abort`, `WorkerAbort`: rolled back |

Between the answer to SELECT FOR UPDATE and the commit the code awaits nothing, so the
decision and its clock reading are one step. `ledger` is a ghost variable: for each secret the
audience and deadline promised at creation, and the opens granted, by whom and when. The
invariants compare it with the row.

### OneTimeSecret

The promise without clock, database or sessions: a secret is *absent*, *live* or *gone*, has
`left` opens and an `audience` that may narrow to the first opener. Refinement mapping:
`left = views_allowed - views_used`; the audience is what was promised, or the first viewer of
a «first» secret once there is one.

### SecretRequests

Adds the rows of `secret_requests`, a transaction per request session, the UPDATE of
expire_requests. `FulfilCommit` publishes the request and, through `SecretStore!Create`, the
new secret in one step, as `create_secret(..., commit=False)` inside fulfill_request does. The
owner then opens that secret through the ordinary steps of the store. `answers` is a ghost.

### FileDelivery

A session is a handler here, with a `job` when no transaction is open: one step per await.

| Code | Actions |
|---|---|
| `receive_file` (312-327), any `update_data` | `Upload` (the encrypted file is saved, the draft read), `DraftRead` of an `"edit"`, then `DraftWrite` (the SET of the whole draft as it was read) |
| `finalize_secret` | `DraftRead`, `Finalize` (the INSERT, with the path as it was read), `DraftClear` (689) |
| `start`, `menu_callback`, `cancel_callback`, `begin_create` | `DraftRead`, `DraftUnlink`, `DraftClear` |
| other dialogues' `state.clear` (884, 889, 906, 911, 969, 1015) | `DraftForget`: the draft goes, its file stays |
| `deliver_secret` after its commit | decrypt (`Start`), clone (`Clone`), HSET (`Cache`), EXPIRE (`Arm`), send (`Sent`, `SendFails`) |
| `relay_secret` | `RelayBegin`, `RelayClone`, `RelayInsert`, `RelayUnlink` (810), `RelayDrop` (the DEL of 811) |
| destroy, panic | `Unlink` deletes the paths they were handed |
| `cleanup_loop` | `FWorker`, then `Sweep` |
| a Redis, disk or database command raises | `HandlerFails`: any handler, at any step |
| a process dies | `BotCrash` forgets jobs, timers and open transactions, `WorkerCrash` the collected paths |

`TimerFires` is delete_relay_copy_later; it sleeps 5 s longer than the entry can live, so it wakes only
when the entry its delivery wrote is gone or was replaced.

Ghosts: `home` (the file each secret was created with), `uploads`, `contested` and `mishaps`. An
upload is contested once a handler reads its path from a draft, to make a secret of the file or to
delete it, while another handler has done so, or when the file is a secret's or deleted already:
the draft keeps the path until line 689, which is the race of `hasty_user` (section 6).
`mishaps` records what a delivery or relay that ended early leaves: that it found its file gone
(`"missing"`), that a fault cut it off after its view was counted (`"cut off"`), that the decrypted
file of line 725 may still be there (`"plaintext"`), that a relay deleted the copy but not the entry
(`"undropped"`). Properties name these exceptions; none is assumed away.

### CreateFlow

One user's dialogue, with its state (`fsm`) and draft (`data`) in Redis and several updates handled
at once. `state.update_data` is a GET and a SET of the whole draft and `state.clear` two writes, so
overlapping handlers overwrite each other. A handler is defined as the sequence of steps it takes,
in the order of its code (`finalize_secret`: `Get`, insert, `Clear`), together with the states its
filter lets through; `Dispatch` starts it, and one action per kind of step executes it (`GetData`,
`FetchData`, `PutData`, `SetState`, `WipeData`, `UnlinkFile`, ...). Most callback handlers filter on
the button alone, so any old menu can be pressed in any state. The draft is reduced to what properties
tell apart: content type, kind of payload, file, whether TTL and views are set, recipient, the
generator's alphabet. Handlers that write other fields (PIN, timer, notifications) still read
and write the whole draft. `HandlerFails` ends a handler anywhere, `Crash` all of them and begins
a new `life` of the process: the downloads in `plaintext` carry the life they were made in, and those
of an earlier one stay, since nothing removes them. The ghost
`calm` is true while no two updates overlapped and nothing failed.

### OpenFlow, RateLimiter

The way from a link to an open: `Start`, `PressReveal`, `EnterPin`, `PressConfirm` begin a handler,
whose steps are the Redis commands and database reads of `start`, `reveal`, `receive_open_pin` and
`confirm_identity`. Steps that only read what nothing else in between can tell apart are joined:
`Show` is the token's counter and the row, `Verify` the row and the argon2 check. The secret a PIN is
for (`target`) is one field per user; attempts, grants and buttons are per secret and user. A PIN is the
name of the secret it belongs to. `RateLimiter` is the script of `hit` and the comparison after it.
Without a clock, a key with a TTL may expire at any moment. Ghosts: `guesses` (PINs tried since the
counter last began at 0), `history` (who entered which PIN, who confirmed), `opened`.

### AccessControl

An update in the middleware (`call`) is touched (`Touch`: touch_user inserts or reads the row and
commits), judged on that row (`Judge`: restriction_message), perhaps writes a lapsed ban back
(`Lapse`: SQLAlchemy writes the two columns that changed, whatever the row holds by then), and
is counted (`HitRate`). `admin_restrict` locks the row until its commit, so it is one step with
a disjunct per button. The classes of update are the constant `Kind`; the four flag columns are
one set. Ghosts: `standing` is what the orders so far amount to, each update carries the one it came in
under (`order`) and the time it was judged at; `served` counts what was handled within a
window of a counter.

### AnswerDialogue

`request_submit_start` (look at the request, set the state, GET and SET of the draft, page),
`request_submit_value` (read the draft, fulfil, clear, page), `request_create_start`,
`request_prompt_value`, the page of a link, and the buttons that take the dialogue away. Ghosts:
`meant` is what the user takes the next message for, which is what the last page said, and `"unsure"`
from a tap until its page or when two updates overlapped; `received` is what became of each message.

### EmojiSettings

A handler of the editor is a task (`work`) with one step per command: `GetData`, `Load`
(session.get), `Commit`, `SetCustomId`, `UpdateData`, `ClearState`, `ClearData`. `Written` and
`Refused` are SQLAlchemy's unit of work: the columns that differ from what was read, an IntegrityError
for a second INSERT, a StaleDataError for an UPDATE of a row deleted since. `Restart` loads the
cache from the table (load_ui_emojis). Ghosts: `settled` (slots whose last write ran with no other on the same
slot beside it), `calm` (administrators whose wizard ran undisturbed), `passed`.

External behaviour modelled from its use: PostgreSQL's locks and READ COMMITTED, Redis
(single commands and scripts are atomic, HSET keeps a TTL, EXPIRE on a missing key does
nothing), aiogram (a task per update, filters on the state read when it arrives, update_data and
clear as two commands each), the
file system (a random name is fresh), Telegram (a send may raise).

## 3. The runs

| Run | Shows | Bounds, and why they are enough |
|---|---|---|
| `store_protection` | type invariant, counting, audience, time window, wiping, decisions on current rows, single ending, refinement of OneTimeSecret | 1 secret, 2 users, 2 bot sessions and the worker, clock 0..3, 1 lost transaction. Row decisions are per row; two sessions give every race of two openers, opener and destroyer, opener and panic. Four drafts: «first» with two views and a timer, «specific» with PIN, no TTL with a timer, a two-view file that opens late. Three ticks reach before and after availability, timer and TTL |
| `store_expiry` | overdue secrets end (liveness), no symmetry | 2 secrets, so that a bulk UPDATE waits for one row while another is free; 1 session that may lock them again and again; clock 0..2 |
| `requests` | one outcome per request, answers reach the owner, deadlines, wiping, single closing | 1 request, 2 request sessions, 2 users, 2 secrets (two racing answers each get a row of their own), 1 store session, clock 0..2 with RequestTTL 1 and AnswerTTL 2, so answers also expire |
| `file_races` | a secret that can be opened keeps its file, from the draft to the last view; the copies of deliveries are collected, the last view removes the file; types | 2 users and 2 handlers, 1 upload that becomes 1 secret or is dropped (drafts: a two-view file, a text made of a draft that kept a file), 3 file names (the upload and the copies of two deliveries), the worker, 1 tick with TTL 1 (the secret expires, handlers and worker find it), 1 fault anywhere (crash of either process, failed send or command) |
| `file_relays` | the same across relays; relay entries name a copy that is there, but for one command | 2 secrets, so that a file is relayed into a new secret; 1 user with 2 handlers, who also abandons drafts (`DraftForget`), 3 file names, no clock, 1 fault anywhere |
| `create_patient` | with one update at a time, no order of old and new buttons costs a secret its file, gives its file a second owner, or empties the generator's alphabet; types | 1 update at a time, every handler but two pairs that only repeat others (`Twins`), 1 secret and 2 files (a file can be replaced, and a second draft can follow a secret), 2 of the 4 alphabets, no faults |
| `create_overlap` | a bound secret names its recipient; an upload that fails leaves no plaintext (one cut off by the end of the process does) | 2 updates at a time, the handlers that lead from a file to a secret bound to bob or to nobody, and `Twins`, which rewrite the draft meanwhile, 1 secret, 1 file, 1 fault |
| `open_flow` | PIN and confirmation before an open, a bound on PIN attempts; types, with them that no counter is without a TTL | 1 user (the state that overlaps is per user), 2 secrets with every combination of PIN and confirmation, 2 updates at a time, 5 updates in all, 1 event (crash, expired key or ended secret), limits of 1 PIN attempt, 1 hit per token, 3 hits per user, so that each limit is reached |
| `user_state` | orders stand, verdicts follow them, rates hold; the emoji cache shows the table, the wizard leaves nothing out; messages go where they are meant to; types | access: one user and one administrator, who is never refused, 2 updates at a time (one lapses a ban while another is judged), 2 orders (a ban after a temporary ban, a flag set and taken back), clock 0..2 and BanTime 1 (a ban begins, is in force, is over), limit 2, 3 hits a window; emojis: 2 administrators, 2 slots (a wizard has a first and a last), 2 emojis, 2 handlers, 4 taps, 1 mishap; answers: one user (state and draft are per user), 2 requests, 2 updates, 6 inputs (two links, two taps on «answer», an abandoned dialogue, a message), 1 failure |
| `hasty_user`, `lost_view`, `panic_files` | the findings of section 6 | the smallest instance that has the case |

The three parts of `user_state` share no variable, so checking them in one run costs the sum
of their states: the variable `part` of `MCUserState` says whose behaviour it is, and the others
stay at their initial states.

Deadlock is checked in every run but `open_flow` and `user_state`: the worker can always start
another cycle, and a button can always be pressed. Those two stop when their updates, taps and orders
are used up. Symmetry is used
over sets no definition and no draft tells apart, never in the run with liveness; the
properties of the other runs are invariants, action properties and refinements without
fairness.

Bounds that are not the code's: `MaxTime` (clock), `MaxAborts` (lost transactions), `MaxFaults`
(crashes, failed sends and failed handlers), `MaxUploads` (FileDelivery), `MaxUpdates` and `MaxEvents`
(OpenFlow), `Pressed` (the handlers an instance reaches, in CreateFlow; what users do with a draft, in
FileDelivery: `file_races` creates and drops, `file_relays` creates and abandons; an `update_data` that
overtakes another one is reached in the runs of the findings, and the theorems cover it), `MaxClock`, `MaxHits` and `MaxOrders` (AccessControl),
`MaxTaps` and `MaxMishaps` (EmojiSettings), `MaxInputs` and `MaxFailures` (AnswerDialogue), and the
finite sets. The numbers appear only as guards
of `Tick`, `Abort`, `WorkerAbort`, `Upload`, `SendFails`, `BotCrash`, `WorkerCrash`, `HandlerFails`, `Crash`,
`Accept` and `Event`, and in the newer modules `Later`, `Touch`, `Order`, `Arrives`, `admin_emoji_reset`,
`HandlerFails`, `Restart`, `Incoming` and `Failed`.

`AttemptsBounded` is what the code gives, not `pin_max_attempts` itself: the counter is read before
the slow hash and incremented after it, so every further update in flight may add one attempt, and
a crash may forget those in flight. The bound is tight: with one less the run has a counterexample.

### Fairness

`OverdueIsEnded` is the only liveness property. `FairSpec` assumes

* weak fairness of `ExpireSelect` and `ExpireUpdate`: the worker loops forever and is restarted
  when it dies (`docker-compose.yml`, `restart: unless-stopped`);
* weak fairness of `Commit(p)` for each session: a session that decided awaits only its commit;
* strong fairness of `ExpireCommit`. Its UPDATE waits for row locks, and viewers of an overdue
  but not yet expired row, or of one already gone, may lock the row again and again, so the
  commit is enabled infinitely often but not continuously. PostgreSQL queues waiters of a row
  lock, so it is not overtaken for ever. With weak fairness the property fails, as it should.

## 4. What is proved

Each theorem below is proved for every value of the constants that satisfies the assumptions: any
set of users, secrets, requests, sessions, handlers and file names, any limits and any bounds. Where
a table names a property, it is one that TLC checks in a run of section 3. Every proof has the same
shape: an inductive invariant, found by asking what the property relies on between two awaits,
checked by TLC on the instances of section 3 before it was proved; a lemma for the initial states; a
lemma per action; the theorem, with PTL; and each property from the invariant.

### Assumptions

| Assumption | What it says, and why the code gives it |
|---|---|
| `NullAssumption`, `BoundAssumption`, `FaultAssumption` | NULL is not a user, path or time; bounds are naturals; RelayTTL is positive (`handlers.py` 787-830) |
| `DraftAssumption`, `OpenDraftAssumption` | a draft that reaches create_secret has a positive number of views, and a recipient if its mode is «specific». `CreateFlowProofs` proves the second half of it of the dialogue |
| `RequestAssumption`, `AnswerDraftAssumption` | both TTLs are positive; the draft fulfill_request builds for an owner is among the drafts of the store |
| `OpenAssumption` | as above; `Task` is finite: the bot runs finitely many updates at once, and attempts in flight are counted |
| `AccessAssumption`, `EmojiAssumption`, `AnswerAssumption`, `FlowAssumption` | rate limits and the length of a ban are positive, the catalog is a nonempty sequence of slots, NULL is not a value, and marks such as `"unsure"` are not requests |

TLC evaluates each of them in a passing run.

### SecretStoreProofs

| Theorem | Property |
|---|---|
| `InductiveInvariant` | `Spec => []IInv` |
| `TypeCorrect`, `NeverOverOpened`, `OnlyEntitledOpeners` | `TypeOK`, `OpensWithinAllowance`, `OpenersEntitled` |
| `OpensOnlyInTime`, `EndedMeansWiped`, `NoLostUpdate` | `OpensInTime`, `InactiveWiped`, `DecidedOnCurrentRow` |
| `FinishedStaysFinished` | `EndsOnce` (an action property) |
| `StoreImplementsOneTimeSecret` | `Spec => Abstract!OSpec` |

None of the invariants is inductive alone: `OpensWithinAllowance` says nothing about a
transaction that has decided and not yet committed. `IInv` adds

* `DecidedOnCurrentRow`: at most one transaction holds a row, and what it will write is
  `FairDecision` of the row *as it is committed now*. It survives every other step because those
  that write rows either write a row the session itself holds (`Commit`), insert one nobody
  can hold (`Create`), or wait for the locks (`PanicCommit`, `ExpireCommit`);
* `RowAgrees` for each secret: row and ledger tell the same story (`LedgerAgrees`,
  `AudienceAgrees`, `WindowAgrees`, and wiped if not active). One lemma per way a row changes
  (created, opened, destroyed) shows that it is kept. `SecretsProofs` has what `NewRow`, `Opened` and
  `Destroyed` do to each column.

The refinement proof reuses `IInv`: `Create` maps to `OCreate`, a `Commit` that carries a viewer
to `OOpen`, other endings to `OEnd` of the set of rows that changed, the rest to stuttering.

### SecretRequestsProofs

| Theorem | Property |
|---|---|
| `RequestInvariant` | `RSpec => []RInv` |
| `RequestTypesCorrect`, `AnsweredAtMostOnce` | `RTypeOK`, `OneAnswerPerRequest` |
| `AnswersOnlyToOwner`, `AnswersNeverLate` | `AnswersReachTheOwner`, `AnsweredInTime` |
| `ClosedMeansWiped`, `RequestsCloseOnce` | `ClosedRequestWiped`, `RequestClosesOnce` (an action property) |
| `AnswersNeverOverOpened` | two theorems of the store, which hold of answers too: by its construction the module changes `rows` by steps of the store only (`StoreIsPartOf`) |

`RInv` contains the store's `IInv`. It adds that a transaction that holds a request decided on the
request *as it still is* (`DecidedOnCurrentRequest`), that a request agrees with what became of it
(`RequestAgrees`: exactly one secret if it is fulfilled, none otherwise), and that an answer keeps the
promise it was created with (`AnswerKept`: bound to the owner, one view), without which nothing
could be said of its opens.

### FileDeliveryProofs

| Theorem | Property |
|---|---|
| `DeliveryInvariant` | `FSpec => []FInv` |
| `DeliveryTypesCorrect` | `FTypeOK` |
| `OpenSecretsKeepFiles`, `RelayEntriesUsable` | `ActiveFilePresent`, `RelayEntryUsable` |
| `LastViewCleansUp` | `LastViewRemovesFile` |
| `CopiesAreCollected` | `CopiesCollected` |
| `DeliveryImplementsOneTimeSecret` | `FSpec => Abstract!OSpec` |

`ActiveFilePresent` fails one step before a deletion it does not see coming, so `FInv` says who may
delete what. A file name has one role at a time (`OneRole`): an upload, which unless it is contested
is the file of one secret or in the hands of one handler that took it from a draft; the copy of one
secret and viewer; or the file of a relayed secret before its INSERT. What a handler took from a
draft is on disk as long as it is not contested (`DraftFits`), so a secret begins with its file. Whoever
holds the file of a secret for deletion, a handler after its commit, a transaction before it, the
worker's sweep, or the delivery of the last view, knows that the secret has ended, or will with
that commit (`UnlinkFits`, `TxFits`, `WorkerFits`, `SweepFits`, `DeliverFits`). Whoever deletes a
copy drops the entry of its key next (`Dropping`), left a record that it was cut off there, or found
the entry gone (`EntryFits`); a delivery that has not written its entry yet holds a copy nobody else
knows (`CopyIsNew`). `MishapsFit` and `HomeFits` account for the views that were lost. Nothing in `FInv`
assumes a handler, transaction or process to survive. `BotCrash` and `WorkerCrash` are not steps of `SecretStore`, so
`IInv` and the refinement are proved again beside them: transactions that roll back leave
rows and ledger alone.

`CopiesCollected` has an invariant of its own on top, `CopyInv`. Its condition, as many viewers as
opens, is not the state's to choose: viewers are never more than opens (`ViewersCounted`), so a step
that ends with as many began with as many, and the viewer it let in was new. Then a relay key was
untouched before its delivery began, and entry, timer, delivery and relays of the key hold one copy
and follow in this order (`KeyFits`): an entry that expires leaves its copy to the delivery or the
timer, a timer that fires finds no entry and deletes, a relay that drops the entry has deleted the
copy the entry named, and that name does not come back (`OwnFile`). With two deliveries to one key the timer's test fails to tell them apart, which is
the exception the property makes.

### OpenFlowProofs

| Theorem | Property |
|---|---|
| `OpenInvariant` | `Spec => []OInv` |
| `OpenTypesCorrect` | `TypeOK` |
| `PinAlwaysBeforeOpen`, `ConfirmationAlwaysBeforeOpen` | `PinBeforeOpen`, `ConfirmationBeforeOpen` |
| `AttemptsStayBounded` | `AttemptsBounded` |

`OInv` says what an update has behind it at each step it may be at (`Fits`): at the steps after a
PIN was verified, that user entered the PIN of that secret; at those that open, the PIN and the
confirmation as far as the secret asks for them. `AttemptsBounded` needs a count: PINs tried are
recorded in the counter, about to be recorded (`Untold`) or lost in a crash (`Slack`), and those
that were admitted but not compared yet (`Verifying`) leave room for themselves (`TriesBounded`).

### AccessControlProofs

| Theorem | Property |
|---|---|
| `AccessInvariant` | `AccessSpec => []AInv` |
| `AccessTypesCorrect`, `OrdersPrevail` | `AccessTypeOK`, `OrdersStand` |
| `NothingHandledAgainstOrders`, `NobodyDeniedWithoutCause` | `HandledAsOrdered`, `DeniedForCause` |
| `RatesHold` | `RateHonoured` |

`AInv` says at each phase what an update in the middleware knows (`CallFits`): the row it has read
fits the orders it came in under, though not those that stand by now; and that the ban it may still
write back as over is the one it read, is over, is gone, or was ordered meanwhile (`LapseFits`).

### DialogueProofs

| Theorem | Property |
|---|---|
| `EditorInvariant`, `DialogueInvariant` | `[]EInv` of EmojiSettings, `[]DialogueInv` of AnswerDialogue |
| `EditorTypesCorrect`, `DialogueTypesCorrect` | `EmojiTypeOK`, `AnswerTypeOK` |
| `ScreensShowTheTable`, `WizardLeavesNothingOut` | `CacheMatchesTable`, `WizardMissesNothing` |
| `MessagesGoWhereMeant` | `AnswersWhereMeant` |

The three properties look at quiet moments; the invariants say what is the case in the middle. A write
that is alone on its slot has read what the table still holds (`ReadIsCurrent`), and what it
committed is still there when it reaches the cache (`CommitStands`). The draft that a wizard's handler
goes on from is the one it has read, one slot further (`NextIsNext`, `WriteIsHere`). In AnswerDialogue
a handler that is alone has brought state and request_id as far as its place says (`InPlace`), and
once no handler is at work they are what the sender's last page announced (`MeantStands`).

### CreateFlowProofs

| Theorem | Property |
|---|---|
| `FlowInvariant` | `Spec => []FlowInv` |
| `FlowTypesCorrect` | `FlowTypeOK` |
| `BoundSecretsNameRecipient` | `RecipientFitsMode` |
| `UploadsLeaveNoPlaintext` | `UploadPlaintextRemoved` |
| `PatientUsersKeepFiles`, `PatientAlphabetNotEmpty` | `CalmSecretsKeepFiles`, `CalmAlphabetNotEmpty` |

The proof is for all handlers, pressed in any order. `HandlersGood` shows once of every handler
what its sequence of steps is like: a SET follows its GET, a step that uses the copy of the draft
follows the read (`Ordered`), nothing but `SaveFile` and `ToggleOption` writes a patch that brings a
file or switches a character set off (`Plain`). `FlowInv` says that every task is at a rest of such a
sequence and that mode and recipient are paired in Redis and in every copy and patch, which is why
overlapping updates cannot part them. For a calm user (`CalmInv`) it adds that the copy a
step is about to use equals the draft, that a patch which is not plain does no harm to the draft it is
about to be merged with (`Awaited`), and that the draft's file is nobody's but the draft's unless the
draft is about to be wiped (`DraftFile`, `WipeAhead`): the state between INSERT and clear.

### Only model-checked

* `OverdueIsEnded` (`store_expiry`): liveness under fairness is beyond the prover.
* The three properties of section 6, which do not hold.


## 5. What is not modelled, and why

* Text helpers (`text.py`: a duration and a date as words) and startup (`wait_for_schema.py`,
  `healthcheck.py`: polling loops without state of their own, a test after each pause).
* Cryptography (library calls; the models take an encrypted value as present
  or NULL), audit rows (nothing reads them back in the modelled code), log redaction (regular
  expressions), statistics pages (read-only), keyboards (layout; *which* stale buttons can be
  pressed belongs to the dialogues), configuration.
* Abstracted inside modelled parts: public codes and token hashes (random, unique), notification
  switches and messages, file size and type, statement-level failures other than a rollback.
* CreateFlow: the values of PIN, timer, confirmation and notification fields;
  `protection_preset`, which no keyboard offers; messages a handler answers with a complaint
  and no change of state. OpenFlow: group chats (a link to the private chat),
  notices to the creator.
* AccessControl: `last_seen_at` and `restriction_reason`, which decide nothing; the classification of
  an update by its type and text is the constant `Kind`. Only the first update of a dialogue is
  classified as «create» or «request», so a restriction ordered in the middle of one does not end it;
  the model says so by judging each update by its kind.
* EmojiSettings: how a text or button is rendered with the cache, and UiBot's second attempt
  without custom emojis (`ui_emoji.py` 88-147), which substitute text; pages of the catalogue; messages
  that are not one custom emoji.
* AnswerDialogue: texts that are too long, the notice to the owner, other dialogues' states.
* FileDelivery: of a draft everything but the path of its file (CreateFlow has the dialogue), and
  of an upload the download and its failures (CreateFlow has them too).
* The TTL of a relay entry is a step that may happen at any moment after EXPIRE, not a clock.

## 6. Where code and documentation disagree

Each is a run that TLC ends with a counterexample.

1. `hasty_user`. `finalize_secret` inserts the secret (`handlers.py:687`) and clears the draft after
   it (689). A menu, cancel or /start button handled in between still finds the file in the draft
   and deletes it (119-122, 222-234): the secret is active, its file is gone, although
   `handlers.py:207` promises that it opens the given number of times.
2. `lost_view`. Of two viewers of a two-view file, the later may finish sending and delete the
   file (750) before the earlier, whose view is counted, has read it (725). If it has read the file
   but not yet cloned it (727), the decrypted temporary file also stays behind: the `try` that
   unlinks it begins at 735, although `handlers.py:1151` says that only ciphertext lies on disk.
3. `panic_files`. `destroy_all_owned` reads the file paths (189) and wipes them (197) in two
   statements; a file secret committed in between is wiped and its file stays on disk, although
   `handlers.py:1094` says that files are destroyed.

Noticed while modelling, without a run of its own: `README.md:44` offers a forced-destruction timer
«независимо от факта прочтения», whether or not the secret is read, but `services.py:158` starts it
at the first open, so an unread secret with no TTL never ends; `README.md:41` speaks of PINs of
4-6 characters, `pin.py:18-19` takes exactly six digits.

Races the properties except, each in words beside the property: the file of a draft that two handlers
took at once (`ActiveFilePresent`, the case of `hasty_user`); the relay entry whose copy was deleted
one command before it, or up to 300 s when that command fails (`handlers.py:810`,
`RelayEntryUsable`); a ban ordered while an update that read
an older, lapsing temporary ban is in the middleware is overwritten as ACTIVE (`security.py:28`,
`OrdersStand`); two writes at once to one slot may leave the emoji cache different from the table until
the next write or restart (`admin.py:557`, `CacheMatchesTable`); the emoji sent for a single slot chosen
beside a running wizard advances the wizard (`admin.py:564`, `WizardMissesNothing`); and an answer whose
sender taps another request while the bot is still deleting the message goes to that other request
(`handlers.py:1009`, `AnswersWhereMeant`), although its page said that the secret would be available
to the first (`handlers.py:145`).

## 7. Plan

Done: every module of section 2, its runs, and the theorems of section 4.

Every safety invariant that a run checks and the code satisfies is now proved too. Left to
extend: the handlers listed under section 5 that keep state worth a model, each with its invariant added
to the proof module of its component.
