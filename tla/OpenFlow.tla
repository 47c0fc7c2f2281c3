------------------------------- MODULE OpenFlow -------------------------------
(***************************************************************************)
(* From a link to an open: the handlers start, reveal, receive_open_pin    *)
(* and confirm_identity of app/handlers.py, one step per Redis command or  *)
(* database read, for updates handled at the same time. The PIN state of   *)
(* the dialogue is per user, so a user who opens two secrets overwrites    *)
(* it; counters and grants are per secret and user.                        *)
(*                                                                         *)
(* consume_secret is one step here: SecretStore shows that its row lock    *)
(* makes it one. Delivery after it is FileDelivery's. There is no clock:   *)
(* a key with a TTL may expire and a secret may end at any moment.         *)
(***************************************************************************)
EXTENDS Secrets, RateLimiter, Sequences

CONSTANTS
    Secret,     \* secrets whose links are out
    Task,       \* updates handled at the same time
    Drafts,     \* how the secrets were protected
    NoSecret,
    OpenLimit,  \* settings.open_rate_limit
    TokenLimit, \* settings.token_rate_limit
    PinMax,     \* settings.pin_max_attempts
    MaxUpdates, \* bound of the updates that arrive
    MaxEvents   \* bound of the crashes, the keys that expire and the secrets that end

ASSUME OpenDraftAssumption == \A d \in Drafts : ValidDraft(d)
ASSUME OpenAssumption ==
    /\ NoSecret \notin Secret
    /\ IsFiniteSet(Task)
    /\ OpenLimit \in Nat /\ TokenLimit \in Nat /\ PinMax \in Nat \ {0}
    /\ MaxUpdates \in Nat /\ MaxEvents \in Nat

VARIABLES
    rows,       \* the secrets
    confirm,    \* those with require_identity_confirmation
    userHits,   \* open_user:{user}
    tokenHits,  \* open_token:{digest}
    pinHits,    \* secret_pin_attempt:{secret}:{user}
    grants,     \* pin_grant:{secret}:{user}
    fsm,        \* whose next message is taken for a PIN
    target,     \* open_secret_id in the dialogue's data
    task,       \* what each update still has to do
    shown,      \* «open» buttons that were sent, by secret and user
    asked,      \* «confirm» buttons that were sent
    faults,     \* how many crashes there were among the events
    updates,    \* how many updates arrived
    events,     \* how many crashes, expired keys and ended secrets there were
    guesses,    \* ghost: PINs tried since the counter last began at 0
    opened,     \* ghost: the opens, with what the viewer had done before
    history     \* ghost: who entered a secret's PIN, who confirmed

vars == <<rows, confirm, userHits, tokenHits, pinHits, grants, fsm, target, task, shown,
          asked, faults, updates, events, guesses, opened, history>>

secrets == <<rows, confirm>>
counters == <<userHits, tokenHits, pinHits>>
dialogue == <<fsm, target>>
buttons == <<shown, asked>>
bounds == <<faults, updates, events>>
ghosts == <<guesses, opened, history>>

Key == Secret \X User

Free == [todo |-> <<>>, user |-> NoUser, secret |-> NoSecret, guess |-> NoSecret, ok |-> TRUE]

TypeOK ==
    /\ rows \in [Secret -> Row]
    /\ confirm \subseteq Secret
    /\ userHits \in [User -> Counter]
    /\ tokenHits \in [Secret -> Counter]
    /\ pinHits \in [Key -> Counter]
    /\ grants \subseteq Key /\ shown \subseteq Key /\ asked \subseteq Key
    /\ fsm \subseteq User
    /\ target \in [User -> Secret \cup {NoSecret}]
    /\ \A k \in Task : task[k].user \in User \cup {NoUser}
                       /\ task[k].secret \in Secret \cup {NoSecret}
    /\ faults \in Nat /\ updates \in Nat /\ events \in Nat
    /\ guesses \in [Key -> Nat]
    /\ opened \subseteq [key: Key, pin: BOOLEAN, proved: BOOLEAN, confirmed: BOOLEAN]
    /\ history \in [proved: SUBSET Key, confirmed: SUBSET Key]

Init ==
    /\ \E d \in [Secret -> Drafts], creator \in User :
           rows = [s \in Secret |-> NewRow(creator, d[s], NoPath, 0)]
    /\ confirm \in SUBSET Secret
    /\ userHits = [u \in User |-> NoHits]
    /\ tokenHits = [s \in Secret |-> NoHits]
    /\ pinHits = [k \in Key |-> NoHits]
    /\ grants = {} /\ shown = {} /\ asked = {} /\ fsm = {}
    /\ target = [u \in User |-> NoSecret]
    /\ task = [k \in Task |-> Free]
    /\ faults = 0 /\ updates = 0 /\ events = 0
    /\ guesses = [k \in Key |-> 0]
    /\ opened = {}
    /\ history = [proved |-> {}, confirmed |-> {}]

-----------------------------------------------------------------------------
(* Updates and their steps *)

AtStep(k, op) == task[k] # Free /\ Head(task[k].todo) = op

KeyOf(k) == <<task[k].secret, task[k].user>>

Resume(k, t, todo) ==
    task' = [task EXCEPT ![k] = IF todo = <<>> THEN Free ELSE [t EXCEPT !.todo = todo]]

Continue(k) == Resume(k, task[k], Tail(task[k].todo))
Goto(k, todo) == Resume(k, task[k], todo)
Return(k) == Goto(k, <<>>)

ClearSteps == <<"clear_state", "clear_data">>

\* What is left to do after the right PIN.
ProvedSteps(last) == <<"forgive", "clear_state", "clear_data", last>>

Accept(k, t, todo) ==
    /\ task[k] = Free /\ updates < MaxUpdates
    /\ updates' = updates + 1
    /\ task' = [task EXCEPT ![k] = [t EXCEPT !.todo = todo]]
    /\ UNCHANGED <<secrets, counters, grants, dialogue, buttons, faults, events, guesses, opened>>

\* /start s_{token}
Start(k, u, s) ==
    /\ Accept(k, [Free EXCEPT !.user = u, !.secret = s],
              <<"clear_state", "clear_data", "hit_user", "show">>)
    /\ UNCHANGED history

PressReveal(k, u, s) ==
    /\ <<s, u>> \in shown
    /\ Accept(k, [Free EXCEPT !.user = u, !.secret = s], <<"hit_user", "look">>)
    /\ UNCHANGED history

\* A message in state entering_pin: the PIN of some secret, a wrong one for the others.
EnterPin(k, u, guess) ==
    /\ u \in fsm
    /\ Accept(k, [Free EXCEPT !.user = u, !.guess = guess],
              <<"which", "status_pin", "verify">>)
    /\ UNCHANGED history

PressConfirm(k, u, s) ==
    /\ <<s, u>> \in asked
    /\ Accept(k, [Free EXCEPT !.user = u, !.secret = s], <<"look_confirm">>)
    /\ history' = [history EXCEPT !.confirmed = @ \cup {<<s, u>>}]

-----------------------------------------------------------------------------
(* Steps of several handlers *)

ClearState(k) ==
    /\ AtStep(k, "clear_state")
    /\ fsm' = fsm \ {task[k].user}
    /\ Continue(k)
    /\ UNCHANGED <<secrets, counters, grants, target, buttons, bounds, ghosts>>

ClearData(k) ==
    /\ AtStep(k, "clear_data")
    /\ target' = [target EXCEPT ![task[k].user] = NoSecret]
    /\ Continue(k)
    /\ UNCHANGED <<secrets, counters, grants, fsm, buttons, bounds, ghosts>>

\* Counters beyond limit + 1 are not told apart.
Saturated(c, limit) == IF c.count > limit + 1 THEN [c EXCEPT !.count = limit + 1] ELSE c

HitUser(k) ==
    LET u == task[k].user
        hit == Saturated(Hit(userHits[u]), OpenLimit)
    IN  /\ AtStep(k, "hit_user")
        /\ userHits' = [userHits EXCEPT ![u] = hit]
        /\ Resume(k, [task[k] EXCEPT !.ok = Allowed(hit, OpenLimit)], Tail(task[k].todo))
        /\ UNCHANGED <<secrets, tokenHits, pinHits, grants, dialogue, buttons, bounds, ghosts>>

\* start and reveal test the same before they go on; consume_secret will test it again.
MayTry(k) == task[k].ok /\ MayOpen(rows[task[k].secret], task[k].user, 0)

\* The second hit of start and, for an open secret, the button.
Show(k) ==
    LET s == task[k].secret
        hit == Saturated(Hit(tokenHits[s]), TokenLimit)
    IN  /\ AtStep(k, "show")
        /\ tokenHits' = [tokenHits EXCEPT ![s] = hit]
        /\ shown' = IF Allowed(hit, TokenLimit) /\ MayTry(k) THEN shown \cup {KeyOf(k)} ELSE shown
        /\ Return(k)
        /\ UNCHANGED <<secrets, userHits, pinHits, grants, dialogue, asked, bounds, ghosts>>

\* request_confirmation sends the button; nothing of it is stored.
Ask(k) == asked' = asked \cup {KeyOf(k)}

\* A mutant of Deliver: the open is booked on the secret the dialogue holds now.
DeliverTarget(k) ==
    LET u == task[k].user
        s == IF target[u] = NoSecret THEN task[k].secret ELSE target[u]
    IN  /\ AtStep(k, "deliver")
        /\ IF MayOpen(rows[s], u, 0)
           THEN /\ rows' = [rows EXCEPT ![s] = Opened(rows[s], u, 0)]
                /\ opened' = opened \cup
                       {[key |-> <<s, u>>, pin |-> rows[s].pin,
                         proved |-> <<s, u>> \in history.proved,
                         confirmed |-> s \notin confirm \/ <<s, u>> \in history.confirmed]}
           ELSE UNCHANGED <<rows, opened>>
        /\ Return(k)
        /\ UNCHANGED <<confirm, counters, grants, dialogue, buttons, bounds, guesses, history>>

\* deliver_secret: consume_secret decides.
Deliver(k) ==
    LET s == task[k].secret
        u == task[k].user
    IN  /\ AtStep(k, "deliver")
        /\ IF MayOpen(rows[s], u, 0)
           THEN /\ rows' = [rows EXCEPT ![s] = Opened(rows[s], u, 0)]
                /\ opened' = opened \cup
                       {[key |-> <<s, u>>, pin |-> rows[s].pin,
                         proved |-> <<s, u>> \in history.proved,
                         confirmed |-> s \notin confirm \/ <<s, u>> \in history.confirmed]}
           ELSE UNCHANGED <<rows, opened>>
        /\ Return(k)
        /\ UNCHANGED <<confirm, counters, grants, dialogue, buttons, bounds, guesses, history>>

-----------------------------------------------------------------------------
(* reveal *)

Look(k) ==
    LET s == task[k].secret
    IN  /\ AtStep(k, "look")
        /\ IF ~MayTry(k) THEN Return(k) /\ UNCHANGED asked
           ELSE IF rows[s].pin
           THEN Goto(k, <<"status_reveal", "ask_state", "ask_data">>) /\ UNCHANGED asked
           ELSE IF s \in confirm THEN Return(k) /\ Ask(k)
           ELSE Goto(k, <<"deliver">>) /\ UNCHANGED asked
        /\ UNCHANGED <<secrets, counters, grants, dialogue, shown, bounds, ghosts>>

LockedOut(k) == pinHits[KeyOf(k)].count >= PinMax

StatusReveal(k) ==
    /\ AtStep(k, "status_reveal")
    /\ IF LockedOut(k) THEN Return(k) ELSE Continue(k)
    /\ UNCHANGED <<secrets, counters, grants, dialogue, buttons, bounds, ghosts>>

AskState(k) ==
    /\ AtStep(k, "ask_state")
    /\ fsm' = fsm \cup {task[k].user}
    /\ Continue(k)
    /\ UNCHANGED <<secrets, counters, grants, target, buttons, bounds, ghosts>>

\* update_data reads the whole draft and writes it back with open_secret_id. Nothing else of a
\* draft is kept here, and this field is written whatever was read: the SET alone is the step.
AskData(k) ==
    /\ AtStep(k, "ask_data")
    /\ target' = [target EXCEPT ![task[k].user] = task[k].secret]
    /\ Continue(k)
    /\ UNCHANGED <<secrets, counters, grants, fsm, buttons, bounds, ghosts>>

-----------------------------------------------------------------------------
(* receive_open_pin *)

\* data["open_secret_id"]; a KeyError when the data was cleared meanwhile.
Which(k) ==
    LET s == target[task[k].user]
    IN  /\ AtStep(k, "which")
        /\ IF s = NoSecret THEN Return(k)
           ELSE Resume(k, [task[k] EXCEPT !.secret = s], Tail(task[k].todo))
        /\ UNCHANGED <<secrets, counters, grants, dialogue, buttons, bounds, ghosts>>

StatusPin(k) ==
    /\ AtStep(k, "status_pin")
    /\ IF LockedOut(k) THEN Goto(k, ClearSteps) ELSE Continue(k)
    /\ UNCHANGED <<secrets, counters, grants, dialogue, buttons, bounds, ghosts>>

PinStillAsked(s) == IsAvailable(rows[s], 0) /\ rows[s].pin

\* A mutant of Verify: the right PIN opens at once, confirmation or not.
VerifyDelivers(k) ==
    LET s == task[k].secret
        right == task[k].guess = s
    IN  /\ AtStep(k, "verify")
        /\ IF ~PinStillAsked(s) THEN Goto(k, ClearSteps) /\ UNCHANGED <<guesses, history>>
           ELSE /\ guesses' = [guesses EXCEPT ![KeyOf(k)] = @ + 1]
                /\ history' = IF right THEN [history EXCEPT !.proved = @ \cup {KeyOf(k)}]
                              ELSE history
                /\ Goto(k, IF right THEN ProvedSteps("deliver") ELSE <<"failure", "recount">>)
        /\ UNCHANGED <<secrets, counters, grants, dialogue, buttons, bounds, opened>>

\* The row is read and the PIN verified with argon2 in a thread; the failure is counted after it,
\* the success forgets the failures.
Verify(k) ==
    LET s == task[k].secret
        right == task[k].guess = s
    IN  /\ AtStep(k, "verify")
        /\ IF ~PinStillAsked(s) THEN Goto(k, ClearSteps) /\ UNCHANGED <<guesses, history>>
           ELSE /\ guesses' = [guesses EXCEPT ![KeyOf(k)] = @ + 1]
                /\ history' = IF right THEN [history EXCEPT !.proved = @ \cup {KeyOf(k)}]
                              ELSE history
                /\ Goto(k, IF right THEN ProvedSteps(IF s \in confirm THEN "grant" ELSE "deliver")
                           ELSE <<"failure", "recount">>)
        /\ UNCHANGED <<secrets, counters, grants, dialogue, buttons, bounds, opened>>

Failure(k) ==
    /\ AtStep(k, "failure")
    /\ pinHits' = [pinHits EXCEPT ![KeyOf(k)] = Hit(@)]
    /\ Continue(k)
    /\ UNCHANGED <<secrets, userHits, tokenHits, grants, dialogue, buttons, bounds, ghosts>>

\* A mutant of Recount: the lock is announced and the counter deleted.
RecountForgets(k) ==
    LET count == pinHits[KeyOf(k)].count
    IN  /\ AtStep(k, "recount")
        /\ pinHits' = [pinHits EXCEPT ![KeyOf(k)] = IF count >= PinMax THEN Expired(@) ELSE @]
        /\ Return(k)
        /\ UNCHANGED <<secrets, userHits, tokenHits, grants, dialogue, buttons, bounds, ghosts>>

\* The second command of pin_failure: a counter that is gone counts as full.
Recount(k) ==
    LET count == pinHits[KeyOf(k)].count
    IN  /\ AtStep(k, "recount")
        /\ Goto(k, IF count = 0 \/ count >= PinMax THEN ClearSteps ELSE <<>>)
        /\ UNCHANGED <<secrets, counters, grants, dialogue, buttons, bounds, ghosts>>

Forgive(k) ==
    /\ AtStep(k, "forgive")
    /\ pinHits' = [pinHits EXCEPT ![KeyOf(k)] = Expired(@)]
    /\ guesses' = [guesses EXCEPT ![KeyOf(k)] = 0]
    /\ Continue(k)
    /\ UNCHANGED <<secrets, userHits, tokenHits, grants, dialogue, buttons, bounds, opened,
                   history>>

\* A mutant of Grant: the parts of the key are swapped.
GrantSwapped(k) ==
    /\ AtStep(k, "grant")
    /\ grants' = grants \cup {<<task[k].user, task[k].secret>>}
    /\ Ask(k)
    /\ Continue(k)
    /\ UNCHANGED <<secrets, counters, dialogue, shown, bounds, ghosts>>

Grant(k) ==
    /\ AtStep(k, "grant")
    /\ grants' = grants \cup {KeyOf(k)}
    /\ Ask(k)
    /\ Continue(k)
    /\ UNCHANGED <<secrets, counters, dialogue, shown, bounds, ghosts>>

-----------------------------------------------------------------------------
(* confirm_identity *)

LookConfirm(k) ==
    LET s == task[k].secret
    IN  /\ AtStep(k, "look_confirm")
        /\ IF ~IsAvailable(rows[s], 0) THEN Return(k)
           ELSE Goto(k, IF rows[s].pin THEN <<"see_grant", "drop_grant", "deliver">>
                        ELSE <<"drop_grant", "deliver">>)
        /\ UNCHANGED <<secrets, counters, grants, dialogue, buttons, bounds, ghosts>>

SeeGrant(k) ==
    /\ AtStep(k, "see_grant")
    /\ IF KeyOf(k) \in grants THEN Continue(k) ELSE Return(k)
    /\ UNCHANGED <<secrets, counters, grants, dialogue, buttons, bounds, ghosts>>

DropGrant(k) ==
    /\ AtStep(k, "drop_grant")
    /\ grants' = grants \ {KeyOf(k)}
    /\ Continue(k)
    /\ UNCHANGED <<secrets, counters, dialogue, buttons, bounds, ghosts>>

-----------------------------------------------------------------------------
(* What happens meanwhile *)

Event == events < MaxEvents /\ events' = events + 1

\* Expired, destroyed by its creator, or opened to the end by others.
SecretEnds(s) ==
    /\ Event
    /\ IsActive(rows[s])
    /\ rows' = [rows EXCEPT ![s] = Destroyed(@, "manual", "destroyed")]
    /\ UNCHANGED <<confirm, counters, grants, dialogue, task, buttons, faults, updates, ghosts>>

UserWindowEnds(u) ==
    /\ Event
    /\ userHits[u].ttl
    /\ userHits' = [userHits EXCEPT ![u] = Expired(@)]
    /\ UNCHANGED <<secrets, tokenHits, pinHits, grants, dialogue, task, buttons, faults,
                   updates, ghosts>>

TokenWindowEnds(s) ==
    /\ Event
    /\ tokenHits[s].ttl
    /\ tokenHits' = [tokenHits EXCEPT ![s] = Expired(@)]
    /\ UNCHANGED <<secrets, userHits, pinHits, grants, dialogue, task, buttons, faults,
                   updates, ghosts>>

LockoutEnds(k) ==
    /\ Event
    /\ pinHits[k].ttl
    /\ pinHits' = [pinHits EXCEPT ![k] = Expired(@)]
    /\ guesses' = [guesses EXCEPT ![k] = 0]
    /\ UNCHANGED <<secrets, userHits, tokenHits, grants, dialogue, task, buttons, faults, updates,
                   opened, history>>

GrantExpires(k) ==
    /\ Event
    /\ k \in grants
    /\ grants' = grants \ {k}
    /\ UNCHANGED <<secrets, counters, dialogue, task, buttons, faults, updates, ghosts>>

Crash ==
    /\ Event
    /\ task' = [k \in Task |-> Free]
    /\ faults' = faults + 1
    /\ UNCHANGED <<secrets, counters, grants, dialogue, buttons, updates, ghosts>>

-----------------------------------------------------------------------------

Receive(k) ==
    \/ \E u \in User, s \in Secret :
           Start(k, u, s) \/ PressReveal(k, u, s) \/ PressConfirm(k, u, s)
    \/ \E u \in User, guess \in Secret : EnterPin(k, u, guess)

Step(k) ==
    \/ ClearState(k) \/ ClearData(k) \/ HitUser(k) \/ Show(k) \/ Deliver(k)
    \/ Look(k) \/ StatusReveal(k) \/ AskState(k) \/ AskData(k)
    \/ Which(k) \/ StatusPin(k) \/ Verify(k) \/ Failure(k) \/ Recount(k)
    \/ Forgive(k) \/ Grant(k) \/ LookConfirm(k) \/ SeeGrant(k) \/ DropGrant(k)

Meanwhile ==
    \/ \E s \in Secret : SecretEnds(s) \/ TokenWindowEnds(s)
    \/ \E u \in User : UserWindowEnds(u)
    \/ \E k \in Key : LockoutEnds(k) \/ GrantExpires(k)
    \/ Crash

Next == Meanwhile \/ \E k \in Task : Receive(k) \/ Step(k)

Spec == Init /\ [][Next]_vars

-----------------------------------------------------------------------------
(* Properties *)

\* Nobody opens a PIN-protected secret without having entered its PIN, the one of this secret,
\* whichever dialogue, button or grant of another secret was open at the same time.
PinBeforeOpen == \A o \in opened : o.pin => o.proved

\* Nor a secret that asks for confirmation without having confirmed.
ConfirmationBeforeOpen == \A o \in opened : o.confirmed

\* README.md:41 limits the attempts. The counter is read before the PIN is verified and counted
\* after it: parallel updates, and a crash in between, add at most one attempt each.
AttemptsBounded ==
    \A k \in Key : guesses[k] + 1 <= PinMax + Cardinality(Task) * (1 + faults)

=============================================================================
