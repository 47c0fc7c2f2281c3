----------------------------- MODULE AccessControl -----------------------------
(***************************************************************************)
(* Who gets past the middleware: app/bot/middlewares/security.py and       *)
(* app/users.py, against the orders of administrators (admin_restrict in   *)
(* app/admin.py). The middleware reads the user's row once, in a           *)
(* transaction that is over before it decides, and may write a temporary   *)
(* ban that has run out back as ACTIVE; it takes no lock. admin_restrict   *)
(* locks the row from its SELECT to its commit and is one step.            *)
(*                                                                         *)
(* The columns read_only, creation_disabled, file_uploads_disabled and     *)
(* rate_limited of a row are the set flags of those that are true.         *)
(***************************************************************************)
EXTENDS RateLimiter

CONSTANTS
    User,       \* telegram ids
    Admin,      \* settings.admin_id_set
    Call,       \* updates in the middleware at the same time
    Kind,       \* the kinds of update this instance has
    RateLimit,  \* the *_rate_limit settings, by kind
    BanTime,    \* the 24 hours of «Ban 24h»
    NoTime,
    MaxClock,   \* bound of the clock
    MaxHits,    \* bound of the hits of a counter at which updates still come in
    MaxOrders   \* bound of the administrators' orders

ASSUME AccessAssumption ==
    /\ Admin \subseteq User
    /\ Kind \subseteq {"start", "read", "create", "request", "file", "open"}
    /\ RateLimit \in [Kind -> Nat \ {0}]
    /\ BanTime \in Nat \ {0} /\ NoTime \notin Nat
    /\ MaxClock \in Nat /\ MaxHits \in Nat /\ MaxOrders \in Nat

VARIABLES
    users,      \* the table users
    known,      \* the users who have a row in it
    call,       \* what the middleware knows of each update
    hits,       \* middleware:{action}:{actor}
    clock,
    orders,     \* how many orders there were
    standing,   \* ghost: what the orders so far amount to, by user
    served      \* ghost: updates handled since a counter began, all and those of slowed users

avars == <<users, known, call, hits, clock, orders, standing, served>>

Flag == {"read_only", "creation_disabled", "file_uploads_disabled", "rate_limited"}

Time == Nat \cup {NoTime}

UserRow == [status: {"active", "banned", "temporary_ban"}, ban_until: Time, flags: SUBSET Flag]

\* raced: the ban was ordered while an update that had read an older temporary ban was in the
\* middleware.
Standing == [ban: {"none", "ban", "temp"}, until: Time, flags: SUBSET Flag, raced: BOOLEAN]

NewUser == [status |-> "active", ban_until |-> NoTime, flags |-> {}]
NoOrders == [ban |-> "none", until |-> NoTime, flags |-> {}, raced |-> FALSE]

NoCall == [phase |-> "free"]
Pending == [phase: {"judge", "lapse", "rate"}, user: User, kind: Kind, row: UserRow,
            order: Standing, at: Nat]
Done == [phase: {"handled", "denied"}, user: User, kind: Kind, order: Standing, at: Nat]

RateKey == Kind \X User
Served == [all: Nat, slow: Nat]
Unserved == [all |-> 0, slow |-> 0]

AccessTypeOK ==
    /\ users \in [User -> UserRow]
    /\ known \subseteq User
    /\ call \in [Call -> {NoCall} \cup Pending \cup Done]
    /\ hits \in [RateKey -> Counter]
    /\ clock \in Nat
    /\ orders \in Nat
    /\ standing \in [User -> Standing]
    /\ served \in [RateKey -> Served]

AccessInit ==
    /\ users = [u \in User |-> NewUser]
    /\ known = {}
    /\ call = [k \in Call |-> NoCall]
    /\ hits = [r \in RateKey |-> NoHits]
    /\ clock = 0
    /\ orders = 0
    /\ standing = [u \in User |-> NoOrders]
    /\ served = [r \in RateKey |-> Unserved]

-----------------------------------------------------------------------------
(* restriction_message *)

InForce(until, t) == until # NoTime /\ until > t

\* A mutant of RunOut: the ban is in force at its end, too.
RunOutLate(row, t) ==
    row.status = "temporary_ban" /\ ~(row.ban_until # NoTime /\ row.ban_until >= t)

RunOut(row, t) == row.status = "temporary_ban" /\ ~InForce(row.ban_until, t)

Lifted(row) == [row EXCEPT !.status = "active", !.ban_until = NoTime]

Forbids(flags, kind) ==
    \/ "read_only" \in flags /\ kind \in {"create", "request", "file"}
    \/ "creation_disabled" \in flags /\ kind = "create"
    \/ "file_uploads_disabled" \in flags /\ kind = "file"

\* A mutant of Denies: a temporary ban does not deny.
DeniesNoTemporary(row, kind) == row.status = "banned" \/ Forbids(row.flags, kind)

Denies(row, kind) == row.status # "active" \/ Forbids(row.flags, kind)

-----------------------------------------------------------------------------
(* The middleware *)

InFlight(k) == call[k].phase \in {"judge", "lapse", "rate"}

\* A mutant of Touch: the status of a new user has no default.
TouchNoDefault(k, u, kind) ==
    /\ ~InFlight(k)
    /\ kind = "read" \/ hits[<<kind, u>>].count < MaxHits
    /\ known' = known \cup {u}
    /\ call' = [call EXCEPT ![k] =
           [phase |-> "judge", user |-> u, kind |-> kind,
            row |-> IF u \in known THEN users[u] ELSE [users[u] EXCEPT !.status = "none"],
            order |-> standing[u], at |-> 0]]
    /\ UNCHANGED <<users, hits, clock, orders, standing, served>>

\* touch_user: the row, inserted when there is none.
Touch(k, u, kind) ==
    /\ ~InFlight(k)
    /\ kind = "read" \/ hits[<<kind, u>>].count < MaxHits
    /\ known' = known \cup {u}
    /\ call' = [call EXCEPT ![k] =
           [phase |-> "judge", user |-> u, kind |-> kind, row |-> users[u],
            order |-> standing[u], at |-> 0]]
    /\ UNCHANGED <<users, hits, clock, orders, standing, served>>

End(c, phase) ==
    [phase |-> phase, user |-> c.user, kind |-> c.kind, order |-> c.order, at |-> c.at]

\* Administrators pass whatever their row says; reading has no rate.
Verdict(c) ==
    IF Denies(c.row, c.kind) /\ c.user \notin Admin THEN End(c, "denied")
    ELSE IF c.kind = "read" \/ c.user \in Admin THEN End(c, "handled")
    ELSE [c EXCEPT !.phase = "rate"]

Serve(c) ==
    served' = [served EXCEPT ![<<c.kind, c.user>>] =
        [all |-> @.all + 1, slow |-> @.slow + IF "rate_limited" \in c.order.flags THEN 1 ELSE 0]]

\* The decision on the row as it was read; a lapse changes the object and is flushed next.
Judge(k) ==
    LET c == call[k]
    IN  /\ c.phase = "judge"
        /\ call' = [call EXCEPT ![k] =
               IF RunOut(c.row, clock)
               THEN [c EXCEPT !.phase = "lapse", !.row = Lifted(c.row), !.at = clock]
               ELSE Verdict([c EXCEPT !.at = clock])]
        /\ UNCHANGED <<users, known, hits, clock, orders, standing, served>>

\* A mutant of Lapse: the whole row is written back.
LapseWritesRow(k) ==
    LET c == call[k]
    IN  /\ c.phase = "lapse"
        /\ users' = [users EXCEPT ![c.user] = c.row]
        /\ call' = [call EXCEPT ![k] = Verdict(c)]
        /\ UNCHANGED <<known, hits, clock, orders, standing, served>>

\* The commit updates the two columns that changed, whatever they hold by now.
Lapse(k) ==
    LET c == call[k]
    IN  /\ c.phase = "lapse"
        /\ users' = [users EXCEPT ![c.user] = Lifted(@)]
        /\ call' = [call EXCEPT ![k] = Verdict(c)]
        /\ UNCHANGED <<known, hits, clock, orders, standing, served>>

\* A mutant of Limit: a slowed user keeps the whole limit.
LimitNotHalved(row, kind) == RateLimit[kind]

Limit(row, kind) ==
    IF "rate_limited" \notin row.flags THEN RateLimit[kind]
    ELSE IF RateLimit[kind] \div 2 = 0 THEN 1 ELSE RateLimit[kind] \div 2

HitRate(k) ==
    LET c == call[k]
        r == <<c.kind, c.user>>
        counter == Hit(hits[r])
    IN  /\ c.phase = "rate"
        /\ hits' = [hits EXCEPT ![r] = counter]
        /\ IF Allowed(counter, Limit(c.row, c.kind))
           THEN call' = [call EXCEPT ![k] = End(c, "handled")] /\ Serve(c)
           ELSE call' = [call EXCEPT ![k] = NoCall] /\ UNCHANGED served
        /\ UNCHANGED <<users, known, clock, orders, standing>>

RateWindowEnds(r) ==
    /\ hits[r].ttl
    /\ hits' = [hits EXCEPT ![r] = Expired(@)]
    /\ served' = [served EXCEPT ![r] = Unserved]
    /\ UNCHANGED <<users, known, call, clock, orders, standing>>

\* The database or Redis is away, or the bot stops: the update is gone, with it what the
\* middleware had not committed.
CallLost(k) ==
    /\ InFlight(k)
    /\ call' = [call EXCEPT ![k] = NoCall]
    /\ UNCHANGED <<users, known, hits, clock, orders, standing, served>>

-----------------------------------------------------------------------------
(* The administrators' orders *)

Toggled(flags, f) == IF f \in flags THEN flags \ {f} ELSE flags \cup {f}

\* Updates of u that read a temporary ban and may still write it back as over.
MayLapse(u) ==
    \E k \in Call : /\ call[k].phase \in {"judge", "lapse"}
                    /\ call[k].user = u
                    /\ call[k].phase = "judge" => call[k].row.status = "temporary_ban"

Order(u, row, order) ==
    /\ u \in known
    /\ orders < MaxOrders
    /\ orders' = orders + 1
    /\ users' = [users EXCEPT ![u] = row]
    /\ standing' = [standing EXCEPT ![u] = order]
    /\ UNCHANGED <<known, call, hits, clock, served>>

\* The end of an earlier temporary ban stays in the row.
Ban(u) == Order(u, [users[u] EXCEPT !.status = "banned"],
                [standing[u] EXCEPT !.ban = "ban", !.until = NoTime, !.raced = MayLapse(u)])

TempBan(u) ==
    Order(u, [users[u] EXCEPT !.status = "temporary_ban", !.ban_until = clock + BanTime],
          [standing[u] EXCEPT !.ban = "temp", !.until = clock + BanTime, !.raced = MayLapse(u)])

ToggleFlag(u, f) == Order(u, [users[u] EXCEPT !.flags = Toggled(@, f)],
                          [standing[u] EXCEPT !.flags = Toggled(@, f)])

Clear(u) == Order(u, NewUser, NoOrders)

admin_restrict(u) == Ban(u) \/ TempBan(u) \/ Clear(u) \/ \E f \in Flag : ToggleFlag(u, f)

Later == /\ clock < MaxClock
         /\ clock' = clock + 1
         /\ UNCHANGED <<users, known, call, hits, orders, standing, served>>

-----------------------------------------------------------------------------

Middleware(k) ==
    \/ \E u \in User, kind \in Kind : Touch(k, u, kind)
    \/ Judge(k) \/ Lapse(k) \/ HitRate(k) \/ CallLost(k)

AccessNext ==
    \/ \E k \in Call : Middleware(k)
    \/ \E u \in User : admin_restrict(u)
    \/ \E r \in RateKey : RateWindowEnds(r)
    \/ Later

AccessSpec == AccessInit /\ [][AccessNext]_avars

-----------------------------------------------------------------------------
(* Properties *)

\* What administrators ordered is what the rows say, although the middleware writes rows it read
\* earlier: a ban stands until it is lifted or its time is over, the one that was ordered
\* while an older temporary ban was lapsing (security.py:28) excepted. The flags have
\* no such exception: the lapse never takes one back.
OrdersStand ==
    \A u \in User :
        LET s == standing[u]
        IN  /\ users[u].flags = s.flags
            /\ s.ban = "ban" /\ ~s.raced => users[u].status = "banned"
            /\ s.ban = "temp" /\ ~s.raced /\ InForce(s.until, clock)
                   => users[u].status = "temporary_ban" /\ users[u].ban_until = s.until

\* An update is handled only if the orders that stood when it came in allow it: the row it was
\* judged by and the time it was judged at are no older than the update.
HandledAsOrdered ==
    \A k \in Call :
        call[k].phase = "handled" /\ call[k].user \notin Admin =>
            LET s == call[k].order
            IN  /\ ~Forbids(s.flags, call[k].kind)
                /\ \/ s.ban = "none" \/ s.raced
                   \/ s.ban = "temp" /\ ~InForce(s.until, call[k].at)

\* Nobody is turned away without a standing order: not after «clear», not after a temporary ban
\* has run out, even if nothing has written that into the row yet, and no administrator ever.
DeniedForCause ==
    \A k \in Call :
        call[k].phase = "denied" =>
            LET s == call[k].order
            IN  /\ call[k].user \notin Admin
                /\ \/ Forbids(s.flags, call[k].kind)
                   \/ s.ban = "ban"
                   \/ s.ban = "temp" /\ InForce(s.until, call[k].at)

\* Within one window of a counter no more updates are handled than the limit, and of those that
\* came in while their user was slowed no more than half of it, at least one.
RateHonoured ==
    \A r \in RateKey :
        /\ served[r].all <= RateLimit[r[1]]
        /\ 2 * served[r].slow <= RateLimit[r[1]] \/ served[r].slow <= 1

=============================================================================
