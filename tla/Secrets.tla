------------------------------- MODULE Secrets -------------------------------
(***************************************************************************)
(* One row of table "secrets" (app/models.py) and the pure functions of    *)
(* app/services.py that read it or compute its next value: no state here.  *)
(* Every module that touches a secret takes its rows from this one.        *)
(*                                                                         *)
(* Data abstraction: the three columns of an encrypted value (ciphertext,  *)
(* nonce, tag) become one BOOLEAN, present or NULL; a Telegram id is a     *)
(* member of User; a file name is a member of Path; time is a natural.     *)
(* Columns no property tells apart (public code, notification switches,    *)
(* file size and mime type, created_at, destroyed_at) are left out.        *)
(***************************************************************************)
EXTENDS Naturals, FiniteSets

CONSTANTS
    User,       \* Telegram ids
    Path,       \* names of encrypted files under FILE_STORAGE_PATH
    NoUser,     \* a NULL telegram id
    NoPath,     \* a NULL encrypted_file_path
    NoTime      \* a NULL timestamp

ASSUME NullAssumption == NoUser \notin User /\ NoPath \notin Path /\ NoTime \notin Nat

Time == Nat \cup {NoTime}

\* models.py: SecretStatus, DestroyReason, RecipientMode; "absent" is a row not inserted yet.
\* Of ContentType only FILE is told apart: text, password and generated behave alike.
Status == {"absent", "active", "destroyed", "expired"}
Reason == {"none", "view_limit", "manual", "expired"}
Mode   == {"any", "specific", "first"}
Kind   == {"text", "file"}

Row == [status: Status, reason: Reason, kind: Kind, creator: User \cup {NoUser},
        ciphertext: BOOLEAN, path: Path \cup {NoPath}, token: BOOLEAN, pin: BOOLEAN,
        mode: Mode, recipient: User \cup {NoUser}, claimed: User \cup {NoUser},
        expires_at: Time, available_at: Time, first_opened_at: Time,
        destroy_after: Nat, views_used: Nat, views_allowed: Nat]

\* What a caller of create_secret passes: the FSM draft (handlers.finalize_secret), the
\* fixed arguments of a relay copy or of a fulfilled request.
Draft == [kind: Kind, mode: Mode, recipient: User \cup {NoUser}, pin: BOOLEAN, ttl: Nat,
          views: Nat, available_at: Time, destroy_after: Nat]

\* The drafts the handlers let through: a positive number of views (views_menu) and, for a
\* specific recipient, the recipient's id (finalize_secret's early return).
ValidDraft(d) ==
    /\ d \in Draft
    /\ d.views > 0
    /\ d.mode = "specific" => d.recipient \in User

AbsentRow ==
    [status |-> "absent", reason |-> "none", kind |-> "text", creator |-> NoUser,
     ciphertext |-> FALSE, path |-> NoPath, token |-> FALSE, pin |-> FALSE,
     mode |-> "any", recipient |-> NoUser, claimed |-> NoUser,
     expires_at |-> NoTime, available_at |-> NoTime, first_opened_at |-> NoTime,
     destroy_after |-> 0, views_used |-> 0, views_allowed |-> 0]

\* create_secret: a TTL of 0 means no expiry; a file secret keeps no ciphertext in the row,
\* and the path is stored whatever the content type is.
NewRow(creator, d, path, t) ==
    [status |-> "active", reason |-> "none", kind |-> d.kind, creator |-> creator,
     ciphertext |-> d.kind # "file", path |-> path, token |-> TRUE, pin |-> d.pin,
     mode |-> d.mode, recipient |-> d.recipient, claimed |-> NoUser,
     expires_at |-> IF d.ttl = 0 THEN NoTime ELSE t + d.ttl,
     available_at |-> d.available_at, first_opened_at |-> NoTime,
     destroy_after |-> d.destroy_after, views_used |-> 0, views_allowed |-> d.views]

\* A mutant of Destroyed: the column a bulk UPDATE is most easily forgotten in.
DestroyedKeepsToken(row, reason, status) ==
    [row EXCEPT !.ciphertext = FALSE, !.path = NoPath, !.pin = FALSE,
                !.recipient = NoUser, !.claimed = NoUser,
                !.status = status, !.reason = reason]

\* destroy_payload, and the value lists of the two bulk UPDATEs, which clear the same columns.
Destroyed(row, reason, status) ==
    [row EXCEPT !.ciphertext = FALSE, !.path = NoPath, !.token = FALSE, !.pin = FALSE,
                !.recipient = NoUser, !.claimed = NoUser,
                !.status = status, !.reason = reason]

IsActive(row) == row.status = "active"

\* expires_at is not None and expires_at <= now
Overdue(row, t) == row.expires_at # NoTime /\ row.expires_at <= t

HasPayload(row) == IF row.kind = "file" THEN row.path # NoPath ELSE row.ciphertext

IsAvailable(row, t) ==
    /\ IsActive(row)
    /\ HasPayload(row)
    /\ row.views_used < row.views_allowed
    /\ ~Overdue(row, t)

\* available_at is not None and available_at > now
NotYet(row, t) == row.available_at # NoTime /\ row.available_at > t

\* A mutant of Entitled: the claim of an earlier viewer is not looked at.
EntitledIgnoresClaim(row, u) == row.mode = "specific" => row.recipient = u

Entitled(row, u) ==
    /\ row.mode = "specific" => row.recipient = u
    /\ row.mode = "first" => row.claimed \in {NoUser, u}

\* consume_secret, lines 132-153: the verdict that releases the payload.
MayOpen(row, u, t) == IsAvailable(row, t) /\ ~NotYet(row, t) /\ Entitled(row, u)

\* A mutant of Earlier: the timer of the first open replaces a nearer expiry.
AlwaysTimer(a, b) == b

Earlier(a, b) == IF a = NoTime \/ b < a THEN b ELSE a

\* A mutant of Opened: views_used > views_allowed.
OpenedOneMore(row, u, t) ==
    LET starts == row.first_opened_at = NoTime
        counted == [row EXCEPT
            !.claimed = IF row.mode = "first" THEN u ELSE @,
            !.first_opened_at = IF starts THEN t ELSE @,
            !.expires_at = IF starts /\ row.destroy_after > 0
                           THEN Earlier(@, t + row.destroy_after) ELSE @,
            !.views_used = @ + 1]
    IN  IF counted.views_used > counted.views_allowed
        THEN Destroyed(counted, "view_limit", "destroyed")
        ELSE counted

\* consume_secret, lines 147-166: what one granted open does to the row. The claim of a
\* "first" secret, the timer that starts with the first open, the counted view.
Opened(row, u, t) ==
    LET starts == row.first_opened_at = NoTime
        counted == [row EXCEPT
            !.claimed = IF row.mode = "first" THEN u ELSE @,
            !.first_opened_at = IF starts THEN t ELSE @,
            !.expires_at = IF starts /\ row.destroy_after > 0
                           THEN Earlier(@, t + row.destroy_after) ELSE @,
            !.views_used = @ + 1]
    IN  IF counted.views_used >= counted.views_allowed
        THEN Destroyed(counted, "view_limit", "destroyed")
        ELSE counted

=============================================================================
