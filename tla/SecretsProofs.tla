----------------------------- MODULE SecretsProofs -----------------------------
(***************************************************************************)
(* What the operators of Secrets do to a row, column by column, for every  *)
(* row: the proofs about the modules that keep such rows cite these lemmas *)
(* instead of expanding the operators.                                     *)
(***************************************************************************)
EXTENDS Secrets, TLAPS

\* create_secret inserts a well-formed active row with the PIN and the views of its draft.
LEMMA NewRowFields ==
    ASSUME NEW u \in User, NEW d, ValidDraft(d), NEW path \in Path \cup {NoPath}, NEW t \in Nat
    PROVE  LET r == NewRow(u, d, path, t)
           IN  /\ r \in Row
               /\ r.status = "active" /\ r.kind = d.kind /\ r.path = path /\ r.creator = u
               /\ r.views_used = 0 /\ r.views_allowed = d.views
<1>1. d \in Draft
  BY DEF ValidDraft
<1>2. (IF d.ttl = 0 THEN NoTime ELSE t + d.ttl) \in Time
  BY <1>1 DEF Draft, Time
<1>3. NewRow(u, d, path, t) \in Row
  BY <1>1, <1>2 DEF NewRow, Row, Draft, Status, Reason, Mode, Kind, Time
<1> QED
  BY <1>3 DEF NewRow

\* destroy_payload column by column: what it clears and what it leaves.
LEMMA DestroyedFields ==
    ASSUME NEW r \in Row, NEW reason \in Reason, NEW status \in Status \ {"active"}
    PROVE  LET d == Destroyed(r, reason, status)
           IN  /\ d \in Row
               /\ d.status = status /\ d.reason = reason /\ ~IsActive(d)
               /\ ~d.ciphertext /\ ~d.token /\ ~d.pin
               /\ d.path = NoPath /\ d.recipient = NoUser /\ d.claimed = NoUser
               /\ d.kind = r.kind /\ d.creator = r.creator
               /\ d.mode = r.mode /\ d.available_at = r.available_at
               /\ d.views_used = r.views_used /\ d.views_allowed = r.views_allowed
               /\ d.first_opened_at = r.first_opened_at
               /\ d.expires_at = r.expires_at /\ d.destroy_after = r.destroy_after
<1> DEFINE d == Destroyed(r, reason, status)
<1>1. d \in Row
  BY DEF Destroyed, Row
<1>2. d.status = status /\ d.reason = reason
  BY DEF Destroyed, Row
<1>3. ~d.ciphertext /\ ~d.token /\ ~d.pin
  BY DEF Destroyed, Row
<1>4. d.path = NoPath /\ d.recipient = NoUser /\ d.claimed = NoUser
  BY DEF Destroyed, Row
<1>5. /\ d.mode = r.mode /\ d.available_at = r.available_at
      /\ d.views_used = r.views_used /\ d.views_allowed = r.views_allowed
  BY DEF Destroyed, Row
<1>6. /\ d.first_opened_at = r.first_opened_at
      /\ d.expires_at = r.expires_at /\ d.destroy_after = r.destroy_after
  BY DEF Destroyed, Row
<1>7. d.kind = r.kind /\ d.creator = r.creator
  BY DEF Destroyed, Row
<1> QED
  BY <1>1, <1>2, <1>3, <1>4, <1>5, <1>6, <1>7 DEF IsActive

\* The row before destroy_payload decides whether the view was the last one.
Counted(r, u, t) ==
    LET starts == r.first_opened_at = NoTime
    IN  [r EXCEPT
            !.claimed = IF r.mode = "first" THEN u ELSE @,
            !.first_opened_at = IF starts THEN t ELSE @,
            !.expires_at = IF starts /\ r.destroy_after > 0
                           THEN Earlier(@, t + r.destroy_after) ELSE @,
            !.views_used = @ + 1]

\* The columns an open counts in, and those it leaves.
LEMMA CountedFields ==
    ASSUME NEW r \in Row, NEW u \in User, NEW t \in Nat
    PROVE  LET c == Counted(r, u, t)
           IN  /\ c \in Row
               /\ c.status = r.status /\ c.mode = r.mode /\ c.reason = r.reason
               /\ c.kind = r.kind /\ c.path = r.path /\ c.pin = r.pin /\ c.creator = r.creator
               /\ c.views_used = r.views_used + 1 /\ c.views_allowed = r.views_allowed
               /\ c.recipient = r.recipient /\ c.available_at = r.available_at
               /\ c.destroy_after = r.destroy_after
               /\ c.claimed = (IF r.mode = "first" THEN u ELSE r.claimed)
               /\ c.first_opened_at =
                      (IF r.first_opened_at = NoTime THEN t ELSE r.first_opened_at)
               /\ c.expires_at = (IF r.first_opened_at = NoTime /\ r.destroy_after > 0
                                  THEN Earlier(r.expires_at, t + r.destroy_after)
                                  ELSE r.expires_at)
<1> DEFINE c == Counted(r, u, t)
           starts == r.first_opened_at = NoTime
           newClaim == IF r.mode = "first" THEN u ELSE r.claimed
           newFirst == IF starts THEN t ELSE r.first_opened_at
           newExpiry == IF starts /\ r.destroy_after > 0
                        THEN Earlier(r.expires_at, t + r.destroy_after) ELSE r.expires_at
<1>1. newClaim \in User \cup {NoUser} /\ newFirst \in Time
  BY DEF Row, Time
<1>2. newExpiry \in Time
  BY DEF Row, Time, Earlier
<1>3. c = [r EXCEPT !.claimed = newClaim, !.first_opened_at = newFirst,
                    !.expires_at = newExpiry, !.views_used = @ + 1]
  BY DEF Counted, Row
<1> HIDE DEF newClaim, newFirst, newExpiry, c
<1>4. c \in Row
  <2>1. r.views_used + 1 \in Nat
    BY DEF Row
  <2> QED
    BY <1>1, <1>2, <1>3, <2>1 DEF Row
<1>5. /\ c.status = r.status /\ c.mode = r.mode /\ c.reason = r.reason
      /\ c.views_used = r.views_used + 1 /\ c.views_allowed = r.views_allowed
  BY <1>3 DEF Row
<1>6. /\ c.recipient = r.recipient /\ c.available_at = r.available_at
      /\ c.destroy_after = r.destroy_after
  BY <1>3 DEF Row
<1>7. c.kind = r.kind /\ c.path = r.path /\ c.pin = r.pin /\ c.creator = r.creator
  BY <1>3 DEF Row
<1>8. c.claimed = newClaim /\ c.first_opened_at = newFirst /\ c.expires_at = newExpiry
  BY <1>3 DEF Row
<1> QED
  BY <1>4, <1>5, <1>6, <1>7, <1>8 DEF newClaim, newFirst, newExpiry, c

\* An open either leaves the counted row or wipes it, when the view was the last one.
LEMMA OpenedFields ==
    ASSUME NEW r \in Row, NEW u \in User, NEW t \in Nat
    PROVE  LET o == Opened(r, u, t)
               c == Counted(r, u, t)
           IN  /\ o \in Row
               /\ o = IF c.views_used >= c.views_allowed
                      THEN Destroyed(c, "view_limit", "destroyed") ELSE c
               /\ o.status = IF c.views_used >= c.views_allowed THEN "destroyed" ELSE r.status
               /\ o.pin => r.pin
<1> DEFINE o == Opened(r, u, t)
           c == Counted(r, u, t)
           d == Destroyed(c, "view_limit", "destroyed")
<1>1. o = IF c.views_used >= c.views_allowed THEN d ELSE c
  BY DEF Opened, Counted
<1>2. c \in Row /\ c.pin = r.pin /\ c.status = r.status
  BY CountedFields
<1>3. "view_limit" \in Reason /\ "destroyed" \in Status \ {"active"}
  BY DEF Reason, Status
<1> HIDE DEF c
<1>4. d \in Row /\ ~d.pin /\ d.status = "destroyed"
  BY <1>2, <1>3, DestroyedFields
<1> HIDE DEF o, d
<1>5. o \in Row
  BY <1>1, <1>2, <1>4
<1>6. o.status = IF c.views_used >= c.views_allowed THEN "destroyed" ELSE r.status
  BY <1>1, <1>2, <1>4
<1>7. o.pin => r.pin
  BY <1>1, <1>2, <1>4
<1> QED
  BY <1>1, <1>5, <1>6, <1>7 DEF o, c, d

\* What an open leaves of a row: its kind and creator, its path while it is active, and an
\* expiry that is never later than before.
LEMMA OpenedKeeps ==
    ASSUME NEW r \in Row, NEW u \in User, NEW t \in Nat
    PROVE  LET o == Opened(r, u, t)
           IN  /\ o.kind = r.kind /\ o.creator = r.creator
               /\ IsActive(o) => o.path = r.path
               /\ \A x \in Nat : Overdue(r, x) => Overdue(o, x)
<1> DEFINE o == Opened(r, u, t)
           c == Counted(r, u, t)
           d == Destroyed(c, "view_limit", "destroyed")
<1>1. o = IF c.views_used >= c.views_allowed THEN d ELSE c
  BY DEF Opened, Counted
<1>2. /\ c \in Row /\ c.path = r.path /\ c.kind = r.kind /\ c.creator = r.creator
      /\ c.expires_at = (IF r.first_opened_at = NoTime /\ r.destroy_after > 0
                         THEN Earlier(r.expires_at, t + r.destroy_after) ELSE r.expires_at)
  BY CountedFields
<1>3. "view_limit" \in Reason /\ "destroyed" \in Status \ {"active"}
  BY DEF Reason, Status
<1> HIDE DEF c
<1>4. /\ d.kind = c.kind /\ d.creator = c.creator /\ d.expires_at = c.expires_at
      /\ ~IsActive(d)
  BY <1>2, <1>3, DestroyedFields
<1>5. \A x \in Nat : Overdue(r, x) => Overdue(c, x)
  BY <1>2, NullAssumption DEF Overdue, Earlier, Row, Time
<1>6. \A x \in Nat : Overdue(r, x) => Overdue(d, x)
  BY <1>4, <1>5 DEF Overdue
<1> HIDE DEF o, d
<1>7. o.kind = r.kind /\ o.creator = r.creator
  BY <1>1, <1>2, <1>4
<1>8. IsActive(o) => o.path = r.path
  BY <1>1, <1>2, <1>4
<1>9. \A x \in Nat : Overdue(r, x) => Overdue(o, x)
  BY <1>1, <1>5, <1>6
<1> QED
  BY <1>7, <1>8, <1>9 DEF o, c, d

=============================================================================
