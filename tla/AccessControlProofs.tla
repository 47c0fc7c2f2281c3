-------------------------- MODULE AccessControlProofs --------------------------
(***************************************************************************)
(* Proofs about AccessControl for every set of users, administrators and   *)
(* concurrent updates and for every limit. The rows say what the orders    *)
(* say; an update in the middleware has read such a row, and what its      *)
(* lapse may write back as over is over, or ordered while it was there.    *)
(***************************************************************************)
EXTENDS AccessControl, TLAPS

-----------------------------------------------------------------------------
(* The inductive invariant *)

\* A row says what was ordered, and neither status nor end of a ban are invented.
RowFits(row, order, t) ==
    /\ row.flags = order.flags
    /\ order.ban = "ban" /\ ~order.raced => row.status = "banned"
    /\ order.ban = "temp" /\ ~order.raced /\ InForce(order.until, t)
           => row.status = "temporary_ban" /\ row.ban_until = order.until
    /\ row.status = "banned" => order.ban = "ban"
    /\ row.status = "temporary_ban" => order.ban = "temp" /\ row.ban_until = order.until

\* The orders do not forbid it, and the orders forbid it.
MayPass(c) ==
    /\ ~Forbids(c.order.flags, c.kind)
    /\ \/ c.order.ban = "none" \/ c.order.raced
       \/ c.order.ban = "temp" /\ ~InForce(c.order.until, c.at)

MayNotPass(c) ==
    /\ c.user \notin Admin
    /\ \/ Forbids(c.order.flags, c.kind)
       \/ c.order.ban = "ban"
       \/ c.order.ban = "temp" /\ InForce(c.order.until, c.at)

\* What an update knows fits the orders that stood when it came in.
CallFits(c, t) ==
    /\ c.phase = "judge" => RowFits(c.row, c.order, t)
    /\ c.phase = "lapse" => /\ c.row.flags = c.order.flags
                            /\ c.row.status = "active"
                            /\ c.order.ban = "temp" /\ ~InForce(c.order.until, c.at)
                            /\ c.at <= t
    /\ c.phase = "rate" => /\ c.row.flags = c.order.flags
                           /\ c.user \notin Admin
                           /\ MayPass(c)
    /\ c.phase = "handled" /\ c.user \notin Admin => MayPass(c)
    /\ c.phase = "denied" => MayNotPass(c)

\* A ban that an update may still write back as over is the one it read, or was ordered
\* meanwhile, or is gone.
LapseFits(c, order) ==
    /\ c.phase = "judge" /\ c.row.status = "temporary_ban" =>
           \/ order.raced \/ order.ban = "none"
           \/ order.ban = "temp" /\ order.until = c.row.ban_until
    /\ c.phase = "lapse" =>
           \/ order.raced \/ order.ban = "none"
           \/ order.ban = "temp" /\ ~InForce(order.until, c.at)

\* Only hits of the counter are served.
ServedWereHit ==
    \A r \in RateKey : served[r].slow <= served[r].all /\ served[r].all <= hits[r].count

AInv ==
    /\ AccessTypeOK
    /\ \A u \in User : RowFits(users[u], standing[u], clock)
    /\ \A k \in Call : CallFits(call[k], clock)
    /\ \A k \in Call : call[k] # NoCall => LapseFits(call[k], standing[call[k].user])
    /\ ServedWereHit
    /\ RateHonoured

-----------------------------------------------------------------------------
(* Lemmas about the operators *)

LEMMA InitialRowFits == RowFits(NewUser, NoOrders, 0)
BY DEF RowFits, NewUser, NoOrders

\* Time only takes bans back.
LEMMA ForceEnds ==
    ASSUME NEW until \in Time, NEW t \in Nat, NEW u \in Nat, t <= u, InForce(until, u)
    PROVE  InForce(until, t)
BY DEF InForce, Time

LEMMA RowFitsLater ==
    ASSUME NEW row, NEW order \in Standing, NEW t \in Nat, NEW u \in Nat, t <= u,
           RowFits(row, order, t)
    PROVE  RowFits(row, order, u)
<1>1. order.until \in Time
  BY DEF Standing
<1> QED
  BY <1>1, ForceEnds DEF RowFits

LEMMA CallFitsLater ==
    ASSUME NEW c \in {NoCall} \cup Pending \cup Done, NEW t \in Nat, NEW u \in Nat, t <= u,
           CallFits(c, t)
    PROVE  CallFits(c, u)
<1>1. c.phase \in {"judge", "lapse", "rate"} => c \in Pending
  BY DEF NoCall, Done
<1>2. c \in Pending => c.order \in Standing /\ c.at \in Nat
  BY DEF Pending
<1>3. c.phase = "judge" => RowFits(c.row, c.order, u)
  BY <1>1, <1>2, RowFitsLater DEF CallFits
<1>4. c.phase = "lapse" => c.at <= u
  BY <1>1, <1>2 DEF CallFits
<1> QED
  BY <1>3, <1>4 DEF CallFits

\* What the middleware decides follows from the orders, if the row does: c has been judged at
\* c.at, and its row no longer is a temporary ban that has run out.
LEMMA VerdictFits ==
    ASSUME NEW c \in Pending, NEW t \in Nat,
           c.row.flags = c.order.flags,
           c.row.status = "active" =>
               \/ c.order.ban = "none" \/ c.order.raced
               \/ c.order.ban = "temp" /\ ~InForce(c.order.until, c.at),
           c.row.status # "active" =>
               c.order.ban = "ban" \/ (c.order.ban = "temp" /\ InForce(c.order.until, c.at))
    PROVE  /\ Verdict(c) \in Pending \cup Done
           /\ CallFits(Verdict(c), t)
           /\ Verdict(c).user = c.user
           /\ Verdict(c).phase \in {"rate", "handled", "denied"}
<1>1. /\ c.user \in User /\ c.kind \in Kind /\ c.row \in UserRow /\ c.order \in Standing
      /\ c.at \in Nat
  BY DEF Pending
<1>2. ASSUME NEW p \in {"handled", "denied"}
      PROVE  /\ End(c, p) \in Done
             /\ End(c, p).phase = p /\ End(c, p).user = c.user /\ End(c, p).kind = c.kind
             /\ End(c, p).order = c.order /\ End(c, p).at = c.at
  BY <1>1 DEF End, Done
<1>3. CASE Denies(c.row, c.kind) /\ c.user \notin Admin
  <2>1. Verdict(c) = End(c, "denied")
    BY <1>3 DEF Verdict
  <2>2. MayNotPass(End(c, "denied"))
    BY <1>2, <1>3 DEF MayNotPass, Denies
  <2> QED
    BY <1>2, <2>1, <2>2 DEF CallFits
<1>4. CASE ~(Denies(c.row, c.kind) /\ c.user \notin Admin) /\ (c.kind = "read" \/ c.user \in Admin)
  <2>1. Verdict(c) = End(c, "handled")
    BY <1>4 DEF Verdict
  <2>2. c.user \notin Admin => MayPass(End(c, "handled"))
    BY <1>2, <1>4 DEF MayPass, Denies
  <2> QED
    BY <1>2, <2>1, <2>2 DEF CallFits
<1>5. CASE ~(Denies(c.row, c.kind) /\ c.user \notin Admin) /\ ~(c.kind = "read" \/ c.user \in Admin)
  <2> DEFINE d == [c EXCEPT !.phase = "rate"]
  <2>1. Verdict(c) = d
    BY <1>5 DEF Verdict
  <2>2. /\ d \in Pending
        /\ d.phase = "rate" /\ d.user = c.user /\ d.kind = c.kind /\ d.row = c.row
        /\ d.order = c.order /\ d.at = c.at
    BY DEF Pending
  <2> HIDE DEF d
  <2>3. MayPass(d)
    BY <1>5, <2>2 DEF MayPass, Denies
  <2> QED
    BY <1>5, <2>1, <2>2, <2>3 DEF CallFits
<1> QED
  BY <1>3, <1>4, <1>5

LEMMA HitCounts ==
    ASSUME NEW c \in Counter
    PROVE  Hit(c) \in Counter /\ Hit(c).count = c.count + 1 /\ c.count \in Nat
<1>1. c.count \in Nat /\ c.ttl \in BOOLEAN /\ (c.count > 0 => c.ttl)
  BY DEF Counter
<1> DEFINE d == [count |-> c.count + 1, ttl |-> c.ttl \/ c.count = 0]
<1>2. (c.ttl \/ c.count = 0) = TRUE
  BY <1>1
<1>3. d.ttl = TRUE
  BY <1>2
<1>4. d \in [count: Nat, ttl: BOOLEAN] /\ d.count = c.count + 1
  BY <1>1
<1> QED
  BY <1>3, <1>4 DEF Hit, Counter

\* A row that denies by its status does so by order.
LEMMA StatusIsOrdered ==
    ASSUME NEW row \in UserRow, NEW order \in Standing, NEW t \in Nat,
           RowFits(row, order, t), ~RunOut(row, t), row.status # "active"
    PROVE  order.ban = "ban" \/ (order.ban = "temp" /\ InForce(order.until, t))
<1>1. row.status \in {"banned", "temporary_ban"}
  BY DEF UserRow
<1>2. CASE row.status = "banned"
  <2>1. order.ban = "ban"
    BY <1>2 DEF RowFits
  <2> QED
    BY <2>1
<1>3. CASE row.status = "temporary_ban"
  <2>1. InForce(row.ban_until, t)
    BY <1>3 DEF RunOut
  <2>2. order.ban = "temp" /\ row.ban_until = order.until
    BY <1>3 DEF RowFits
  <2> QED
    BY <2>1, <2>2
<1> QED
  BY <1>1, <1>2, <1>3

\* The limit of a slowed user is half the limit, at least one.
LEMMA LimitBounds ==
    ASSUME NEW row \in UserRow, NEW kind \in Kind
    PROVE  /\ Limit(row, kind) \in Nat
           /\ Limit(row, kind) <= RateLimit[kind]
           /\ "rate_limited" \in row.flags =>
                  2 * Limit(row, kind) <= RateLimit[kind] \/ Limit(row, kind) = 1
<1>1. RateLimit[kind] \in Nat \ {0}
  BY AccessAssumption
<1>2. /\ RateLimit[kind] \div 2 \in Nat
      /\ 2 * (RateLimit[kind] \div 2) <= RateLimit[kind]
  BY <1>1
<1> QED
  BY <1>1, <1>2 DEF Limit

-----------------------------------------------------------------------------
(* The middleware *)

\* A step of one update keeps what holds of the updates if it holds of the new record of it.
LEMMA CallStep ==
    ASSUME AInv, NEW k \in Call, NEW c \in {NoCall} \cup Pending \cup Done,
           call' = [call EXCEPT ![k] = c], UNCHANGED <<clock, standing>>,
           CallFits(c, clock),
           c # NoCall => LapseFits(c, standing[c.user])
    PROVE  /\ call' \in [Call -> {NoCall} \cup Pending \cup Done]
           /\ \A j \in Call : CallFits(call'[j], clock')
           /\ \A j \in Call : call'[j] # NoCall => LapseFits(call'[j], standing'[call'[j].user])
<1>1. call \in [Call -> {NoCall} \cup Pending \cup Done]
  BY DEF AInv, AccessTypeOK
<1>2. call'[k] = c /\ \A j \in Call \ {k} : call'[j] = call[j]
  BY <1>1
<1>3. call' \in [Call -> {NoCall} \cup Pending \cup Done]
  BY <1>1
<1> QED
  BY <1>2, <1>3 DEF AInv

\* An update that is not in the middleware any more fits.
LEMMA NoCallFits == ASSUME NEW t PROVE CallFits(NoCall, t)
BY DEF CallFits, NoCall

LEMMA EndedLapseFits ==
    ASSUME NEW c, NEW order, c.phase \in {"rate", "handled", "denied"}
    PROVE  LapseFits(c, order)
BY DEF LapseFits

LEMMA TouchStep ==
    ASSUME AInv, NEW k \in Call, NEW u \in User, NEW kind \in Kind, Touch(k, u, kind)
    PROVE  AInv'
<1> DEFINE c == [phase |-> "judge", user |-> u, kind |-> kind, row |-> users[u],
                 order |-> standing[u], at |-> 0]
<1>1. /\ call' = [call EXCEPT ![k] = c] /\ known' = known \cup {u}
      /\ UNCHANGED <<users, hits, clock, orders, standing, served>>
  BY DEF Touch
<1>2. users[u] \in UserRow /\ standing[u] \in Standing /\ RowFits(users[u], standing[u], clock)
  BY DEF AInv, AccessTypeOK
<1>3. c \in Pending
  BY <1>2 DEF Pending
<1>4. CallFits(c, clock)
  BY <1>2 DEF CallFits
<1>5. LapseFits(c, standing[c.user])
  BY <1>2 DEF LapseFits, RowFits
<1> HIDE DEF c
<1>6. /\ call' \in [Call -> {NoCall} \cup Pending \cup Done]
      /\ \A j \in Call : CallFits(call'[j], clock')
      /\ \A j \in Call : call'[j] # NoCall => LapseFits(call'[j], standing'[call'[j].user])
  BY <1>1, <1>3, <1>4, <1>5, CallStep
<1> QED
  BY <1>1, <1>6 DEF AInv, AccessTypeOK, ServedWereHit, RateHonoured

\* The two ways of judging: the ban of the row has run out, or there is a verdict.
LEMMA JudgeStep ==
    ASSUME AInv, NEW k \in Call, Judge(k)
    PROVE  AInv'
<1> DEFINE c == call[k]
           d == [c EXCEPT !.phase = "lapse", !.row = Lifted(c.row), !.at = clock]
           e == [c EXCEPT !.at = clock]
<1>1. c \in Pending /\ c.phase = "judge" /\ clock \in Nat
  BY DEF Judge, AInv, AccessTypeOK, NoCall, Done
<1>2. /\ c.row \in UserRow /\ c.order \in Standing /\ c.user \in User
      /\ RowFits(c.row, c.order, clock)
      /\ LapseFits(c, standing[c.user])
  BY <1>1 DEF Pending, AInv, CallFits, NoCall
<1>3. UNCHANGED <<users, known, hits, clock, orders, standing, served>>
  BY DEF Judge
<1>4. CASE RunOut(c.row, clock)
  <2>1. call' = [call EXCEPT ![k] = d]
    BY <1>4 DEF Judge
  <2>2. Lifted(c.row) \in UserRow /\ Lifted(c.row).status = "active"
        /\ Lifted(c.row).flags = c.row.flags
    BY <1>2 DEF Lifted, UserRow, Time
  <2>3. /\ d \in Pending
        /\ d.phase = "lapse" /\ d.row = Lifted(c.row) /\ d.at = clock /\ d.order = c.order
        /\ d.user = c.user
    BY <1>1, <2>2 DEF Pending
  <2>4. c.order.ban = "temp" /\ c.row.ban_until = c.order.until /\ ~InForce(c.order.until, clock)
    BY <1>2, <1>4 DEF RunOut, RowFits
  <2> HIDE DEF d
  <2>5. CallFits(d, clock)
    BY <1>1, <1>2, <2>2, <2>3, <2>4 DEF CallFits, RowFits
  <2>6. LapseFits(d, standing[d.user])
    BY <1>1, <1>2, <1>4, <2>3, <2>4 DEF LapseFits, RunOut
  <2> HIDE DEF c
  <2>7. /\ call' \in [Call -> {NoCall} \cup Pending \cup Done]
        /\ \A j \in Call : CallFits(call'[j], clock')
        /\ \A j \in Call : call'[j] # NoCall => LapseFits(call'[j], standing'[call'[j].user])
    BY <1>3, <2>1, <2>3, <2>5, <2>6, CallStep
  <2> QED
    BY <1>3, <2>7 DEF AInv, AccessTypeOK, ServedWereHit, RateHonoured
<1>5. CASE ~RunOut(c.row, clock)
  <2>1. call' = [call EXCEPT ![k] = Verdict(e)]
    BY <1>5 DEF Judge
  <2>2. /\ e \in Pending
        /\ e.row = c.row /\ e.order = c.order /\ e.at = clock /\ e.user = c.user
    BY <1>1 DEF Pending
  <2>3. e.row.flags = e.order.flags
    BY <1>2, <2>2 DEF RowFits
  <2>4. c.row.status \in {"active", "banned", "temporary_ban"} /\ c.order.ban \in {"none", "ban", "temp"}
    BY <1>2 DEF UserRow, Standing
  <2>5. e.row.status = "active" =>
            \/ e.order.ban = "none" \/ e.order.raced
            \/ e.order.ban = "temp" /\ ~InForce(e.order.until, e.at)
    BY <1>2, <2>2, <2>4 DEF RowFits
  <2>6. e.row.status # "active" =>
            e.order.ban = "ban" \/ (e.order.ban = "temp" /\ InForce(e.order.until, e.at))
    BY <1>1, <1>2, <1>5, <2>2, StatusIsOrdered
  <2> HIDE DEF e
  <2>7. /\ Verdict(e) \in Pending \cup Done
        /\ CallFits(Verdict(e), clock)
        /\ Verdict(e).phase \in {"rate", "handled", "denied"}
    BY <1>1, <2>2, <2>3, <2>5, <2>6, VerdictFits
  <2>8. LapseFits(Verdict(e), standing[Verdict(e).user])
    BY <2>7, EndedLapseFits
  <2>9. /\ call' \in [Call -> {NoCall} \cup Pending \cup Done]
        /\ \A j \in Call : CallFits(call'[j], clock')
        /\ \A j \in Call : call'[j] # NoCall => LapseFits(call'[j], standing'[call'[j].user])
    BY <1>3, <2>1, <2>7, <2>8, CallStep
  <2> QED
    BY <1>3, <2>9 DEF AInv, AccessTypeOK, ServedWereHit, RateHonoured
<1> QED
  BY <1>4, <1>5

\* The ban that the lapse takes back is over, or was ordered while the lapse was pending.
LEMMA LapseStep ==
    ASSUME AInv, NEW k \in Call, Lapse(k)
    PROVE  AInv'
<1> DEFINE c == call[k]
<1>1. c \in Pending /\ c.phase = "lapse" /\ clock \in Nat
  BY DEF Lapse, AInv, AccessTypeOK, NoCall, Done
<1>2. /\ c.row \in UserRow /\ c.order \in Standing /\ c.user \in User /\ c.at \in Nat
      /\ CallFits(c, clock)
      /\ LapseFits(c, standing[c.user])
  BY <1>1 DEF Pending, AInv, NoCall
<1>3. /\ users' = [users EXCEPT ![c.user] = Lifted(@)]
      /\ call' = [call EXCEPT ![k] = Verdict(c)]
      /\ UNCHANGED <<known, hits, clock, orders, standing, served>>
  BY DEF Lapse
<1>4. /\ c.row.flags = c.order.flags /\ c.row.status = "active"
      /\ c.order.ban = "temp" /\ ~InForce(c.order.until, c.at) /\ c.at <= clock
  BY <1>1, <1>2 DEF CallFits
<1>5. /\ Verdict(c) \in Pending \cup Done
      /\ CallFits(Verdict(c), clock)
      /\ Verdict(c).phase \in {"rate", "handled", "denied"}
  BY <1>1, <1>4, VerdictFits
<1>6. LapseFits(Verdict(c), standing[Verdict(c).user])
  BY <1>5, EndedLapseFits
<1>7. /\ call' \in [Call -> {NoCall} \cup Pending \cup Done]
      /\ \A j \in Call : CallFits(call'[j], clock')
      /\ \A j \in Call : call'[j] # NoCall => LapseFits(call'[j], standing'[call'[j].user])
  BY <1>3, <1>5, <1>6, CallStep
<1>8. ASSUME NEW u \in User
      PROVE  users'[u] \in UserRow /\ RowFits(users'[u], standing'[u], clock')
  <2>1. users[u] \in UserRow /\ standing[u] \in Standing /\ RowFits(users[u], standing[u], clock)
        /\ users \in [User -> UserRow]
    BY DEF AInv, AccessTypeOK
  <2>2. CASE u = c.user
    <3> DEFINE l == Lifted(users[u])
    <3>1. users'[u] = l
      BY <1>2, <1>3, <2>1, <2>2
    <3>2. l \in UserRow /\ l.status = "active" /\ l.flags = users[u].flags
      BY <2>1 DEF Lifted, UserRow, Time
    <3>3. \/ standing[u].raced \/ standing[u].ban = "none"
          \/ standing[u].ban = "temp" /\ ~InForce(standing[u].until, clock)
      <4>1. standing[u].until \in Time
        BY <2>1 DEF Standing
      <4> QED
        BY <1>1, <1>2, <1>4, <2>2, <4>1, ForceEnds DEF LapseFits
    <3> HIDE DEF l
    <3> QED
      BY <1>3, <2>1, <3>1, <3>2, <3>3 DEF RowFits
  <2>3. CASE u # c.user
    BY <1>3, <2>1, <2>3
  <2> QED
    BY <2>2, <2>3
<1>9. users' \in [User -> UserRow]
  BY <1>3, <1>8 DEF AInv, AccessTypeOK
<1> QED
  BY <1>3, <1>7, <1>8, <1>9 DEF AInv, AccessTypeOK, ServedWereHit, RateHonoured

\* Within a window the limit bounds the hits that are let through, a slowed user's more tightly.
LEMMA HitRateStep ==
    ASSUME AInv, NEW k \in Call, HitRate(k)
    PROVE  AInv'
<1> DEFINE c == call[k]
           x == <<c.kind, c.user>>
           counter == Hit(hits[x])
           e == End(c, "handled")
<1>1. c \in Pending /\ c.phase = "rate"
  BY DEF HitRate, AInv, AccessTypeOK, NoCall, Done
<1>2. /\ c.kind \in Kind /\ c.user \in User /\ c.row \in UserRow /\ c.order \in Standing
      /\ x \in RateKey /\ CallFits(c, clock)
  BY <1>1 DEF Pending, AInv, RateKey
<1>3. hits \in [RateKey -> Counter] /\ served \in [RateKey -> Served]
  BY DEF AInv, AccessTypeOK
<1>4. counter \in Counter /\ counter.count = hits[x].count + 1 /\ hits[x].count \in Nat
  BY <1>2, <1>3, HitCounts
<1>5. /\ hits' = [hits EXCEPT ![x] = counter]
      /\ UNCHANGED <<users, known, clock, orders, standing>>
  BY DEF HitRate
<1>6. /\ hits' \in [RateKey -> Counter] /\ hits'[x] = counter
      /\ \A r \in RateKey \ {x} : hits'[r] = hits[r]
  BY <1>2, <1>3, <1>4, <1>5
<1>7. CASE Allowed(counter, Limit(c.row, c.kind))
  <2>1. call' = [call EXCEPT ![k] = e] /\ Serve(c)
    BY <1>7 DEF HitRate
  <2>2. /\ e \in Done /\ e.phase = "handled" /\ e.kind = c.kind /\ e.order = c.order
        /\ e.at = c.at
    BY <1>1 DEF End, Done, Pending
  <2>3. CallFits(e, clock)
    BY <1>1, <1>2, <2>2 DEF CallFits, MayPass
  <2>4. LapseFits(e, standing[e.user])
    BY <2>2, EndedLapseFits
  <2> DEFINE more == IF "rate_limited" \in c.order.flags THEN 1 ELSE 0
             sx == [all |-> served[x].all + 1, slow |-> served[x].slow + more]
  <2>5. served' = [served EXCEPT ![x] = sx]
    BY <2>1 DEF Serve
  <2>6. served[x].all \in Nat /\ served[x].slow \in Nat
    BY <1>2, <1>3 DEF Served
  <2>7. sx \in Served
    BY <2>6 DEF Served
  <2>8. /\ sx.all = served[x].all + 1
        /\ "rate_limited" \in c.row.flags => sx.slow = served[x].slow + 1
        /\ "rate_limited" \notin c.row.flags => sx.slow = served[x].slow
    BY <1>1, <1>2, <2>6 DEF CallFits
  <2> HIDE DEF sx
  <2>9. /\ served' \in [RateKey -> Served] /\ served'[x] = sx
        /\ \A r \in RateKey \ {x} : served'[r] = served[r]
    BY <1>2, <1>3, <2>5, <2>7
  <2>10. served[x].slow <= served[x].all /\ served[x].all <= hits[x].count
    BY <1>2 DEF AInv, ServedWereHit
  <2>11. sx.slow <= sx.all /\ sx.all <= counter.count
    BY <1>4, <2>6, <2>8, <2>10
  <2>12. ServedWereHit'
    BY <1>6, <2>9, <2>11 DEF AInv, ServedWereHit
  <2>13. x[1] = c.kind /\ RateLimit[c.kind] \in Nat
    BY <1>2, AccessAssumption
  <2>14. sx.all <= Limit(c.row, c.kind) /\ Limit(c.row, c.kind) \in Nat
    BY <1>2, <1>4, <1>7, <2>6, <2>8, <2>11, LimitBounds DEF Allowed
  <2>15. sx.all <= RateLimit[c.kind]
    BY <1>2, <2>6, <2>8, <2>13, <2>14, LimitBounds
  <2>16. 2 * sx.slow <= RateLimit[c.kind] \/ sx.slow <= 1
    <3>1. CASE "rate_limited" \in c.row.flags
      <4>1. 2 * Limit(c.row, c.kind) <= RateLimit[c.kind] \/ Limit(c.row, c.kind) = 1
        BY <1>2, <3>1, LimitBounds
      <4>2. sx.slow \in Nat /\ sx.all \in Nat
        BY <2>7 DEF Served
      <4> QED
        BY <2>11, <2>13, <2>14, <4>1, <4>2, <1>4
    <3>2. CASE "rate_limited" \notin c.row.flags
      BY <1>2, <2>8, <2>13, <3>2 DEF AInv, RateHonoured
    <3> QED
      BY <3>1, <3>2
  <2>17. RateHonoured'
    BY <2>9, <2>13, <2>15, <2>16 DEF AInv, RateHonoured
  <2> HIDE DEF e, c
  <2>18. /\ call' \in [Call -> {NoCall} \cup Pending \cup Done]
         /\ \A j \in Call : CallFits(call'[j], clock')
         /\ \A j \in Call : call'[j] # NoCall => LapseFits(call'[j], standing'[call'[j].user])
    BY <1>5, <2>1, <2>2, <2>3, <2>4, CallStep
  <2> QED
    BY <1>5, <1>6, <2>9, <2>12, <2>17, <2>18 DEF AInv, AccessTypeOK
<1>8. CASE ~Allowed(counter, Limit(c.row, c.kind))
  <2>1. call' = [call EXCEPT ![k] = NoCall] /\ UNCHANGED served
    BY <1>8 DEF HitRate
  <2>2. /\ call' \in [Call -> {NoCall} \cup Pending \cup Done]
        /\ \A j \in Call : CallFits(call'[j], clock')
        /\ \A j \in Call : call'[j] # NoCall => LapseFits(call'[j], standing'[call'[j].user])
    BY <1>5, <2>1, CallStep, NoCallFits
  <2>3. ServedWereHit'
    <3> SUFFICES ASSUME NEW r \in RateKey
                 PROVE  served[r].slow <= served[r].all /\ served[r].all <= hits'[r].count
      BY <2>1 DEF ServedWereHit
    <3>1. served[r].all \in Nat /\ hits[r].count \in Nat
      BY <1>3 DEF Served, Counter
    <3>2. hits[r].count <= hits'[r].count
      BY <1>4, <1>6, <3>1
    <3> QED
      BY <1>4, <1>6, <3>1, <3>2 DEF AInv, ServedWereHit
  <2> QED
    BY <1>5, <1>6, <2>1, <2>2, <2>3 DEF AInv, AccessTypeOK, RateHonoured
<1> QED
  BY <1>7, <1>8

LEMMA RateWindowEndsStep ==
    ASSUME AInv, NEW x \in RateKey, RateWindowEnds(x)
    PROVE  AInv'
<1>1. /\ hits' = [hits EXCEPT ![x] = NoHits] /\ served' = [served EXCEPT ![x] = Unserved]
      /\ UNCHANGED <<users, known, call, clock, orders, standing>>
      /\ hits \in [RateKey -> Counter] /\ served \in [RateKey -> Served]
  BY DEF RateWindowEnds, Expired, AInv, AccessTypeOK
<1>2. NoHits \in Counter /\ NoHits.count = 0
      /\ Unserved \in Served /\ Unserved.all = 0 /\ Unserved.slow = 0
  BY DEF NoHits, Counter, Unserved, Served
<1>3. /\ hits' \in [RateKey -> Counter] /\ served' \in [RateKey -> Served]
      /\ hits'[x] = NoHits /\ served'[x] = Unserved
      /\ \A r \in RateKey \ {x} : hits'[r] = hits[r] /\ served'[r] = served[r]
  BY <1>1, <1>2
<1>4. ServedWereHit'
  BY <1>2, <1>3 DEF AInv, ServedWereHit
<1>5. RateHonoured'
  <2>1. RateLimit[x[1]] \in Nat
    BY AccessAssumption DEF RateKey
  <2> QED
    BY <1>2, <1>3, <2>1 DEF AInv, RateHonoured
<1> QED
  BY <1>1, <1>3, <1>4, <1>5 DEF AInv, AccessTypeOK

LEMMA CallLostStep ==
    ASSUME AInv, NEW k \in Call, CallLost(k)
    PROVE  AInv'
<1>1. /\ call' = [call EXCEPT ![k] = NoCall]
      /\ UNCHANGED <<users, known, hits, clock, orders, standing, served>>
  BY DEF CallLost
<1>2. /\ call' \in [Call -> {NoCall} \cup Pending \cup Done]
      /\ \A j \in Call : CallFits(call'[j], clock')
      /\ \A j \in Call : call'[j] # NoCall => LapseFits(call'[j], standing'[call'[j].user])
  BY <1>1, CallStep, NoCallFits
<1> QED
  BY <1>1, <1>2 DEF AInv, AccessTypeOK, ServedWereHit, RateHonoured

-----------------------------------------------------------------------------
(* The orders *)

\* An order keeps the invariant if the row fits it and if it spoils no pending lapse.
LEMMA OrderStep ==
    ASSUME AInv, NEW u \in User, NEW row \in UserRow, NEW order \in Standing,
           Order(u, row, order),
           RowFits(row, order, clock),
           \A k \in Call : call[k] # NoCall /\ call[k].user = u => LapseFits(call[k], order)
    PROVE  AInv'
<1>1. /\ orders' = orders + 1
      /\ users' = [users EXCEPT ![u] = row] /\ standing' = [standing EXCEPT ![u] = order]
      /\ UNCHANGED <<known, call, hits, clock, served>>
      /\ users \in [User -> UserRow] /\ standing \in [User -> Standing] /\ orders \in Nat
  BY DEF Order, AInv, AccessTypeOK
<1>2. /\ users' \in [User -> UserRow] /\ standing' \in [User -> Standing] /\ orders' \in Nat
      /\ users'[u] = row /\ standing'[u] = order
      /\ \A v \in User \ {u} : users'[v] = users[v] /\ standing'[v] = standing[v]
  BY <1>1
<1>3. \A v \in User : RowFits(users'[v], standing'[v], clock')
  BY <1>1, <1>2 DEF AInv
<1>4. ASSUME NEW k \in Call, call'[k] # NoCall
      PROVE  LapseFits(call'[k], standing'[call'[k].user])
  <2>1. call[k].user \in User /\ LapseFits(call[k], standing[call[k].user])
    BY <1>1, <1>4 DEF AInv, AccessTypeOK, Pending, Done
  <2> QED
    BY <1>1, <1>2, <1>4, <2>1
<1> QED
  BY <1>1, <1>2, <1>3, <1>4 DEF AInv, AccessTypeOK, ServedWereHit, RateHonoured

\* A ban ordered while an update may lapse an older one is marked as raced.
LEMMA RacedFits ==
    ASSUME NEW u \in User, NEW order \in Standing, order.raced = MayLapse(u),
           NEW k \in Call, call[k].user = u
    PROVE  LapseFits(call[k], order)
BY DEF LapseFits, MayLapse

LEMMA RowFields ==
    ASSUME NEW row \in UserRow
    PROVE  row.status \in {"active", "banned", "temporary_ban"} /\ row.ban_until \in Time
           /\ row.flags \in SUBSET Flag
BY DEF UserRow

LEMMA OrderFields ==
    ASSUME NEW order \in Standing
    PROVE  order.ban \in {"none", "ban", "temp"} /\ order.until \in Time
           /\ order.flags \in SUBSET Flag /\ order.raced \in BOOLEAN
BY DEF Standing

LEMMA BanStep ==
    ASSUME AInv, NEW u \in User, Ban(u)
    PROVE  AInv'
<1> DEFINE row == [users[u] EXCEPT !.status = "banned"]
           order == [standing[u] EXCEPT !.ban = "ban", !.until = NoTime, !.raced = MayLapse(u)]
<1>1. users[u] \in UserRow /\ standing[u] \in Standing /\ RowFits(users[u], standing[u], clock)
  BY DEF AInv, AccessTypeOK
<1>2. MayLapse(u) \in BOOLEAN /\ NoTime \in Time
  BY DEF MayLapse, Time
<1>3. row \in UserRow /\ row.status = "banned" /\ row.flags = users[u].flags
  BY <1>1 DEF UserRow
<1>4. /\ order \in Standing /\ order.ban = "ban" /\ order.flags = standing[u].flags
      /\ order.raced = MayLapse(u)
  BY <1>1, <1>2 DEF Standing
<1>5. Order(u, row, order)
  BY DEF Ban
<1> HIDE DEF row, order
<1>6. RowFits(row, order, clock)
  BY <1>1, <1>3, <1>4 DEF RowFits
<1>7. \A k \in Call : call[k] # NoCall /\ call[k].user = u => LapseFits(call[k], order)
  BY <1>4, RacedFits
<1> QED
  BY <1>3, <1>4, <1>5, <1>6, <1>7, OrderStep

LEMMA TempBanStep ==
    ASSUME AInv, NEW u \in User, TempBan(u)
    PROVE  AInv'
<1> DEFINE end == clock + BanTime
           row == [users[u] EXCEPT !.status = "temporary_ban", !.ban_until = end]
           order == [standing[u] EXCEPT !.ban = "temp", !.until = end, !.raced = MayLapse(u)]
<1>1. users[u] \in UserRow /\ standing[u] \in Standing /\ RowFits(users[u], standing[u], clock)
  BY DEF AInv, AccessTypeOK
<1>2. MayLapse(u) \in BOOLEAN /\ end \in Time
  BY AccessAssumption DEF MayLapse, Time, AInv, AccessTypeOK
<1>3. Order(u, row, order)
  BY DEF TempBan
<1> HIDE DEF end
<1>4. /\ row \in UserRow /\ row.status = "temporary_ban" /\ row.ban_until = end
      /\ row.flags = users[u].flags
  BY <1>1, <1>2 DEF UserRow
<1>5. /\ order \in Standing /\ order.ban = "temp" /\ order.until = end
      /\ order.flags = standing[u].flags /\ order.raced = MayLapse(u)
  BY <1>1, <1>2 DEF Standing
<1> HIDE DEF row, order
<1>6. RowFits(row, order, clock)
  BY <1>1, <1>4, <1>5 DEF RowFits
<1>7. \A k \in Call : call[k] # NoCall /\ call[k].user = u => LapseFits(call[k], order)
  BY <1>5, RacedFits
<1> QED
  BY <1>3, <1>4, <1>5, <1>6, <1>7, OrderStep

LEMMA ToggleFlagStep ==
    ASSUME AInv, NEW u \in User, NEW f \in Flag, ToggleFlag(u, f)
    PROVE  AInv'
<1> DEFINE row == [users[u] EXCEPT !.flags = Toggled(@, f)]
           order == [standing[u] EXCEPT !.flags = Toggled(@, f)]
<1>1. users[u] \in UserRow /\ standing[u] \in Standing /\ RowFits(users[u], standing[u], clock)
  BY DEF AInv, AccessTypeOK
<1>2. \A flags \in SUBSET Flag : Toggled(flags, f) \in SUBSET Flag
  BY DEF Toggled
<1>3. /\ row \in UserRow /\ row.status = users[u].status /\ row.ban_until = users[u].ban_until
      /\ row.flags = Toggled(users[u].flags, f)
  BY <1>1, <1>2 DEF UserRow
<1>4. /\ order \in Standing /\ order.ban = standing[u].ban /\ order.until = standing[u].until
      /\ order.raced = standing[u].raced /\ order.flags = Toggled(standing[u].flags, f)
  BY <1>1, <1>2 DEF Standing
<1>5. Order(u, row, order)
  BY DEF ToggleFlag
<1> HIDE DEF row, order
<1>6. RowFits(row, order, clock)
  BY <1>1, <1>3, <1>4 DEF RowFits
<1>7. \A k \in Call : call[k] # NoCall /\ call[k].user = u => LapseFits(call[k], order)
  BY <1>4 DEF AInv, LapseFits
<1> QED
  BY <1>3, <1>4, <1>5, <1>6, <1>7, OrderStep

LEMMA ClearStep ==
    ASSUME AInv, NEW u \in User, Clear(u)
    PROVE  AInv'
<1>1. NewUser \in UserRow /\ NoOrders \in Standing /\ NoOrders.ban = "none"
  BY DEF NewUser, UserRow, NoOrders, Standing, Time
<1>2. RowFits(NewUser, NoOrders, clock)
  BY DEF RowFits, NewUser, NoOrders
<1>3. \A k \in Call : LapseFits(call[k], NoOrders)
  BY <1>1 DEF LapseFits
<1> QED
  BY <1>1, <1>2, <1>3, OrderStep DEF Clear

LEMMA LaterStep ==
    ASSUME AInv, Later
    PROVE  AInv'
<1>1. /\ clock' = clock + 1 /\ clock \in Nat /\ clock' \in Nat /\ clock <= clock'
      /\ UNCHANGED <<users, known, call, hits, orders, standing, served>>
  BY DEF Later, AInv, AccessTypeOK
<1>2. \A u \in User : RowFits(users'[u], standing'[u], clock')
  BY <1>1, RowFitsLater DEF AInv, AccessTypeOK
<1>3. \A k \in Call : CallFits(call'[k], clock')
  BY <1>1, CallFitsLater DEF AInv, AccessTypeOK
<1> QED
  BY <1>1, <1>2, <1>3 DEF AInv, AccessTypeOK, ServedWereHit, RateHonoured

-----------------------------------------------------------------------------
(* The theorems *)

LEMMA AccessInitAInv == AccessInit => AInv
<1> SUFFICES ASSUME AccessInit PROVE AInv
  OBVIOUS
<1>1. /\ NewUser \in UserRow /\ NoOrders \in Standing
      /\ NoHits \in Counter /\ NoHits.count = 0
      /\ Unserved \in Served /\ Unserved.all = 0 /\ Unserved.slow = 0
  BY DEF NewUser, UserRow, NoOrders, Standing, Time, NoHits, Counter, Unserved, Served
<1>2. AccessTypeOK
  BY <1>1 DEF AccessInit, AccessTypeOK
<1>3. \A u \in User : RowFits(users[u], standing[u], clock)
  BY InitialRowFits DEF AccessInit
<1>4. \A k \in Call : CallFits(call[k], clock)
  BY NoCallFits DEF AccessInit
<1>5. \A r \in RateKey : RateLimit[r[1]] \in Nat
  BY AccessAssumption DEF RateKey
<1>6. ServedWereHit /\ RateHonoured
  BY <1>1, <1>5 DEF AccessInit, ServedWereHit, RateHonoured
<1> QED
  BY <1>2, <1>3, <1>4, <1>6 DEF AInv, AccessInit

LEMMA AccessNextAInv == AInv /\ [AccessNext]_avars => AInv'
<1> SUFFICES ASSUME AInv, [AccessNext]_avars PROVE AInv'
  OBVIOUS
<1>1. CASE \E k \in Call : Middleware(k)
  BY <1>1, TouchStep, JudgeStep, LapseStep, HitRateStep, CallLostStep DEF Middleware
<1>2. CASE \E u \in User : admin_restrict(u)
  BY <1>2, BanStep, TempBanStep, ToggleFlagStep, ClearStep DEF admin_restrict
<1>3. CASE \E r \in RateKey : RateWindowEnds(r)
  BY <1>3, RateWindowEndsStep
<1>4. CASE Later
  BY <1>4, LaterStep
<1>5. CASE UNCHANGED avars
  BY <1>5 DEF avars, AInv, AccessTypeOK, ServedWereHit, RateHonoured
<1> QED
  BY <1>1, <1>2, <1>3, <1>4, <1>5 DEF AccessNext

\* The inductive invariant holds of every behaviour of the middleware and the administrators.
THEOREM AccessInvariant == AccessSpec => []AInv
BY AccessInitAInv, AccessNextAInv, PTL DEF AccessSpec

\* Every row, counter and update in the middleware is of its type: a counter that was hit has a TTL.
THEOREM AccessTypesCorrect == AccessSpec => []AccessTypeOK
<1>1. AInv => AccessTypeOK
  BY DEF AInv
<1> QED
  BY <1>1, AccessInvariant, PTL

\* The rows say what administrators ordered, although the middleware writes back what it read.
THEOREM OrdersPrevail == AccessSpec => []OrdersStand
<1>1. AInv => OrdersStand
  BY DEF AInv, OrdersStand, RowFits
<1> QED
  BY <1>1, AccessInvariant, PTL

\* What is handled was allowed by the orders that stood when it came in.
THEOREM NothingHandledAgainstOrders == AccessSpec => []HandledAsOrdered
<1>1. AInv => HandledAsOrdered
  BY DEF AInv, HandledAsOrdered, CallFits, MayPass
<1> QED
  BY <1>1, AccessInvariant, PTL

\* Nobody is turned away without an order, and no administrator ever.
THEOREM NobodyDeniedWithoutCause == AccessSpec => []DeniedForCause
<1>1. AInv => DeniedForCause
  BY DEF AInv, DeniedForCause, CallFits, MayNotPass
<1> QED
  BY <1>1, AccessInvariant, PTL

\* A window of a counter lets no more updates through than its limit, half of it for the slowed.
THEOREM RatesHold == AccessSpec => []RateHonoured
<1>1. AInv => RateHonoured
  BY DEF AInv
<1> QED
  BY <1>1, AccessInvariant, PTL

=============================================================================
