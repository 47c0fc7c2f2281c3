----------------------------- MODULE OpenFlowProofs -----------------------------
(***************************************************************************)
(* Proofs about OpenFlow for every set of users, secrets and updates and   *)
(* for every limit. What an update still has to do is always one of the    *)
(* sequences in Todos; who has come to a certain one of them has entered   *)
(* the PIN, or confirmed, what the next step relies on. The bound on the   *)
(* attempts counts the updates between two steps: those about to verify a  *)
(* PIN and those about to record the result.                               *)
(***************************************************************************)
EXTENDS OpenFlow, SecretsProofs, FiniteSetTheorems

-----------------------------------------------------------------------------
(* What updates have to do *)

ShowSteps4 == <<"clear_state", "clear_data", "hit_user", "show">>
ShowSteps3 == <<"clear_data", "hit_user", "show">>
ShowSteps2 == <<"hit_user", "show">>
ShowSteps1 == <<"show">>
LookSteps2 == <<"hit_user", "look">>
LookSteps1 == <<"look">>
PinSteps3 == <<"which", "status_pin", "verify">>
PinSteps2 == <<"status_pin", "verify">>
PinSteps1 == <<"verify">>
ConfirmSteps1 == <<"look_confirm">>
ClearSteps1 == <<"clear_data">>
AskSteps3 == <<"status_reveal", "ask_state", "ask_data">>
AskSteps2 == <<"ask_state", "ask_data">>
AskSteps1 == <<"ask_data">>
FailSteps2 == <<"failure", "recount">>
FailSteps1 == <<"recount">>
GrantSteps4 == ProvedSteps("grant")
GrantSteps3 == <<"clear_state", "clear_data", "grant">>
GrantSteps2 == <<"clear_data", "grant">>
GrantSteps1 == <<"grant">>
OpenSteps4 == ProvedSteps("deliver")
OpenSteps3 == <<"clear_state", "clear_data", "deliver">>
OpenSteps2 == <<"clear_data", "deliver">>
OpenSteps1 == <<"deliver">>
RedeemSteps3 == <<"see_grant", "drop_grant", "deliver">>
RedeemSteps2 == <<"drop_grant", "deliver">>

Todos ==
    {ShowSteps4, ShowSteps3, ShowSteps2, ShowSteps1, LookSteps2, LookSteps1,
     PinSteps3, PinSteps2, PinSteps1, ConfirmSteps1, ClearSteps, ClearSteps1,
     AskSteps3, AskSteps2, AskSteps1, FailSteps2, FailSteps1,
     GrantSteps4, GrantSteps3, GrantSteps2, GrantSteps1,
     OpenSteps4, OpenSteps3, OpenSteps2, OpenSteps1, RedeemSteps3, RedeemSteps2}

\* The PIN was right: it remains to give the grant or to open.
AfterProof == {GrantSteps4, GrantSteps3, GrantSteps2, GrantSteps1, OpenSteps4, OpenSteps3, OpenSteps2}

\* The open is decided, no check of the handler is ahead.
BeforeOpen == {OpenSteps4, OpenSteps3, OpenSteps2, OpenSteps1, RedeemSteps2}

\* The PIN is being compared, and the result was not recorded yet.
Comparing == {FailSteps2, GrantSteps4, OpenSteps4}

Update == [todo: Todos \cup {<<>>}, user: User \cup {NoUser}, secret: Secret \cup {NoSecret},
           guess: Secret \cup {NoSecret}, ok: BOOLEAN]

-----------------------------------------------------------------------------
(* The inductive invariant *)

\* What an update t that is still at work has behind it; rs, c and h are rows, confirm, history.
Fits(t, rs, c, h) ==
    t # Free =>
        /\ t.todo \in Todos /\ t.user \in User
        /\ t.todo # PinSteps3 => t.secret \in Secret
        /\ t.todo \in AfterProof => <<t.secret, t.user>> \in h.proved
        /\ t.todo \in {ConfirmSteps1, RedeemSteps3} => <<t.secret, t.user>> \in h.confirmed
        /\ t.todo \in BeforeOpen =>
               /\ rs[t.secret].pin => <<t.secret, t.user>> \in h.proved
               /\ t.secret \in c => <<t.secret, t.user>> \in h.confirmed

\* The updates that saw the counter below the limit and will verify a PIN, and those that
\* verified one and have not told the counter.
Verifying(key) == {k \in Task : task[k].todo = PinSteps1 /\ KeyOf(k) = key}
Untold(key) == {k \in Task : task[k].todo \in Comparing /\ KeyOf(k) = key}

Slack == Cardinality(Task) * faults

\* Every PIN tried was counted, is about to be, or its update died in a crash.
GuessesCounted(key) == guesses[key] <= pinHits[key].count + Cardinality(Untold(key)) + Slack

\* The limit holds up to the updates that run at the same time.
TriesBounded(key) ==
    guesses[key] + Cardinality(Verifying(key)) + 1 <= PinMax + Cardinality(Task) + Slack

OInv ==
    /\ TypeOK
    /\ task \in [Task -> Update]
    /\ \A k \in Task : Fits(task[k], rows, confirm, history)
    /\ grants \subseteq history.proved
    /\ PinBeforeOpen
    /\ ConfirmationBeforeOpen
    /\ \A key \in Key : GuessesCounted(key) /\ TriesBounded(key)

-----------------------------------------------------------------------------
(* Lemmas about what there is to do *)

\* The first step of each sequence, and what is left after it.
LEMMA FirstSteps ==
    /\ Head(ShowSteps4) = "clear_state" /\ ShowSteps4 # <<>>
    /\ Head(ShowSteps3) = "clear_data" /\ ShowSteps3 # <<>>
    /\ Head(ShowSteps2) = "hit_user" /\ ShowSteps2 # <<>>
    /\ Head(ShowSteps1) = "show" /\ ShowSteps1 # <<>>
    /\ Head(LookSteps2) = "hit_user" /\ LookSteps2 # <<>>
    /\ Head(LookSteps1) = "look" /\ LookSteps1 # <<>>
    /\ Head(PinSteps3) = "which" /\ PinSteps3 # <<>>
    /\ Head(PinSteps2) = "status_pin" /\ PinSteps2 # <<>>
    /\ Head(PinSteps1) = "verify" /\ PinSteps1 # <<>>
    /\ Head(ConfirmSteps1) = "look_confirm" /\ ConfirmSteps1 # <<>>
    /\ Head(AskSteps3) = "status_reveal" /\ AskSteps3 # <<>>
    /\ Head(AskSteps2) = "ask_state" /\ AskSteps2 # <<>>
    /\ Head(AskSteps1) = "ask_data" /\ AskSteps1 # <<>>
    /\ Head(FailSteps2) = "failure" /\ FailSteps2 # <<>>
    /\ Head(FailSteps1) = "recount" /\ FailSteps1 # <<>>
    /\ Head(GrantSteps4) = "forgive" /\ GrantSteps4 # <<>>
    /\ Head(GrantSteps3) = "clear_state" /\ GrantSteps3 # <<>>
    /\ Head(GrantSteps2) = "clear_data" /\ GrantSteps2 # <<>>
    /\ Head(GrantSteps1) = "grant" /\ GrantSteps1 # <<>>
    /\ Head(OpenSteps4) = "forgive" /\ OpenSteps4 # <<>>
    /\ Head(OpenSteps3) = "clear_state" /\ OpenSteps3 # <<>>
    /\ Head(OpenSteps2) = "clear_data" /\ OpenSteps2 # <<>>
    /\ Head(OpenSteps1) = "deliver" /\ OpenSteps1 # <<>>
    /\ Head(RedeemSteps3) = "see_grant" /\ RedeemSteps3 # <<>>
    /\ Head(RedeemSteps2) = "drop_grant" /\ RedeemSteps2 # <<>>
    /\ Head(ClearSteps) = "clear_state" /\ ClearSteps # <<>>
    /\ Head(ClearSteps1) = "clear_data" /\ ClearSteps1 # <<>>
BY DEF ShowSteps4, ShowSteps3, ShowSteps2, ShowSteps1, LookSteps2, LookSteps1, PinSteps3,
       PinSteps2, PinSteps1, ConfirmSteps1, AskSteps3, AskSteps2, AskSteps1, FailSteps2,
       FailSteps1, GrantSteps4, GrantSteps3, GrantSteps2, GrantSteps1, OpenSteps4, OpenSteps3,
       OpenSteps2, OpenSteps1, RedeemSteps3, RedeemSteps2, ClearSteps, ClearSteps1, ProvedSteps

LEMMA RemainingSteps ==
    /\ Tail(ShowSteps4) = ShowSteps3
    /\ Tail(ShowSteps3) = ShowSteps2
    /\ Tail(ShowSteps2) = ShowSteps1
    /\ Tail(ShowSteps1) = <<>>
    /\ Tail(LookSteps2) = LookSteps1
    /\ Tail(LookSteps1) = <<>>
    /\ Tail(PinSteps3) = PinSteps2
    /\ Tail(PinSteps2) = PinSteps1
    /\ Tail(PinSteps1) = <<>>
    /\ Tail(ConfirmSteps1) = <<>>
    /\ Tail(AskSteps3) = AskSteps2
    /\ Tail(AskSteps2) = AskSteps1
    /\ Tail(AskSteps1) = <<>>
    /\ Tail(FailSteps2) = FailSteps1
    /\ Tail(FailSteps1) = <<>>
    /\ Tail(GrantSteps4) = GrantSteps3
    /\ Tail(GrantSteps3) = GrantSteps2
    /\ Tail(GrantSteps2) = GrantSteps1
    /\ Tail(GrantSteps1) = <<>>
    /\ Tail(OpenSteps4) = OpenSteps3
    /\ Tail(OpenSteps3) = OpenSteps2
    /\ Tail(OpenSteps2) = OpenSteps1
    /\ Tail(OpenSteps1) = <<>>
    /\ Tail(RedeemSteps3) = RedeemSteps2
    /\ Tail(RedeemSteps2) = OpenSteps1
    /\ Tail(ClearSteps) = ClearSteps1
    /\ Tail(ClearSteps1) = <<>>
BY DEF ShowSteps4, ShowSteps3, ShowSteps2, ShowSteps1, LookSteps2, LookSteps1, PinSteps3,
       PinSteps2, PinSteps1, ConfirmSteps1, AskSteps3, AskSteps2, AskSteps1, FailSteps2,
       FailSteps1, GrantSteps4, GrantSteps3, GrantSteps2, GrantSteps1, OpenSteps4, OpenSteps3,
       OpenSteps2, OpenSteps1, RedeemSteps3, RedeemSteps2, ClearSteps, ClearSteps1, ProvedSteps

\* Every sequence but the last of one goes on with another; what holds of an update before a
\* step that just goes on still holds after it.
LEMMA Remainder ==
    ASSUME NEW todo \in Todos
    PROVE  /\ todo # <<>>
           /\ Tail(todo) \in Todos \cup {<<>>}
           /\ Tail(todo) \in AfterProof => todo \in AfterProof
           /\ Tail(todo) \notin {PinSteps3, ConfirmSteps1, RedeemSteps3}
           /\ Tail(todo) \in BeforeOpen => todo \in BeforeOpen \cup {RedeemSteps3}
           /\ Tail(todo) = PinSteps1 => todo = PinSteps2
           /\ Tail(todo) \notin Comparing
<1>1. todo # <<>>
  BY FirstSteps DEF Todos
<1>2. Tail(todo) \in {<<>>, ShowSteps3, ShowSteps2, ShowSteps1, LookSteps1, PinSteps2, PinSteps1,
                      ClearSteps1, AskSteps2, AskSteps1, FailSteps1, GrantSteps3, GrantSteps2,
                      GrantSteps1, OpenSteps3, OpenSteps2, OpenSteps1, RedeemSteps2}
  <2>1. CASE todo \in {ShowSteps4, ShowSteps3, ShowSteps2, ShowSteps1, LookSteps2, LookSteps1,
                       PinSteps3, PinSteps2, PinSteps1, ConfirmSteps1, ClearSteps, ClearSteps1}
    BY <2>1, RemainingSteps
  <2>2. CASE todo \in {AskSteps3, AskSteps2, AskSteps1, FailSteps2, FailSteps1,
                       GrantSteps4, GrantSteps3, GrantSteps2, GrantSteps1}
    BY <2>2, RemainingSteps
  <2>3. CASE todo \in {OpenSteps4, OpenSteps3, OpenSteps2, OpenSteps1, RedeemSteps3, RedeemSteps2}
    BY <2>3, RemainingSteps
  <2> QED
    BY <2>1, <2>2, <2>3 DEF Todos
<1>3. Tail(todo) \in Todos \cup {<<>>}
  BY <1>2 DEF Todos
<1>4. Tail(todo) \in AfterProof => todo \in AfterProof
  <2>1. ASSUME todo \in {ShowSteps4, ShowSteps3, ShowSteps2, ShowSteps1, LookSteps2, LookSteps1,
                         PinSteps3, PinSteps2, PinSteps1, ConfirmSteps1, ClearSteps, ClearSteps1,
                         AskSteps3, AskSteps2, AskSteps1, FailSteps2, FailSteps1,
                         OpenSteps1, RedeemSteps3, RedeemSteps2}
        PROVE  Tail(todo) \in {<<>>, ShowSteps3, ShowSteps2, ShowSteps1, LookSteps1, PinSteps2,
                               PinSteps1, ClearSteps1, AskSteps2, AskSteps1, FailSteps1,
                               RedeemSteps2, OpenSteps1}
    BY <2>1, RemainingSteps
  <2>2. AfterProof \cap {<<>>, ShowSteps3, ShowSteps2, ShowSteps1, LookSteps1, PinSteps2,
                         PinSteps1, ClearSteps1, AskSteps2, AskSteps1, FailSteps1,
                         RedeemSteps2, OpenSteps1} = {}
    BY FirstSteps, RemainingSteps DEF AfterProof
  <2> QED
    BY <2>1, <2>2 DEF Todos, AfterProof
<1>5. Tail(todo) \notin {PinSteps3, ConfirmSteps1, RedeemSteps3}
  <2>1. Tail(todo) # <<>> => Head(Tail(todo)) \notin {"which", "look_confirm", "see_grant"}
    <3>1. CASE Tail(todo) \in {<<>>, ShowSteps3, ShowSteps2, ShowSteps1, LookSteps1, PinSteps2,
                               PinSteps1, ClearSteps1, AskSteps2}
      BY <3>1, FirstSteps
    <3>2. CASE Tail(todo) \in {AskSteps1, FailSteps1, GrantSteps3, GrantSteps2, GrantSteps1,
                               OpenSteps3, OpenSteps2, OpenSteps1, RedeemSteps2}
      BY <3>2, FirstSteps
    <3> QED
      BY <1>2, <3>1, <3>2
  <2>2. /\ PinSteps3 # <<>> /\ Head(PinSteps3) = "which"
        /\ ConfirmSteps1 # <<>> /\ Head(ConfirmSteps1) = "look_confirm"
        /\ RedeemSteps3 # <<>> /\ Head(RedeemSteps3) = "see_grant"
    BY FirstSteps
  <2> QED
    BY <2>1, <2>2
<1>6. Tail(todo) \in BeforeOpen => todo \in BeforeOpen \cup {RedeemSteps3}
  <2>1. ASSUME todo \in {ShowSteps4, ShowSteps3, ShowSteps2, ShowSteps1, LookSteps2, LookSteps1,
                         PinSteps3, PinSteps2, PinSteps1, ConfirmSteps1, ClearSteps, ClearSteps1,
                         AskSteps3, AskSteps2, AskSteps1, FailSteps2, FailSteps1,
                         GrantSteps4, GrantSteps3, GrantSteps2, GrantSteps1}
        PROVE  Tail(todo) \in {<<>>, ShowSteps3, ShowSteps2, ShowSteps1, LookSteps1, PinSteps2,
                               PinSteps1, ClearSteps1, AskSteps2, AskSteps1, FailSteps1,
                               GrantSteps3, GrantSteps2, GrantSteps1}
    BY <2>1, RemainingSteps
  <2>2. BeforeOpen \cap {<<>>, ShowSteps3, ShowSteps2, ShowSteps1, LookSteps1, PinSteps2,
                         PinSteps1, ClearSteps1, AskSteps2, AskSteps1, FailSteps1,
                         GrantSteps3, GrantSteps2, GrantSteps1} = {}
    BY FirstSteps, RemainingSteps DEF BeforeOpen
  <2> QED
    BY <2>1, <2>2 DEF Todos, BeforeOpen
<1>7. Tail(todo) = PinSteps1 => todo = PinSteps2
  <2>1. ASSUME todo \in Todos \ {PinSteps2}
        PROVE  Tail(todo) \in {<<>>, ShowSteps3, ShowSteps2, ShowSteps1, LookSteps1, PinSteps2,
                               ClearSteps1, AskSteps2, AskSteps1, FailSteps1, GrantSteps3,
                               GrantSteps2, GrantSteps1, OpenSteps3, OpenSteps2, OpenSteps1,
                               RedeemSteps2}
    <3>1. CASE todo \in {ShowSteps4, ShowSteps3, ShowSteps2, ShowSteps1, LookSteps2, LookSteps1,
                         PinSteps3, PinSteps1, ConfirmSteps1, ClearSteps, ClearSteps1}
      BY <3>1, RemainingSteps
    <3>2. CASE todo \in {AskSteps3, AskSteps2, AskSteps1, FailSteps2, FailSteps1,
                         GrantSteps4, GrantSteps3, GrantSteps2, GrantSteps1}
      BY <3>2, RemainingSteps
    <3>3. CASE todo \in {OpenSteps4, OpenSteps3, OpenSteps2, OpenSteps1, RedeemSteps3, RedeemSteps2}
      BY <3>3, RemainingSteps
    <3> QED
      BY <2>1, <3>1, <3>2, <3>3 DEF Todos
  <2> QED
    BY <2>1, FirstSteps
<1>8. Tail(todo) \notin Comparing
  <2>1. Tail(todo) # <<>> => Head(Tail(todo)) \notin {"failure", "forgive"}
    <3>1. CASE Tail(todo) \in {<<>>, ShowSteps3, ShowSteps2, ShowSteps1, LookSteps1, PinSteps2,
                               PinSteps1, ClearSteps1, AskSteps2}
      BY <3>1, FirstSteps
    <3>2. CASE Tail(todo) \in {AskSteps1, FailSteps1, GrantSteps3, GrantSteps2, GrantSteps1,
                               OpenSteps3, OpenSteps2, OpenSteps1, RedeemSteps2}
      BY <3>2, FirstSteps
    <3> QED
      BY <1>2, <3>1, <3>2
  <2>2. \A t \in Comparing : t # <<>> /\ Head(t) \in {"failure", "forgive"}
    BY FirstSteps DEF Comparing
  <2> QED
    BY <2>1, <2>2
<1> QED
  BY <1>1, <1>3, <1>4, <1>5, <1>6, <1>7, <1>8

\* Which sequences an update may be in, by the step it is at.
LEMMA TodoOfStep ==
    ASSUME NEW todo \in Todos
    PROVE  /\ Head(todo) = "clear_state" => todo \in {ShowSteps4, ClearSteps, GrantSteps3, OpenSteps3}
           /\ Head(todo) = "clear_data" => todo \in {ShowSteps3, ClearSteps1, GrantSteps2, OpenSteps2}
           /\ Head(todo) = "hit_user" => todo \in {ShowSteps2, LookSteps2}
           /\ Head(todo) = "show" => todo = ShowSteps1
           /\ Head(todo) = "look" => todo = LookSteps1
           /\ Head(todo) = "which" => todo = PinSteps3
           /\ Head(todo) = "status_pin" => todo = PinSteps2
           /\ Head(todo) = "verify" => todo = PinSteps1
           /\ Head(todo) = "look_confirm" => todo = ConfirmSteps1
           /\ Head(todo) = "status_reveal" => todo = AskSteps3
           /\ Head(todo) = "ask_state" => todo = AskSteps2
           /\ Head(todo) = "ask_data" => todo = AskSteps1
           /\ Head(todo) = "failure" => todo = FailSteps2
           /\ Head(todo) = "recount" => todo = FailSteps1
           /\ Head(todo) = "forgive" => todo \in {GrantSteps4, OpenSteps4}
           /\ Head(todo) = "grant" => todo = GrantSteps1
           /\ Head(todo) = "deliver" => todo = OpenSteps1
           /\ Head(todo) = "see_grant" => todo = RedeemSteps3
           /\ Head(todo) = "drop_grant" => todo = RedeemSteps2
BY FirstSteps DEF Todos

\* The sequences that the bound on the attempts counts.
Attempting == Comparing \cup {PinSteps1}

\* The sequences that rest on nothing an update did before.
LEMMA NothingProved ==
    ASSUME NEW todo \in {ShowSteps4, LookSteps2, PinSteps3, ConfirmSteps1, ClearSteps, AskSteps3}
    PROVE  todo \notin Attempting /\ todo \notin AfterProof /\ todo \notin BeforeOpen
           /\ todo # RedeemSteps3
<1>1. ShowSteps2 # OpenSteps1 /\ ShowSteps2 # GrantSteps1 /\ <<>> # OpenSteps1 /\ <<>> # GrantSteps1
  BY FirstSteps
<1>2. /\ ShowSteps3 # OpenSteps2 /\ ShowSteps3 # GrantSteps2
      /\ ClearSteps1 # OpenSteps2 /\ ClearSteps1 # GrantSteps2
  BY <1>1, RemainingSteps
<1>3. /\ ShowSteps4 # OpenSteps3 /\ ShowSteps4 # GrantSteps3
      /\ ClearSteps # OpenSteps3 /\ ClearSteps # GrantSteps3
  BY <1>2, RemainingSteps
<1>4. todo \notin Attempting /\ todo # RedeemSteps3
  BY FirstSteps DEF Attempting, Comparing
<1>5. todo \notin AfterProof
  BY <1>3, FirstSteps DEF AfterProof
<1>6. todo \notin BeforeOpen
  BY <1>3, FirstSteps DEF BeforeOpen
<1> QED
  BY <1>4, <1>5, <1>6

-----------------------------------------------------------------------------
(* Updates *)

LEMMA FreeUpdate == Free \in Update /\ Free.todo = <<>>
BY DEF Free, Update

\* An update at a step is at work, on one of the sequences that begin with the step.
LEMMA AtStepTodo ==
    ASSUME OInv, NEW k \in Task, NEW op, AtStep(k, op)
    PROVE  /\ task[k] \in Update /\ task[k] # Free
           /\ task[k].todo \in Todos /\ Head(task[k].todo) = op
           /\ task[k].user \in User
           /\ Fits(task[k], rows, confirm, history)
<1>1. task[k] \in Update /\ task[k] # Free /\ Head(task[k].todo) = op
  BY DEF OInv, AtStep
<1>2. Fits(task[k], rows, confirm, history)
  BY DEF OInv
<1> QED
  BY <1>1, <1>2 DEF Fits

\* What becomes of the update that takes a step.
LEMMA Resumed ==
    ASSUME NEW k \in Task, NEW t \in Update, NEW todo \in Todos \cup {<<>>}, Resume(k, t, todo),
           \A x \in Todos : x # <<>>
    PROVE  \E n \in Update :
               /\ task' = [task EXCEPT ![k] = n]
               /\ n.todo = todo
               /\ n # Free => n.todo \in Todos /\ n.user = t.user /\ n.secret = t.secret
<1>1. CASE todo = <<>>
  BY <1>1, FreeUpdate DEF Resume
<1>2. CASE todo # <<>>
  <2> DEFINE n == [t EXCEPT !.todo = todo]
  <2>1. n \in Update /\ n.todo = todo /\ n.user = t.user /\ n.secret = t.secret
    BY DEF Update
  <2>2. task' = [task EXCEPT ![k] = n]
    BY <1>2 DEF Resume
  <2> QED
    BY <1>2, <2>1, <2>2
<1> QED
  BY <1>1, <1>2

\* A step of one update leaves the others where they are, unless it takes back what they rely on.
LEMMA OthersFit ==
    ASSUME OInv, NEW k \in Task, NEW n \in Update,
           task' = [task EXCEPT ![k] = n],
           Fits(n, rows', confirm', history'),
           UNCHANGED confirm,
           \A s \in Secret : rows'[s].pin => rows[s].pin,
           history.proved \subseteq history'.proved, history.confirmed \subseteq history'.confirmed
    PROVE  /\ task' \in [Task -> Update]
           /\ \A j \in Task : Fits(task'[j], rows', confirm', history')
<1>1. task \in [Task -> Update]
  BY DEF OInv
<1>2. task' \in [Task -> Update] /\ task'[k] = n /\ \A j \in Task \ {k} : task'[j] = task[j]
  BY <1>1
<1>3. ASSUME NEW j \in Task \ {k}
      PROVE  Fits(task[j], rows', confirm', history')
  <2>1. Fits(task[j], rows, confirm, history)
    BY DEF OInv
  <2>2. task[j].todo \in BeforeOpen => task[j].todo # PinSteps3
    BY FirstSteps DEF BeforeOpen
  <2> QED
    BY <2>1, <2>2 DEF Fits
<1> QED
  BY <1>2, <1>3

LEMMA SameCounts ==
    ASSUME OInv, NEW k \in Task, NEW n \in Update,
           task' = [task EXCEPT ![k] = n],
           task[k].todo \notin Attempting, n.todo \notin Attempting
    PROVE  \A key \in Key : Verifying(key)' = Verifying(key) /\ Untold(key)' = Untold(key)
<1>1. task'[k] = n /\ \A j \in Task \ {k} : task'[j] = task[j]
  BY DEF OInv
<1> QED
  BY <1>1 DEF Verifying, Untold, KeyOf, Attempting

\* The bound on the attempts depends on nothing else.
LEMMA SameBounds ==
    ASSUME OInv, UNCHANGED <<guesses, pinHits, faults>>,
           \A key \in Key : Verifying(key)' = Verifying(key) /\ Untold(key)' = Untold(key)
    PROVE  \A key \in Key : GuessesCounted(key)' /\ TriesBounded(key)'
BY DEF OInv, GuessesCounted, TriesBounded, Slack

\* A step that just goes on.
LEMMA GoesOn ==
    ASSUME OInv, NEW k \in Task, NEW op, AtStep(k, op), NEW t \in Update,
           t.user = task[k].user, t.secret = task[k].secret,
           Resume(k, t, Tail(task[k].todo)),
           op # "see_grant", op # "which"
    PROVE  \E n \in Update :
               /\ task' = [task EXCEPT ![k] = n]
               /\ n.todo = Tail(task[k].todo)
               /\ n # Free => n.user = task[k].user /\ n.secret = task[k].secret
               /\ Fits(n, rows, confirm, history)
               /\ n.todo \notin Comparing
               /\ op # "status_pin" => n.todo # PinSteps1
<1> DEFINE todo == task[k].todo
<1>1. /\ task[k] \in Update /\ task[k] # Free /\ todo \in Todos /\ Head(todo) = op
      /\ task[k].user \in User /\ Fits(task[k], rows, confirm, history)
  BY AtStepTodo
<1>2. todo # PinSteps3 /\ todo # RedeemSteps3
  BY <1>1, FirstSteps
<1>3. \A x \in Todos : x # <<>>
  BY Remainder
<1>4. /\ Tail(todo) \in Todos \cup {<<>>}
      /\ Tail(todo) \in AfterProof => todo \in AfterProof
      /\ Tail(todo) \notin {PinSteps3, ConfirmSteps1, RedeemSteps3}
      /\ Tail(todo) \in BeforeOpen => todo \in BeforeOpen
      /\ Tail(todo) = PinSteps1 => todo = PinSteps2
      /\ Tail(todo) \notin Comparing
  BY <1>1, <1>2, Remainder
<1>5. PICK n \in Update :
          /\ task' = [task EXCEPT ![k] = n]
          /\ n.todo = Tail(todo)
          /\ n # Free => n.todo \in Todos /\ n.user = t.user /\ n.secret = t.secret
  <2> DEFINE rest == Tail(todo)
  <2>1. rest \in Todos \cup {<<>>} /\ Resume(k, t, rest)
    BY <1>4
  <2> HIDE DEF rest
  <2>2. \E n \in Update :
            /\ task' = [task EXCEPT ![k] = n]
            /\ n.todo = rest
            /\ n # Free => n.todo \in Todos /\ n.user = t.user /\ n.secret = t.secret
    BY ONLY <1>3, <2>1, Resumed, t \in Update, k \in Task
  <2> QED
    BY <2>2 DEF rest
<1>6. Fits(n, rows, confirm, history)
  BY <1>1, <1>2, <1>4, <1>5 DEF Fits
<1>7. op # "status_pin" => n.todo # PinSteps1
  BY <1>1, <1>4, <1>5, FirstSteps
<1> QED
  BY <1>4, <1>5, <1>6, <1>7

\* A step that ends the update.
LEMMA Returns ==
    ASSUME NEW k \in Task, Return(k)
    PROVE  /\ task' = [task EXCEPT ![k] = Free]
           /\ Fits(Free, rows', confirm', history')
BY DEF Return, Goto, Resume, Fits

-----------------------------------------------------------------------------
(* Steps that touch no attempt *)

\* A step of an update that compares no PIN, before it and after it, and touches no row.
LEMMA QuietStep ==
    ASSUME OInv, NEW k \in Task, NEW n \in Update,
           task' = [task EXCEPT ![k] = n],
           Fits(n, rows', confirm', history'),
           task[k].todo \notin Attempting, n.todo \notin Attempting,
           UNCHANGED <<rows, confirm, guesses, pinHits, faults, opened>>,
           history' \in [proved: SUBSET Key, confirmed: SUBSET Key],
           history.proved \subseteq history'.proved, history.confirmed \subseteq history'.confirmed,
           grants' \subseteq history'.proved,
           userHits' \in [User -> Counter], tokenHits' \in [Secret -> Counter],
           shown' \subseteq Key, asked' \subseteq Key, fsm' \subseteq User,
           target' \in [User -> Secret \cup {NoSecret}],
           updates' \in Nat, events' \in Nat
    PROVE  OInv'
<1>1. /\ task' \in [Task -> Update]
      /\ \A j \in Task : Fits(task'[j], rows', confirm', history')
  BY OthersFit
<1>2. \A key \in Key : GuessesCounted(key)' /\ TriesBounded(key)'
  BY SameCounts, SameBounds
<1>3. TypeOK'
  BY <1>1 DEF OInv, TypeOK, Update
<1> QED
  BY <1>1, <1>2, <1>3 DEF OInv, PinBeforeOpen, ConfirmationBeforeOpen

\* An update arrives.
LEMMA AcceptStep ==
    ASSUME OInv, NEW k \in Task, NEW t \in Update, NEW todo \in {ShowSteps4, LookSteps2, PinSteps3, ConfirmSteps1},
           Accept(k, t, todo),
           t.user \in User, todo # PinSteps3 => t.secret \in Secret,
           history' \in [proved: SUBSET Key, confirmed: SUBSET Key],
           history'.proved = history.proved, history.confirmed \subseteq history'.confirmed,
           todo = ConfirmSteps1 => <<t.secret, t.user>> \in history'.confirmed
    PROVE  OInv'
<1> DEFINE n == [t EXCEPT !.todo = todo]
<1>1. /\ task[k] = Free /\ task' = [task EXCEPT ![k] = n]
      /\ updates' = updates + 1
      /\ UNCHANGED <<secrets, counters, grants, dialogue, buttons, faults, events, guesses, opened>>
  BY DEF Accept
<1>2. todo \in Todos
  BY DEF Todos
<1>3. /\ n \in Update /\ n.todo = todo /\ n.user = t.user /\ n.secret = t.secret
  BY <1>2 DEF Update
<1> HIDE DEF n
<1>4. todo \notin Attempting /\ todo \notin AfterProof /\ todo \notin BeforeOpen /\ todo # RedeemSteps3
  BY NothingProved
<1>5. Fits(n, rows', confirm', history')
  BY <1>2, <1>3, <1>4 DEF Fits
<1>6. task[k].todo \notin Attempting
  BY <1>1, FreeUpdate, FirstSteps DEF Attempting, Comparing
<1>7. /\ UNCHANGED <<rows, confirm, guesses, pinHits, faults, opened>>
      /\ UNCHANGED <<grants, userHits, tokenHits, shown, asked, fsm, target, events>>
  BY <1>1 DEF secrets, counters, dialogue, buttons
<1>8. updates' \in Nat
  BY <1>1 DEF OInv, TypeOK
<1> QED
  BY <1>1, <1>3, <1>4, <1>5, <1>6, <1>7, <1>8, QuietStep DEF OInv, TypeOK

LEMMA ReceiveStep ==
    ASSUME OInv, NEW k \in Task, Receive(k)
    PROVE  OInv'
<1>1. history \in [proved: SUBSET Key, confirmed: SUBSET Key]
  BY DEF OInv, TypeOK
<1>2. ASSUME NEW u \in User, NEW s \in Secret, Start(k, u, s) \/ PressReveal(k, u, s) \/ PressConfirm(k, u, s)
      PROVE  OInv'
  <2> DEFINE t == [Free EXCEPT !.user = u, !.secret = s]
  <2>1. t \in Update /\ t.user = u /\ t.secret = s
    BY DEF Free, Update
  <2> HIDE DEF t
  <2>2. CASE Start(k, u, s)
    <3>1. Accept(k, t, ShowSteps4) /\ UNCHANGED history
      BY <2>2 DEF Start, ShowSteps4, t
    <3> QED
      BY <1>1, <2>1, <3>1, FirstSteps, AcceptStep
  <2>3. CASE PressReveal(k, u, s)
    <3>1. Accept(k, t, LookSteps2) /\ UNCHANGED history
      BY <2>3 DEF PressReveal, LookSteps2, t
    <3> QED
      BY <1>1, <2>1, <3>1, FirstSteps, AcceptStep
  <2>4. CASE PressConfirm(k, u, s)
    <3>1. Accept(k, t, ConfirmSteps1)
          /\ history' = [history EXCEPT !.confirmed = @ \cup {<<s, u>>}]
      BY <2>4 DEF PressConfirm, ConfirmSteps1, t
    <3>2. <<s, u>> \in Key
      BY DEF Key
    <3>3. /\ history' \in [proved: SUBSET Key, confirmed: SUBSET Key]
          /\ history'.proved = history.proved
          /\ history'.confirmed = history.confirmed \cup {<<s, u>>}
      BY <1>1, <3>1, <3>2
    <3> QED
      BY <2>1, <3>1, <3>3, AcceptStep
  <2> QED
    BY <1>2, <2>2, <2>3, <2>4
<1>3. ASSUME NEW u \in User, NEW guess \in Secret, EnterPin(k, u, guess)
      PROVE  OInv'
  <2> DEFINE t == [Free EXCEPT !.user = u, !.guess = guess]
  <2>1. t \in Update /\ t.user = u
    BY DEF Free, Update
  <2> HIDE DEF t
  <2>2. Accept(k, t, PinSteps3) /\ UNCHANGED history
    BY <1>3 DEF EnterPin, PinSteps3, t
  <2> QED
    BY <1>1, <2>1, <2>2, FirstSteps, AcceptStep
<1> QED
  BY <1>2, <1>3 DEF Receive

\* A step that goes on and is not one of an attempt: what it does to the rest of the state is
\* left to the caller.
LEMMA QuietGoesOn ==
    ASSUME OInv, NEW k \in Task, NEW op, AtStep(k, op), NEW t \in Update,
           t.user = task[k].user, t.secret = task[k].secret,
           Resume(k, t, Tail(task[k].todo)),
           op \notin {"see_grant", "which", "status_pin", "verify", "failure", "forgive"},
           UNCHANGED <<rows, confirm, guesses, pinHits, faults, opened, history, updates, events>>,
           grants' \subseteq history.proved,
           userHits' \in [User -> Counter], tokenHits' \in [Secret -> Counter],
           shown' \subseteq Key, asked' \subseteq Key, fsm' \subseteq User,
           target' \in [User -> Secret \cup {NoSecret}]
    PROVE  OInv'
<1>1. PICK n \in Update :
          /\ task' = [task EXCEPT ![k] = n]
          /\ Fits(n, rows, confirm, history)
          /\ n.todo \notin Comparing /\ n.todo # PinSteps1
  BY GoesOn
<1>2. task[k].todo \notin Attempting
  BY AtStepTodo, FirstSteps DEF Attempting, Comparing
<1>3. n.todo \notin Attempting
  BY <1>1 DEF Attempting
<1>4. Fits(n, rows', confirm', history')
  BY <1>1
<1>5. /\ history' \in [proved: SUBSET Key, confirmed: SUBSET Key]
      /\ updates' \in Nat /\ events' \in Nat
  BY DEF OInv, TypeOK
<1> QED
  BY <1>1, <1>2, <1>3, <1>4, <1>5, QuietStep

\* A step that turns to a sequence which rests on nothing, or ends the update.
LEMMA QuietGoto ==
    ASSUME OInv, NEW k \in Task, NEW op, AtStep(k, op),
           NEW todo \in {ClearSteps, AskSteps3, <<>>}, Goto(k, todo),
           op \notin {"which", "verify", "failure", "forgive"},
           UNCHANGED <<rows, confirm, guesses, pinHits, faults, opened, history, updates, events,
                       grants, userHits, fsm, target>>,
           tokenHits' \in [Secret -> Counter], shown' \subseteq Key, asked' \subseteq Key
    PROVE  OInv'
<1>1. /\ task[k] \in Update /\ task[k] # Free /\ task[k].user \in User
      /\ task[k].todo \in Todos /\ Head(task[k].todo) = op
      /\ Fits(task[k], rows, confirm, history)
  BY AtStepTodo
<1>2. task[k].todo # PinSteps3 /\ task[k].todo \notin Attempting
  BY <1>1, FirstSteps DEF Attempting, Comparing
<1>3. task[k].secret \in Secret
  BY <1>1, <1>2 DEF Fits
<1>4. /\ todo \in Todos \cup {<<>>}
      /\ todo # <<>> => /\ todo \notin Attempting /\ todo \notin AfterProof
                        /\ todo \notin BeforeOpen /\ todo # RedeemSteps3
      /\ todo # ConfirmSteps1
  BY NothingProved, FirstSteps DEF Todos
<1>5. <<>> \notin Attempting /\ \A x \in Todos : x # <<>>
  BY Remainder, FirstSteps DEF Attempting, Comparing
<1>6. PICK n \in Update :
          /\ task' = [task EXCEPT ![k] = n]
          /\ n.todo = todo
          /\ n # Free => n.todo \in Todos /\ n.user = task[k].user /\ n.secret = task[k].secret
  <2>1. Resume(k, task[k], todo)
    BY DEF Goto
  <2> DEFINE t == task[k]
  <2>2. t \in Update /\ Resume(k, t, todo)
    BY <1>1, <2>1
  <2> HIDE DEF t
  <2>3. \E n \in Update :
            /\ task' = [task EXCEPT ![k] = n]
            /\ n.todo = todo
            /\ n # Free => n.todo \in Todos /\ n.user = t.user /\ n.secret = t.secret
    BY <1>4, <1>5, <2>2, Resumed
  <2> QED
    BY <2>3 DEF t
<1>7. Fits(n, rows', confirm', history')
  BY <1>1, <1>3, <1>4, <1>5, <1>6 DEF Fits
<1>8. n.todo \notin Attempting
  BY <1>4, <1>5, <1>6
<1>9. /\ history' \in [proved: SUBSET Key, confirmed: SUBSET Key]
      /\ grants' \subseteq history'.proved
      /\ userHits' \in [User -> Counter] /\ fsm' \subseteq User
      /\ target' \in [User -> Secret \cup {NoSecret}]
      /\ updates' \in Nat /\ events' \in Nat
  BY DEF OInv, TypeOK
<1> QED
  BY <1>2, <1>6, <1>7, <1>8, <1>9, QuietStep

\* INCR, EXPIRE and the comparison keep counters counters.
LEMMA HitCounts ==
    ASSUME NEW c \in Counter
    PROVE  Hit(c) \in Counter /\ Hit(c).count = c.count + 1 /\ c.count \in Nat
<1>1. c.count \in Nat /\ c.ttl \in BOOLEAN /\ (c.count > 0 => c.ttl)
  BY DEF Counter
<1> DEFINE d == [count |-> c.count + 1, ttl |-> c.ttl \/ c.count = 0]
<1>2. (c.ttl \/ c.count = 0) = TRUE
  BY <1>1
<1>3. d.ttl = TRUE
  BY <1>2
<1>4. d \in [count: Nat, ttl: BOOLEAN] /\ d.count = c.count + 1
  BY <1>1
<1> QED
  BY <1>3, <1>4 DEF Hit, Counter

LEMMA SaturatedCounter ==
    ASSUME NEW c \in Counter, NEW limit \in Nat
    PROVE  Saturated(c, limit) \in Counter
<1>1. c.count \in Nat /\ c.ttl \in BOOLEAN /\ (c.count > 0 => c.ttl) /\ c \in [count: Nat, ttl: BOOLEAN]
  BY DEF Counter
<1>2. CASE c.count > limit + 1
  <2> DEFINE d == [c EXCEPT !.count = limit + 1]
  <2>1. d \in [count: Nat, ttl: BOOLEAN] /\ d.ttl = c.ttl
    BY <1>1
  <2>2. c.count > 0
    BY <1>1, <1>2
  <2> QED
    BY <1>1, <1>2, <2>1, <2>2 DEF Saturated, Counter
<1>3. CASE ~(c.count > limit + 1)
  BY <1>3 DEF Saturated
<1> QED
  BY <1>2, <1>3

LEMMA NoHitsCounter == NoHits \in Counter /\ NoHits.count = 0
BY DEF NoHits, Counter

LEMMA Unpack ==
    ASSUME OInv
    PROVE  /\ userHits \in [User -> Counter] /\ tokenHits \in [Secret -> Counter]
           /\ pinHits \in [Key -> Counter] /\ grants \subseteq Key
           /\ shown \subseteq Key /\ asked \subseteq Key /\ fsm \subseteq User
           /\ target \in [User -> Secret \cup {NoSecret}]
           /\ grants \subseteq history.proved
BY DEF OInv, TypeOK

\* The commands on the dialogue: of the state and of the data.
LEMMA DialogueStep ==
    ASSUME OInv, NEW k \in Task,
           ClearState(k) \/ ClearData(k) \/ AskState(k) \/ AskData(k)
    PROVE  OInv'
<1> DEFINE t == task[k]
<1>1. PICK op \in {"clear_state", "clear_data", "ask_state", "ask_data"} :
          /\ AtStep(k, op) /\ Continue(k)
          /\ UNCHANGED <<secrets, counters, grants, buttons, bounds, ghosts>>
          /\ fsm' \subseteq fsm \cup {t.user}
          /\ \/ UNCHANGED target
             \/ target' = [target EXCEPT ![t.user] = NoSecret]
             \/ op = "ask_data" /\ target' = [target EXCEPT ![t.user] = t.secret]
  BY DEF ClearState, ClearData, AskState, AskData
<1>2. t \in Update /\ t.user \in User /\ Fits(t, rows, confirm, history) /\ t # Free
      /\ t.todo \in Todos /\ Head(t.todo) = op
  BY <1>1, AtStepTodo
<1>3. t.todo # PinSteps3
  BY <1>1, <1>2, FirstSteps
<1>4. t.secret \in Secret
  BY <1>2, <1>3 DEF Fits
<1>5. fsm' \subseteq User /\ target' \in [User -> Secret \cup {NoSecret}]
  BY <1>1, <1>2, <1>4, Unpack
<1>6. Resume(k, t, Tail(task[k].todo))
  BY <1>1 DEF Continue
<1>7. UNCHANGED <<rows, confirm, guesses, pinHits, faults, opened, history, updates, events,
                  grants, userHits, tokenHits, shown, asked>>
  BY <1>1 DEF secrets, counters, buttons, bounds, ghosts
<1>8. t.user = task[k].user /\ t.secret = task[k].secret
  OBVIOUS
<1> HIDE DEF t
<1> QED
  BY <1>1, <1>2, <1>5, <1>6, <1>7, <1>8, Unpack, QuietGoesOn

LEMMA HitUserStep ==
    ASSUME OInv, NEW k \in Task, HitUser(k)
    PROVE  OInv'
<1> DEFINE u == task[k].user
           hit == Saturated(Hit(userHits[u]), OpenLimit)
           ok == Allowed(hit, OpenLimit)
           t == [task[k] EXCEPT !.ok = ok]
<1>1. /\ AtStep(k, "hit_user")
      /\ userHits' = [userHits EXCEPT ![u] = hit]
      /\ Resume(k, t, Tail(task[k].todo))
      /\ UNCHANGED <<secrets, tokenHits, pinHits, grants, dialogue, buttons, bounds, ghosts>>
  BY DEF HitUser
<1>2. task[k] \in Update /\ u \in User
  BY <1>1, AtStepTodo
<1>3. ok \in BOOLEAN
  BY DEF Allowed
<1>4. hit \in Counter
  BY <1>2, HitCounts, SaturatedCounter, OpenAssumption, Unpack
<1> HIDE DEF hit, ok
<1>5. t \in Update /\ t.user = task[k].user /\ t.secret = task[k].secret
  BY <1>2, <1>3 DEF Update
<1>6. userHits' \in [User -> Counter]
  BY <1>1, <1>2, <1>4, Unpack
<1>7. UNCHANGED <<rows, confirm, guesses, pinHits, faults, opened, history, updates, events,
                  grants, tokenHits, shown, asked, fsm, target>>
  BY <1>1 DEF secrets, dialogue, buttons, bounds, ghosts
<1> HIDE DEF t
<1> QED
  BY <1>1, <1>5, <1>6, <1>7, Unpack, QuietGoesOn

\* The key of an update beyond «which» is a key.
LEMMA KeyOfStep ==
    ASSUME OInv, NEW k \in Task, NEW op, AtStep(k, op), op # "which"
    PROVE  task[k].secret \in Secret /\ task[k].user \in User /\ KeyOf(k) \in Key
<1>1. task[k] # Free /\ task[k].user \in User /\ Fits(task[k], rows, confirm, history)
      /\ task[k].todo # PinSteps3
  BY AtStepTodo, FirstSteps
<1>2. task[k].secret \in Secret
  BY <1>1 DEF Fits
<1> QED
  BY <1>1, <1>2 DEF KeyOf, Key

LEMMA ShowStep ==
    ASSUME OInv, NEW k \in Task, Show(k)
    PROVE  OInv'
<1> DEFINE s == task[k].secret
           hit == Saturated(Hit(tokenHits[s]), TokenLimit)
<1>1. /\ AtStep(k, "show")
      /\ tokenHits' = [tokenHits EXCEPT ![s] = hit]
      /\ shown' \subseteq shown \cup {KeyOf(k)}
      /\ Goto(k, <<>>)
      /\ UNCHANGED <<secrets, userHits, pinHits, grants, dialogue, asked, bounds, ghosts>>
  BY DEF Show, Return
<1>2. s \in Secret /\ KeyOf(k) \in Key
  BY <1>1, KeyOfStep
<1>3. hit \in Counter
  BY <1>2, HitCounts, SaturatedCounter, OpenAssumption, Unpack
<1> HIDE DEF hit
<1>4. tokenHits' \in [Secret -> Counter] /\ shown' \subseteq Key
  BY <1>1, <1>2, <1>3, Unpack
<1>5. UNCHANGED <<rows, confirm, guesses, pinHits, faults, opened, history, updates, events,
                  grants, userHits, fsm, target, asked>>
  BY <1>1 DEF secrets, dialogue, bounds, ghosts
<1> QED
  BY <1>1, <1>4, <1>5, Unpack, QuietGoto

\* Look, StatusReveal, Recount and SeeGrant when they stop or turn to what rests on nothing.
LEMMA TurnsStep ==
    ASSUME OInv, NEW k \in Task, NEW op, AtStep(k, op),
           NEW todo \in {ClearSteps, AskSteps3, <<>>}, Goto(k, todo),
           op \notin {"which", "verify", "failure", "forgive"},
           UNCHANGED <<secrets, counters, grants, dialogue, shown, bounds, ghosts>>,
           asked' \subseteq asked \cup {KeyOf(k)}
    PROVE  OInv'
<1>1. UNCHANGED <<rows, confirm, guesses, pinHits, faults, opened, history, updates, events,
                  grants, userHits, tokenHits, fsm, target, shown>>
  BY DEF secrets, counters, dialogue, bounds, ghosts
<1>2. asked' \subseteq Key
  BY KeyOfStep, Unpack
<1> QED
  BY <1>1, <1>2, Unpack, QuietGoto

LEMMA GoesOnStep ==
    ASSUME OInv, NEW k \in Task, NEW op, AtStep(k, op), Continue(k),
           op \notin {"see_grant", "which", "status_pin", "verify", "failure", "forgive"},
           UNCHANGED <<secrets, counters, dialogue, shown, bounds, ghosts>>,
           grants' \subseteq history.proved,
           asked' \subseteq asked \cup {KeyOf(k)}
    PROVE  OInv'
<1> DEFINE t == task[k]
<1>1. UNCHANGED <<rows, confirm, guesses, pinHits, faults, opened, history, updates, events,
                  userHits, tokenHits, fsm, target, shown>>
  BY DEF secrets, counters, dialogue, bounds, ghosts
<1>2. asked' \subseteq Key
  BY KeyOfStep, Unpack
<1>3. t \in Update /\ t.user = task[k].user /\ t.secret = task[k].secret
      /\ Resume(k, t, Tail(task[k].todo))
  BY AtStepTodo DEF Continue
<1> HIDE DEF t
<1> QED
  BY <1>1, <1>2, <1>3, Unpack, QuietGoesOn

LEMMA StatusRevealStep ==
    ASSUME OInv, NEW k \in Task, StatusReveal(k)
    PROVE  OInv'
<1>1. /\ AtStep(k, "status_reveal")
      /\ Goto(k, <<>>) \/ Continue(k)
      /\ UNCHANGED <<secrets, counters, grants, dialogue, shown, asked, bounds, ghosts>>
  BY DEF StatusReveal, Return, buttons
<1>2. CASE Goto(k, <<>>)
  BY <1>1, <1>2, TurnsStep
<1>3. CASE Continue(k)
  BY <1>1, <1>3, GoesOnStep, Unpack
<1> QED
  BY <1>1, <1>2, <1>3

LEMMA RecountStep ==
    ASSUME OInv, NEW k \in Task, Recount(k)
    PROVE  OInv'
<1>1. PICK todo \in {ClearSteps, <<>>} : Goto(k, todo)
  BY DEF Recount
<1>2. AtStep(k, "recount")
      /\ UNCHANGED <<secrets, counters, grants, dialogue, shown, asked, bounds, ghosts>>
  BY DEF Recount, buttons
<1> QED
  BY <1>1, <1>2, TurnsStep

\* Only who entered the PIN comes to the step that gives the grant.
LEMMA GrantStep ==
    ASSUME OInv, NEW k \in Task, Grant(k)
    PROVE  OInv'
<1>1. /\ AtStep(k, "grant") /\ Continue(k)
      /\ grants' = grants \cup {KeyOf(k)} /\ asked' = asked \cup {KeyOf(k)}
      /\ UNCHANGED <<secrets, counters, dialogue, shown, bounds, ghosts>>
  BY DEF Grant, Ask
<1>2. task[k].todo = GrantSteps1 /\ task[k] # Free /\ Fits(task[k], rows, confirm, history)
  BY <1>1, AtStepTodo, TodoOfStep
<1>3. KeyOf(k) \in history.proved
  BY <1>2 DEF Fits, AfterProof, KeyOf
<1> QED
  BY <1>1, <1>3, GoesOnStep, Unpack

LEMMA DropGrantStep ==
    ASSUME OInv, NEW k \in Task, DropGrant(k)
    PROVE  OInv'
<1>1. /\ AtStep(k, "drop_grant") /\ Continue(k)
      /\ grants' = grants \ {KeyOf(k)}
      /\ UNCHANGED <<secrets, counters, dialogue, shown, asked, bounds, ghosts>>
  BY DEF DropGrant, buttons
<1> QED
  BY <1>1, GoesOnStep, Unpack

\* A step that turns to a sequence which rests on what was found out just now.
LEMMA TurnStep ==
    ASSUME OInv, NEW k \in Task, NEW op, AtStep(k, op),
           NEW t \in Update, t.user = task[k].user, t.secret \in Secret,
           NEW todo \in Todos, Resume(k, t, todo),
           todo \notin Attempting, todo # PinSteps3,
           op \notin {"verify", "failure", "forgive"},
           UNCHANGED <<secrets, counters, grants, dialogue, buttons, bounds, ghosts>>,
           todo \in AfterProof => <<t.secret, t.user>> \in history.proved,
           todo \in {ConfirmSteps1, RedeemSteps3} => <<t.secret, t.user>> \in history.confirmed,
           todo \in BeforeOpen =>
               /\ rows[t.secret].pin => <<t.secret, t.user>> \in history.proved
               /\ t.secret \in confirm => <<t.secret, t.user>> \in history.confirmed
    PROVE  OInv'
<1>1. /\ task[k] # Free /\ task[k].user \in User
      /\ task[k].todo \in Todos /\ Head(task[k].todo) = op
  BY AtStepTodo
<1>2. task[k].todo \notin Attempting
  BY <1>1, FirstSteps DEF Attempting, Comparing
<1>3. \A x \in Todos : x # <<>>
  BY Remainder
<1>4. PICK n \in Update :
          /\ task' = [task EXCEPT ![k] = n]
          /\ n.todo = todo
          /\ n # Free => n.todo \in Todos /\ n.user = t.user /\ n.secret = t.secret
  BY <1>3, Resumed
<1>5. UNCHANGED <<rows, confirm, guesses, pinHits, faults, opened, history, updates, events,
                  grants, userHits, tokenHits, fsm, target, shown, asked>>
  BY DEF secrets, counters, dialogue, buttons, bounds, ghosts
<1>6. Fits(n, rows', confirm', history')
  BY <1>1, <1>4, <1>5 DEF Fits
<1>7. /\ history' \in [proved: SUBSET Key, confirmed: SUBSET Key]
      /\ grants' \subseteq history'.proved
      /\ userHits' \in [User -> Counter] /\ tokenHits' \in [Secret -> Counter]
      /\ fsm' \subseteq User /\ shown' \subseteq Key /\ asked' \subseteq Key
      /\ target' \in [User -> Secret \cup {NoSecret}]
      /\ updates' \in Nat /\ events' \in Nat
  BY <1>5 DEF OInv, TypeOK
<1> QED
  BY <1>2, <1>4, <1>5, <1>6, <1>7, QuietStep

LEMMA LookStep ==
    ASSUME OInv, NEW k \in Task, Look(k)
    PROVE  OInv'
<1> DEFINE s == task[k].secret
           t == task[k]
<1>1. /\ AtStep(k, "look")
      /\ UNCHANGED <<secrets, counters, grants, dialogue, shown, bounds, ghosts>>
  BY DEF Look
<1>2. s \in Secret /\ t \in Update
  BY <1>1, KeyOfStep, AtStepTodo
<1>3. CASE Goto(k, <<>>) /\ asked' \subseteq asked \cup {KeyOf(k)}
  BY <1>1, <1>3, TurnsStep
<1>4. CASE Goto(k, AskSteps3) /\ UNCHANGED asked
  BY <1>1, <1>4, TurnsStep
<1>5. CASE Goto(k, OpenSteps1) /\ UNCHANGED asked /\ ~rows[s].pin /\ s \notin confirm
  <2>1. OpenSteps1 \in Todos /\ OpenSteps1 \notin Attempting /\ OpenSteps1 # PinSteps3
        /\ OpenSteps1 \notin AfterProof /\ OpenSteps1 # ConfirmSteps1 /\ OpenSteps1 # RedeemSteps3
    BY FirstSteps DEF Todos, Attempting, Comparing, AfterProof
  <2>2. UNCHANGED <<secrets, counters, grants, dialogue, buttons, bounds, ghosts>>
    BY <1>1, <1>5 DEF buttons
  <2>3. Resume(k, t, OpenSteps1)
    BY <1>5 DEF Goto
  <2>4. t.user = task[k].user /\ t.secret \in Secret /\ ~rows[t.secret].pin /\ t.secret \notin confirm
    BY <1>2, <1>5
  <2> DEFINE todo == OpenSteps1
  <2>5. /\ todo \in AfterProof => <<t.secret, t.user>> \in history.proved
        /\ todo \in {ConfirmSteps1, RedeemSteps3} => <<t.secret, t.user>> \in history.confirmed
        /\ todo \in BeforeOpen =>
               /\ rows[t.secret].pin => <<t.secret, t.user>> \in history.proved
               /\ t.secret \in confirm => <<t.secret, t.user>> \in history.confirmed
    BY <2>1, <2>4
  <2>6. t \in Update /\ Resume(k, t, todo) /\ todo \in Todos /\ todo \notin Attempting
        /\ todo # PinSteps3
    BY <1>2, <2>1, <2>3
  <2> HIDE DEF t, s, todo
  <2> QED
    BY <1>1, <2>2, <2>4, <2>5, <2>6, TurnStep
<1>6. \/ Goto(k, <<>>) /\ asked' \subseteq asked \cup {KeyOf(k)}
      \/ Goto(k, AskSteps3) /\ UNCHANGED asked
      \/ Goto(k, OpenSteps1) /\ UNCHANGED asked /\ ~rows[s].pin /\ s \notin confirm
  BY DEF Look, Return, Ask, AskSteps3, OpenSteps1
<1> QED
  BY <1>3, <1>4, <1>5, <1>6

LEMMA WhichStep ==
    ASSUME OInv, NEW k \in Task, Which(k)
    PROVE  OInv'
<1> DEFINE s == target[task[k].user]
           t == [task[k] EXCEPT !.secret = s]
<1>1. /\ AtStep(k, "which")
      /\ UNCHANGED <<secrets, counters, grants, dialogue, buttons, bounds, ghosts>>
  BY DEF Which
<1>2. task[k] \in Update /\ task[k].user \in User /\ task[k].todo = PinSteps3
  BY <1>1, AtStepTodo, TodoOfStep
<1>3. s \in Secret \cup {NoSecret}
  BY <1>2, Unpack
<1>4. CASE s = NoSecret
  <2>1. Goto(k, <<>>)
    BY <1>4 DEF Which, Return
  <2>2. Fits(Free, rows', confirm', history') /\ task' = [task EXCEPT ![k] = Free]
    BY <2>1 DEF Fits, Goto, Resume
  <2>3. task[k].todo \notin Attempting /\ Free.todo \notin Attempting
    BY <1>2, FreeUpdate, FirstSteps DEF Attempting, Comparing
  <2>4. UNCHANGED <<rows, confirm, guesses, pinHits, faults, opened, history, updates, events,
                    grants, userHits, tokenHits, fsm, target, shown, asked>>
    BY <1>1 DEF secrets, counters, dialogue, buttons, bounds, ghosts
  <2>5. /\ history' \in [proved: SUBSET Key, confirmed: SUBSET Key]
        /\ updates' \in Nat /\ events' \in Nat
    BY <2>4 DEF OInv, TypeOK
  <2> QED
    BY <2>2, <2>3, <2>4, <2>5, FreeUpdate, Unpack, QuietStep
<1>5. CASE s # NoSecret
  <2>1. Resume(k, t, PinSteps2)
    BY <1>2, <1>5, RemainingSteps DEF Which
  <2> HIDE DEF s
  <2>2. t \in Update /\ t.user = task[k].user /\ t.secret = s /\ s \in Secret
    BY <1>2, <1>3, <1>5 DEF Update
  <2> HIDE DEF t
  <2>3. PinSteps2 \in Todos /\ PinSteps2 \notin Attempting /\ PinSteps2 # PinSteps3
        /\ PinSteps2 \notin AfterProof /\ PinSteps2 # ConfirmSteps1 /\ PinSteps2 # RedeemSteps3
        /\ PinSteps2 \notin BeforeOpen
    BY FirstSteps DEF Todos, Attempting, Comparing, AfterProof, BeforeOpen
  <2> DEFINE todo == PinSteps2
  <2>4. /\ todo \in AfterProof => <<t.secret, t.user>> \in history.proved
        /\ todo \in {ConfirmSteps1, RedeemSteps3} => <<t.secret, t.user>> \in history.confirmed
        /\ todo \in BeforeOpen =>
               /\ rows[t.secret].pin => <<t.secret, t.user>> \in history.proved
               /\ t.secret \in confirm => <<t.secret, t.user>> \in history.confirmed
    BY <2>3
  <2>5. Resume(k, t, todo) /\ todo \in Todos /\ todo \notin Attempting /\ todo # PinSteps3
        /\ t.secret \in Secret
    BY <2>1, <2>2, <2>3
  <2> HIDE DEF todo
  <2> QED
    BY <1>1, <2>2, <2>4, <2>5, TurnStep
<1> QED
  BY <1>4, <1>5

\* Who pressed «confirm» has confirmed; a secret without a PIN needs no grant.
LEMMA LookConfirmStep ==
    ASSUME OInv, NEW k \in Task, LookConfirm(k)
    PROVE  OInv'
<1> DEFINE t == task[k]
<1>1. /\ AtStep(k, "look_confirm")
      /\ UNCHANGED <<secrets, counters, grants, dialogue, buttons, bounds, ghosts>>
  BY DEF LookConfirm
<1>2. /\ t \in Update /\ t.user = task[k].user /\ t.secret \in Secret
      /\ t # Free /\ t.todo = ConfirmSteps1 /\ Fits(t, rows, confirm, history)
  BY <1>1, AtStepTodo, TodoOfStep, KeyOfStep
<1>3. <<t.secret, t.user>> \in history.confirmed
  BY <1>2 DEF Fits
<1>4. CASE Goto(k, <<>>)
  BY <1>1, <1>4, TurnsStep DEF buttons
<1>5. CASE Goto(k, RedeemSteps3)
  <2>1. RedeemSteps3 \in Todos /\ RedeemSteps3 \notin Attempting /\ RedeemSteps3 # PinSteps3
        /\ RedeemSteps3 \notin AfterProof /\ RedeemSteps3 \notin BeforeOpen
    BY FirstSteps DEF Todos, Attempting, Comparing, AfterProof, BeforeOpen
  <2>2. Resume(k, t, RedeemSteps3)
    BY <1>5 DEF Goto
  <2> HIDE DEF t
  <2> QED
    BY <1>1, <1>2, <1>3, <2>1, <2>2, TurnStep
<1>6. CASE Goto(k, RedeemSteps2) /\ ~rows[t.secret].pin
  <2>1. RedeemSteps2 \in Todos /\ RedeemSteps2 \notin Attempting /\ RedeemSteps2 # PinSteps3
        /\ RedeemSteps2 \notin AfterProof
    BY FirstSteps DEF Todos, Attempting, Comparing, AfterProof
  <2>2. Resume(k, t, RedeemSteps2)
    BY <1>6 DEF Goto
  <2> HIDE DEF t
  <2> QED
    BY <1>1, <1>2, <1>3, <1>6, <2>1, <2>2, TurnStep
<1>7. Goto(k, <<>>) \/ Goto(k, RedeemSteps3) \/ (Goto(k, RedeemSteps2) /\ ~rows[t.secret].pin)
  BY DEF LookConfirm, Return, RedeemSteps3, RedeemSteps2
<1> QED
  BY <1>4, <1>5, <1>6, <1>7

\* A grant is as good as the PIN.
LEMMA SeeGrantStep ==
    ASSUME OInv, NEW k \in Task, SeeGrant(k)
    PROVE  OInv'
<1> DEFINE t == task[k]
<1>1. /\ AtStep(k, "see_grant")
      /\ UNCHANGED <<secrets, counters, grants, dialogue, buttons, bounds, ghosts>>
      /\ IF KeyOf(k) \in grants THEN Continue(k) ELSE Return(k)
  BY DEF SeeGrant
<1>2. /\ t \in Update /\ t.user = task[k].user /\ t.secret \in Secret
      /\ t # Free /\ t.todo = RedeemSteps3 /\ Fits(t, rows, confirm, history)
  BY <1>1, AtStepTodo, TodoOfStep, KeyOfStep
<1>3. CASE KeyOf(k) \in grants
  <2>1. <<t.secret, t.user>> \in history.proved /\ <<t.secret, t.user>> \in history.confirmed
    BY <1>2, <1>3, Unpack DEF Fits, KeyOf
  <2>2. Resume(k, t, RedeemSteps2)
    BY <1>1, <1>2, <1>3, RemainingSteps DEF Continue
  <2>3. RedeemSteps2 \in Todos /\ RedeemSteps2 \notin Attempting /\ RedeemSteps2 # PinSteps3
    BY FirstSteps DEF Todos, Attempting, Comparing
  <2> HIDE DEF t
  <2> QED
    BY <1>1, <1>2, <2>1, <2>2, <2>3, TurnStep
<1>4. CASE KeyOf(k) \notin grants
  <2>1. Goto(k, <<>>)
    BY <1>1, <1>4 DEF Return
  <2> QED
    BY <1>1, <2>1, TurnsStep DEF buttons
<1> QED
  BY <1>3, <1>4

-----------------------------------------------------------------------------
(* Steps of an attempt *)

LEMMA TasksFinite ==
    /\ IsFiniteSet(Task)
    /\ Cardinality(Task) \in Nat
    /\ OInv => Slack \in Nat
<1>1. IsFiniteSet(Task)
  BY OpenAssumption
<1>2. Cardinality(Task) \in Nat
  BY <1>1, FS_CardinalityType
<1>3. \A a, b \in Nat : a * b \in Nat
  OBVIOUS
<1>4. OInv => faults \in Nat
  BY DEF OInv, TypeOK
<1> QED
  BY <1>1, <1>2, <1>3, <1>4 DEF Slack

\* Two sets of updates that share none are together no more than all of them.
LEMMA DisjointTasks ==
    ASSUME NEW S \in SUBSET Task, NEW T \in SUBSET Task, S \cap T = {}
    PROVE  /\ IsFiniteSet(S) /\ IsFiniteSet(T)
           /\ Cardinality(S) \in Nat /\ Cardinality(T) \in Nat
           /\ Cardinality(S) + Cardinality(T) <= Cardinality(Task)
<1>1. IsFiniteSet(S) /\ IsFiniteSet(T)
  BY TasksFinite, FS_Subset
<1>2. Cardinality(S) \in Nat /\ Cardinality(T) \in Nat
  BY <1>1, FS_CardinalityType
<1>3. Cardinality(S \cap T) = 0
  BY FS_EmptySet
<1>4. Cardinality(S \cup T) = Cardinality(S) + Cardinality(T)
  <2>1. Cardinality(S \cup T) = Cardinality(S) + Cardinality(T) - Cardinality(S \cap T)
    BY <1>1, FS_Union
  <2> QED
    BY <1>2, <1>3, <2>1
<1>5. Cardinality(S \cup T) <= Cardinality(Task)
  BY TasksFinite, FS_Subset
<1> QED
  BY <1>1, <1>2, <1>4, <1>5

\* The same of those who verify and those who have not told, of any key.
LEMMA Attempters ==
    ASSUME NEW key
    PROVE  /\ Verifying(key) \in SUBSET Task /\ Untold(key) \in SUBSET Task
           /\ Verifying(key) \cap Untold(key) = {}
<1>1. PinSteps1 \notin Comparing
  BY FirstSteps DEF Comparing
<1> QED
  BY <1>1 DEF Verifying, Untold

\* A step of an attempt moves its update into or out of the sets of its key K, and no other.
LEMMA AttemptMoves ==
    ASSUME OInv, NEW k \in Task, NEW n \in Update, NEW K \in Key, K = KeyOf(k),
           task' = [task EXCEPT ![k] = n],
           n # Free => n.user = task[k].user /\ n.secret = task[k].secret
    PROVE  /\ \A key \in Key \ {K} : Verifying(key)' = Verifying(key) /\ Untold(key)' = Untold(key)
           /\ Verifying(K)' = IF n.todo = PinSteps1 THEN Verifying(K) \cup {k}
                              ELSE Verifying(K) \ {k}
           /\ Untold(K)' = IF n.todo \in Comparing THEN Untold(K) \cup {k} ELSE Untold(K) \ {k}
           /\ k \in Verifying(K) <=> task[k].todo = PinSteps1
           /\ k \in Untold(K) <=> task[k].todo \in Comparing
<1>1. task'[k] = n /\ \A j \in Task \ {k} : task'[j] = task[j]
  BY DEF OInv
<1>2. n = Free => n.todo # PinSteps1 /\ n.todo \notin Comparing
  BY FreeUpdate, FirstSteps DEF Comparing
<1>3. n # Free => <<n.secret, n.user>> = K
  BY DEF KeyOf
<1>4. \A key \in Key \ {K} : Verifying(key)' = Verifying(key) /\ Untold(key)' = Untold(key)
  BY <1>1, <1>2, <1>3 DEF Verifying, Untold, KeyOf
<1>5. Verifying(K)' = IF n.todo = PinSteps1 THEN Verifying(K) \cup {k} ELSE Verifying(K) \ {k}
  <2>1. \A j \in Task : j \in Verifying(K)' <=> task'[j].todo = PinSteps1 /\ KeyOf(j)' = K
    BY DEF Verifying
  <2>2. KeyOf(k)' = <<n.secret, n.user>> /\ \A j \in Task \ {k} : KeyOf(j)' = KeyOf(j)
    BY <1>1 DEF KeyOf
  <2> QED
    BY <1>1, <1>2, <1>3, <2>1, <2>2 DEF Verifying
<1>6. Untold(K)' = IF n.todo \in Comparing THEN Untold(K) \cup {k} ELSE Untold(K) \ {k}
  <2>1. \A j \in Task : j \in Untold(K)' <=> task'[j].todo \in Comparing /\ KeyOf(j)' = K
    BY DEF Untold
  <2>2. KeyOf(k)' = <<n.secret, n.user>> /\ \A j \in Task \ {k} : KeyOf(j)' = KeyOf(j)
    BY <1>1 DEF KeyOf
  <2> QED
    BY <1>1, <1>2, <1>3, <2>1, <2>2 DEF Untold
<1>7. (k \in Verifying(K) <=> task[k].todo = PinSteps1) /\ (k \in Untold(K) <=> task[k].todo \in Comparing)
  BY DEF Verifying, Untold
<1> QED
  BY <1>4, <1>5, <1>6, <1>7

\* The bounds of the other keys stand, if their counters do.
LEMMA OtherBounds ==
    ASSUME OInv, NEW K \in Key, UNCHANGED faults,
           \A key \in Key \ {K} : Verifying(key)' = Verifying(key) /\ Untold(key)' = Untold(key),
           \A key \in Key \ {K} : guesses'[key] = guesses[key] /\ pinHits'[key] = pinHits[key],
           GuessesCounted(K)', TriesBounded(K)'
    PROVE  \A key \in Key : GuessesCounted(key)' /\ TriesBounded(key)'
<1>1. ASSUME NEW key \in Key \ {K}
      PROVE  GuessesCounted(key)' /\ TriesBounded(key)'
  <2>1. GuessesCounted(key) /\ TriesBounded(key) /\ Slack' = Slack
    BY DEF OInv, Slack
  <2> QED
    BY <1>1, <2>1 DEF GuessesCounted, TriesBounded
<1> QED
  BY <1>1

\* What an attempt leaves alone, and what remains to be shown of it.
LEMMA AttemptStep ==
    ASSUME OInv, NEW k \in Task, NEW n \in Update,
           task' = [task EXCEPT ![k] = n],
           Fits(n, rows', confirm', history'),
           UNCHANGED <<rows, confirm, userHits, tokenHits, grants, fsm, target, shown, asked,
                       faults, updates, events, opened>>,
           pinHits' \in [Key -> Counter], guesses' \in [Key -> Nat],
           history' \in [proved: SUBSET Key, confirmed: SUBSET Key],
           history.proved \subseteq history'.proved, history.confirmed \subseteq history'.confirmed,
           \A key \in Key : GuessesCounted(key)' /\ TriesBounded(key)'
    PROVE  OInv'
<1>1. /\ task' \in [Task -> Update]
      /\ \A j \in Task : Fits(task'[j], rows', confirm', history')
  BY OthersFit
<1>2. TypeOK'
  BY <1>1 DEF OInv, TypeOK, Update
<1> QED
  BY <1>1, <1>2 DEF OInv, PinBeforeOpen, ConfirmationBeforeOpen

\* The counter is below the limit when an attempt begins: with those under way it may come to
\* the limit and one for each of them.
LEMMA StatusPinStep ==
    ASSUME OInv, NEW k \in Task, StatusPin(k)
    PROVE  OInv'
<1>1. /\ AtStep(k, "status_pin")
      /\ UNCHANGED <<secrets, counters, grants, dialogue, buttons, bounds, ghosts>>
      /\ IF LockedOut(k) THEN Goto(k, ClearSteps) ELSE Continue(k)
  BY DEF StatusPin
<1>2. CASE LockedOut(k)
  BY <1>1, <1>2, TurnsStep DEF buttons
<1>3. CASE ~LockedOut(k)
  <2> DEFINE t == task[k]
  <2>1. t \in Update /\ t.user = task[k].user /\ t.secret = task[k].secret
        /\ Resume(k, t, Tail(task[k].todo)) /\ task[k].todo = PinSteps2
    BY <1>1, <1>3, AtStepTodo, TodoOfStep DEF Continue
  <2> HIDE DEF t
  <2>2. PICK n \in Update :
            /\ task' = [task EXCEPT ![k] = n]
            /\ n.todo = Tail(task[k].todo)
            /\ n # Free => n.user = task[k].user /\ n.secret = task[k].secret
            /\ Fits(n, rows, confirm, history)
            /\ n.todo \notin Comparing
    <3> DEFINE op == "status_pin"
    <3>1. AtStep(k, op) /\ op # "see_grant" /\ op # "which"
      BY <1>1
    <3> HIDE DEF op
    <3> QED
      BY <2>1, <3>1, GoesOn
  <2>3. n.todo = PinSteps1
    BY <2>1, <2>2, RemainingSteps
  <2>4. PICK K \in Key : K = KeyOf(k)
    BY <1>1, KeyOfStep
  <2>5. task[k].todo \notin Attempting
    BY <2>1, FirstSteps DEF Attempting, Comparing
  <2>6. /\ \A key \in Key \ {K} : Verifying(key)' = Verifying(key) /\ Untold(key)' = Untold(key)
        /\ Verifying(K)' = Verifying(K) \cup {k} /\ Untold(K)' = Untold(K) \ {k}
        /\ k \notin Untold(K)
    BY <2>2, <2>3, <2>4, <2>5, AttemptMoves DEF Attempting
  <2>7. UNCHANGED <<rows, confirm, userHits, tokenHits, pinHits, grants, fsm, target, shown, asked,
                    faults, updates, events, guesses, opened, history>>
    BY <1>1 DEF secrets, counters, dialogue, buttons, bounds, ghosts
  <2>8. Untold(K)' = Untold(K)
    BY <2>6
  <2>9. /\ Verifying(K)' \in SUBSET Task /\ Untold(K) \in SUBSET Task
        /\ Verifying(K)' \cap Untold(K) = {}
    BY <2>6, Attempters
  <2>10. /\ Cardinality(Verifying(K)') \in Nat /\ Cardinality(Untold(K)) \in Nat
         /\ Cardinality(Verifying(K)') + Cardinality(Untold(K)) <= Cardinality(Task)
    BY <2>9, DisjointTasks
  <2>11. pinHits[K].count < PinMax /\ pinHits[K].count \in Nat /\ PinMax \in Nat
    BY <1>3, <2>4, Unpack, OpenAssumption DEF LockedOut, Counter
  <2>12. guesses[K] \in Nat /\ GuessesCounted(K) /\ Slack \in Nat /\ Cardinality(Task) \in Nat
         /\ Slack' = Slack
    BY <2>7, TasksFinite DEF OInv, TypeOK, Slack
  <2>13. GuessesCounted(K)'
    BY <2>7, <2>8, <2>12 DEF GuessesCounted
  <2>14. TriesBounded(K)'
    BY <2>7, <2>10, <2>11, <2>12 DEF GuessesCounted, TriesBounded
  <2>15. \A key \in Key : GuessesCounted(key)' /\ TriesBounded(key)'
    BY <2>6, <2>7, <2>13, <2>14, OtherBounds
  <2>16. Fits(n, rows', confirm', history')
    BY <2>2, <2>7
  <2>17. /\ pinHits' \in [Key -> Counter] /\ guesses' \in [Key -> Nat]
         /\ history' \in [proved: SUBSET Key, confirmed: SUBSET Key]
    BY <2>7 DEF OInv, TypeOK
  <2> QED
    BY <2>2, <2>7, <2>15, <2>16, <2>17, AttemptStep
<1> QED
  BY <1>2, <1>3

\* What the bounds of a key say, in numbers.
LEMMA BoundsOfKey ==
    ASSUME OInv, NEW K \in Key
    PROVE  /\ guesses[K] \in Nat /\ pinHits[K] \in Counter /\ pinHits[K].count \in Nat
           /\ Slack \in Nat /\ Cardinality(Task) \in Nat /\ PinMax \in Nat \ {0}
           /\ IsFiniteSet(Verifying(K)) /\ IsFiniteSet(Untold(K))
           /\ Cardinality(Verifying(K)) \in Nat /\ Cardinality(Untold(K)) \in Nat
           /\ Cardinality(Verifying(K)) + Cardinality(Untold(K)) <= Cardinality(Task)
           /\ guesses[K] <= pinHits[K].count + Cardinality(Untold(K)) + Slack
           /\ guesses[K] + Cardinality(Verifying(K)) + 1 <= PinMax + Cardinality(Task) + Slack
<1>1. guesses[K] \in Nat /\ pinHits[K] \in Counter /\ pinHits[K].count \in Nat
  BY DEF OInv, TypeOK, Counter
<1>2. Slack \in Nat /\ Cardinality(Task) \in Nat /\ PinMax \in Nat \ {0}
  BY TasksFinite, OpenAssumption
<1>3. /\ IsFiniteSet(Verifying(K)) /\ IsFiniteSet(Untold(K))
      /\ Cardinality(Verifying(K)) \in Nat /\ Cardinality(Untold(K)) \in Nat
      /\ Cardinality(Verifying(K)) + Cardinality(Untold(K)) <= Cardinality(Task)
  BY Attempters, DisjointTasks
<1>4. GuessesCounted(K) /\ TriesBounded(K)
  BY DEF OInv
<1> QED
  BY <1>1, <1>2, <1>3, <1>4 DEF GuessesCounted, TriesBounded

\* An update that neither verifies nor has to tell any more leaves the sets of its key; those of
\* the other keys stay.
LEMMA AttemptLeft ==
    ASSUME OInv, NEW k \in Task, NEW n \in Update, NEW K \in Key, K = KeyOf(k),
           task' = [task EXCEPT ![k] = n],
           n # Free => n.user = task[k].user /\ n.secret = task[k].secret,
           n.todo # PinSteps1, n.todo \notin Comparing
    PROVE  /\ \A key \in Key \ {K} : Verifying(key)' = Verifying(key) /\ Untold(key)' = Untold(key)
           /\ Verifying(K)' = Verifying(K) \ {k} /\ Untold(K)' = Untold(K) \ {k}
           /\ k \in Verifying(K) <=> task[k].todo = PinSteps1
           /\ k \in Untold(K) <=> task[k].todo \in Comparing
<1>1. /\ \A key \in Key \ {K} : Verifying(key)' = Verifying(key) /\ Untold(key)' = Untold(key)
      /\ Verifying(K)' = IF n.todo = PinSteps1 THEN Verifying(K) \cup {k}
                         ELSE Verifying(K) \ {k}
      /\ Untold(K)' = IF n.todo \in Comparing THEN Untold(K) \cup {k} ELSE Untold(K) \ {k}
      /\ k \in Verifying(K) <=> task[k].todo = PinSteps1
      /\ k \in Untold(K) <=> task[k].todo \in Comparing
  BY AttemptMoves
<1> QED
  BY <1>1

LEMMA VerifyStep ==
    ASSUME OInv, NEW k \in Task, Verify(k)
    PROVE  OInv'
<1> DEFINE t == task[k]
           s == t.secret
<1>1. /\ AtStep(k, "verify")
      /\ UNCHANGED <<rows, confirm, userHits, tokenHits, pinHits, grants, fsm, target, shown,
                     asked, faults, updates, events, opened>>
  BY DEF Verify, secrets, counters, dialogue, buttons, bounds
<1>2. /\ t \in Update /\ t # Free /\ t.user \in User /\ s \in Secret /\ t.todo = PinSteps1
  BY <1>1, AtStepTodo, TodoOfStep, KeyOfStep
<1>3. PICK K \in Key : K = KeyOf(k) /\ K = <<t.secret, t.user>>
  BY <1>1, KeyOfStep DEF KeyOf
<1>4. \A x \in Todos : x # <<>>
  BY Remainder
<1>5. history \in [proved: SUBSET Key, confirmed: SUBSET Key] /\ guesses \in [Key -> Nat]
      /\ pinHits' \in [Key -> Counter]
  BY <1>1 DEF OInv, TypeOK
<1>6. ASSUME NEW todo \in Todos, Resume(k, t, todo)
      PROVE  \E n \in Update :
                 /\ task' = [task EXCEPT ![k] = n]
                 /\ n.todo = todo
                 /\ n # Free => n.todo \in Todos /\ n.user = t.user /\ n.secret = t.secret
  <2> HIDE DEF t
  <2> QED
    BY <1>2, <1>4, <1>6, Resumed
<1>7. CASE ~PinStillAsked(s)
  <2>1. Resume(k, t, ClearSteps) /\ UNCHANGED <<guesses, history>>
    BY <1>7 DEF Verify, Goto
  <2>2. ClearSteps \in Todos /\ ClearSteps \notin Attempting /\ ClearSteps # PinSteps3
        /\ ClearSteps \notin AfterProof /\ ClearSteps \notin BeforeOpen
        /\ ClearSteps # ConfirmSteps1 /\ ClearSteps # RedeemSteps3
    BY NothingProved, FirstSteps DEF Todos
  <2>3. PICK n \in Update :
            /\ task' = [task EXCEPT ![k] = n]
            /\ n.todo = ClearSteps
            /\ n # Free => n.todo \in Todos /\ n.user = t.user /\ n.secret = t.secret
    BY <1>6, <2>1, <2>2
  <2>4. Fits(n, rows', confirm', history')
    BY <1>2, <2>2, <2>3 DEF Fits
  <2>5. PinSteps1 \notin Comparing
    BY FirstSteps DEF Comparing
  <2>6. /\ \A key \in Key \ {K} : Verifying(key)' = Verifying(key) /\ Untold(key)' = Untold(key)
        /\ Verifying(K)' = Verifying(K) \ {k} /\ Untold(K)' = Untold(K)
        /\ k \in Verifying(K)
    <3>1. n # Free => n.user = task[k].user /\ n.secret = task[k].secret
      BY <2>3
    <3>2. n.todo # PinSteps1 /\ n.todo \notin Comparing
      BY <2>2, <2>3 DEF Attempting
    <3>3. task[k].todo = PinSteps1 /\ task[k].todo \notin Comparing
      BY <1>2, <2>5
    <3>4. /\ \A key \in Key \ {K} : Verifying(key)' = Verifying(key) /\ Untold(key)' = Untold(key)
          /\ Verifying(K)' = Verifying(K) \ {k} /\ Untold(K)' = Untold(K) \ {k}
          /\ k \in Verifying(K) /\ k \notin Untold(K)
      BY <1>3, <2>3, <3>1, <3>2, <3>3, AttemptLeft
    <3> QED
      BY <3>4
  <2>7. Cardinality(Verifying(K)') = Cardinality(Verifying(K)) - 1
    <3>1. IsFiniteSet(Verifying(K))
      BY BoundsOfKey
    <3> DEFINE V == Verifying(K)
    <3>2. Cardinality(V \ {k}) = IF k \in V THEN Cardinality(V) - 1 ELSE Cardinality(V)
      <4> HIDE DEF V
      <4>1. IsFiniteSet(V)
        BY <3>1 DEF V
      <4> QED
        BY <4>1, FS_RemoveElement
    <3> QED
      BY <2>6, <3>2
  <2>8. Slack' = Slack
    BY <1>1 DEF Slack
  <2>9. GuessesCounted(K)'
    BY <1>1, <2>1, <2>6, <2>8, BoundsOfKey DEF GuessesCounted
  <2>10. TriesBounded(K)'
    BY <1>1, <2>1, <2>7, <2>8, BoundsOfKey DEF TriesBounded
  <2>11. \A key \in Key : GuessesCounted(key)' /\ TriesBounded(key)'
    BY <1>1, <2>1, <2>6, <2>9, <2>10, OtherBounds
  <2>12. /\ guesses' \in [Key -> Nat] /\ history' \in [proved: SUBSET Key, confirmed: SUBSET Key]
         /\ history.proved \subseteq history'.proved
         /\ history.confirmed \subseteq history'.confirmed
    BY <1>5, <2>1
  <2> QED
    BY <1>1, <1>5, <2>3, <2>4, <2>11, <2>12, AttemptStep
<1>8. CASE PinStillAsked(s)
  <2>1. /\ guesses' = [guesses EXCEPT ![K] = @ + 1]
        /\ \/ Resume(k, t, FailSteps2) /\ UNCHANGED history
           \/ /\ Resume(k, t, IF s \in confirm THEN GrantSteps4 ELSE OpenSteps4)
              /\ history' = [history EXCEPT !.proved = @ \cup {K}]
    BY <1>3, <1>8 DEF Verify, Goto, FailSteps2, GrantSteps4, OpenSteps4
  <2>2. PICK todo \in Comparing :
            /\ Resume(k, t, todo)
            /\ history' \in [proved: SUBSET Key, confirmed: SUBSET Key]
            /\ history.proved \subseteq history'.proved
            /\ history'.confirmed = history.confirmed
            /\ todo # FailSteps2 => K \in history'.proved
            /\ todo = OpenSteps4 => s \notin confirm
    <3>1. CASE Resume(k, t, FailSteps2) /\ UNCHANGED history
      <4>1. FailSteps2 \in Comparing /\ FailSteps2 # OpenSteps4
        BY FirstSteps DEF Comparing
      <4> QED
        BY <1>5, <3>1, <4>1
    <3>2. CASE /\ Resume(k, t, IF s \in confirm THEN GrantSteps4 ELSE OpenSteps4)
               /\ history' = [history EXCEPT !.proved = @ \cup {K}]
      <4>1. /\ history' \in [proved: SUBSET Key, confirmed: SUBSET Key]
            /\ history'.proved = history.proved \cup {K}
            /\ history'.confirmed = history.confirmed
        BY <1>5, <3>2
      <4>2. OpenSteps4 # GrantSteps4
        <5>1. OpenSteps1 # GrantSteps1
          BY FirstSteps
        <5> QED
          BY <5>1, RemainingSteps
      <4>3. GrantSteps4 \in Comparing /\ OpenSteps4 \in Comparing
        BY DEF Comparing
      <4>4. CASE s \in confirm
        <5>1. Resume(k, t, GrantSteps4)
          BY <3>2, <4>4
        <5> QED
          BY <4>1, <4>2, <4>3, <5>1
      <4>5. CASE s \notin confirm
        <5>1. Resume(k, t, OpenSteps4)
          BY <3>2, <4>5
        <5> QED
          BY <4>1, <4>3, <4>5, <5>1
      <4> QED
        BY <4>4, <4>5
    <3> QED
      BY <2>1, <3>1, <3>2
  <2>3. todo \in Todos /\ todo # PinSteps1 /\ todo # PinSteps3
        /\ todo # ConfirmSteps1 /\ todo # RedeemSteps3
    BY FirstSteps DEF Comparing, Todos
  <2>4. PICK n \in Update :
            /\ task' = [task EXCEPT ![k] = n]
            /\ n.todo = todo
            /\ n # Free => n.todo \in Todos /\ n.user = t.user /\ n.secret = t.secret
    BY <1>6, <2>2, <2>3
  <2>5. todo \in AfterProof => todo # FailSteps2
    BY FirstSteps DEF AfterProof
  <2>6. todo \in BeforeOpen => todo = OpenSteps4
    <3>1. GrantSteps1 # OpenSteps1
      BY FirstSteps
    <3>2. GrantSteps4 # OpenSteps4
      BY <3>1, RemainingSteps
    <3> QED
      BY <3>2, FirstSteps DEF BeforeOpen, Comparing
  <2>7. Fits(n, rows', confirm', history')
    <3>1. todo = OpenSteps4 => todo # FailSteps2
      BY FirstSteps
    <3> QED
      BY <1>1, <1>2, <1>3, <2>2, <2>3, <2>4, <2>5, <2>6, <3>1 DEF Fits
  <2>8. PinSteps1 \notin Comparing
    BY FirstSteps DEF Comparing
  <2>9. /\ \A key \in Key \ {K} : Verifying(key)' = Verifying(key) /\ Untold(key)' = Untold(key)
        /\ Verifying(K)' = Verifying(K) \ {k} /\ Untold(K)' = Untold(K) \cup {k}
        /\ k \in Verifying(K) /\ k \notin Untold(K)
    <3>1. n # Free => n.user = task[k].user /\ n.secret = task[k].secret
      BY <2>4
    <3>2. task' = [task EXCEPT ![k] = n] /\ n.todo # PinSteps1 /\ n.todo \in Comparing
      BY <2>2, <2>3, <2>4
    <3>3. /\ \A key \in Key \ {K} : Verifying(key)' = Verifying(key) /\ Untold(key)' = Untold(key)
          /\ Verifying(K)' = IF n.todo = PinSteps1 THEN Verifying(K) \cup {k}
                             ELSE Verifying(K) \ {k}
          /\ Untold(K)' = IF n.todo \in Comparing THEN Untold(K) \cup {k} ELSE Untold(K) \ {k}
          /\ k \in Verifying(K) <=> task[k].todo = PinSteps1
          /\ k \in Untold(K) <=> task[k].todo \in Comparing
      BY <1>3, <3>1, <3>2, AttemptMoves, ZenonT(60)
    <3>4. task[k].todo = PinSteps1
      BY <1>2
    <3> QED
      BY <2>8, <3>2, <3>3, <3>4
  <2>10. /\ Cardinality(Verifying(K)') = Cardinality(Verifying(K)) - 1
         /\ Cardinality(Untold(K)') = Cardinality(Untold(K)) + 1
    <3>1. IsFiniteSet(Verifying(K)) /\ IsFiniteSet(Untold(K))
      BY BoundsOfKey
    <3>2. Cardinality(Verifying(K) \ {k}) =
              IF k \in Verifying(K) THEN Cardinality(Verifying(K)) - 1
              ELSE Cardinality(Verifying(K))
      BY <3>1, FS_RemoveElement
    <3>3. Cardinality(Untold(K) \cup {k}) =
              IF k \in Untold(K) THEN Cardinality(Untold(K)) ELSE Cardinality(Untold(K)) + 1
      BY <3>1, FS_AddElement
    <3> QED
      BY <2>9, <3>2, <3>3
  <2>11. Slack' = Slack /\ guesses'[K] = guesses[K] + 1 /\ guesses' \in [Key -> Nat]
         /\ \A key \in Key \ {K} : guesses'[key] = guesses[key]
    BY <1>1, <1>5, <2>1 DEF Slack
  <2>12. GuessesCounted(K)'
    BY <1>1, <2>10, <2>11, BoundsOfKey DEF GuessesCounted
  <2>13. TriesBounded(K)'
    BY <1>1, <2>10, <2>11, BoundsOfKey DEF TriesBounded
  <2>14. \A key \in Key : GuessesCounted(key)' /\ TriesBounded(key)'
    BY <1>1, <2>9, <2>11, <2>12, <2>13, OtherBounds
  <2> QED
    BY <1>1, <1>5, <2>2, <2>4, <2>7, <2>11, <2>14, AttemptStep
<1> QED
  BY <1>7, <1>8

\* What the updates that compare a PIN leave of it once the counter was told.
LEMMA ToldStep ==
    ASSUME OInv, NEW k \in Task, NEW op \in {"failure", "forgive"}, AtStep(k, op), Continue(k),
           UNCHANGED <<rows, confirm, userHits, tokenHits, grants, fsm, target, shown, asked,
                       faults, updates, events, opened, history>>,
           pinHits' \in [Key -> Counter], guesses' \in [Key -> Nat],
           \A key \in Key \ {KeyOf(k)} : guesses'[key] = guesses[key] /\ pinHits'[key] = pinHits[key],
           \/ /\ pinHits'[KeyOf(k)].count = pinHits[KeyOf(k)].count + 1
              /\ guesses'[KeyOf(k)] = guesses[KeyOf(k)]
           \/ pinHits'[KeyOf(k)].count = 0 /\ guesses'[KeyOf(k)] = 0
    PROVE  OInv'
<1> DEFINE t == task[k]
<1>1. /\ t \in Update /\ t # Free /\ t.todo \in {FailSteps2, GrantSteps4, OpenSteps4}
      /\ Head(t.todo) = op
  BY AtStepTodo, TodoOfStep
<1>2. t.todo \in Comparing /\ t.todo # PinSteps1
  BY <1>1, FirstSteps DEF Comparing
<1>3. PICK K \in Key : K = KeyOf(k)
  BY KeyOfStep
<1>4. PICK n \in Update :
          /\ task' = [task EXCEPT ![k] = n]
          /\ n.todo = Tail(t.todo)
          /\ n # Free => n.user = t.user /\ n.secret = t.secret
          /\ Fits(n, rows, confirm, history)
          /\ n.todo \notin Comparing /\ n.todo # PinSteps1
  <2>1. Resume(k, t, Tail(t.todo)) /\ op # "see_grant" /\ op # "which" /\ op # "status_pin"
    BY DEF Continue
  <2> QED
    BY <1>1, <2>1, GoesOn
<1>5. /\ \A key \in Key \ {K} : Verifying(key)' = Verifying(key) /\ Untold(key)' = Untold(key)
      /\ Verifying(K)' = Verifying(K) \ {k} /\ Untold(K)' = Untold(K) \ {k}
      /\ k \notin Verifying(K) /\ k \in Untold(K)
  <2>1. task[k].todo \in Comparing /\ task[k].todo # PinSteps1
    BY <1>2
  <2>2. n # Free => n.user = task[k].user /\ n.secret = task[k].secret
    BY <1>4
  <2>3. task' = [task EXCEPT ![k] = n] /\ n.todo # PinSteps1 /\ n.todo \notin Comparing
    BY <1>4
  <2>4. /\ \A key \in Key \ {K} : Verifying(key)' = Verifying(key) /\ Untold(key)' = Untold(key)
        /\ Verifying(K)' = Verifying(K) \ {k} /\ Untold(K)' = Untold(K) \ {k}
        /\ k \in Verifying(K) <=> task[k].todo = PinSteps1
        /\ k \in Untold(K) <=> task[k].todo \in Comparing
    BY <1>3, <2>2, <2>3, AttemptLeft, ZenonT(60)
  <2> QED
    BY <2>1, <2>4
<1>6. Verifying(K)' = Verifying(K)
  BY <1>5
<1>7. Cardinality(Untold(K)') = Cardinality(Untold(K)) - 1
  <2>1. IsFiniteSet(Untold(K))
    BY BoundsOfKey
  <2>2. Cardinality(Untold(K) \ {k}) =
            IF k \in Untold(K) THEN Cardinality(Untold(K)) - 1 ELSE Cardinality(Untold(K))
    BY <2>1, FS_RemoveElement
  <2> QED
    BY <1>5, <2>2
<1>8. Slack' = Slack
  BY DEF Slack
<1>9. GuessesCounted(K)'
  <2>1. Cardinality(Untold(K)') \in Nat
    BY <1>5, <1>7, BoundsOfKey, FS_RemoveElement, FS_CardinalityType
  <2> QED
    BY <1>3, <1>7, <1>8, <2>1, BoundsOfKey DEF GuessesCounted
<1>10. TriesBounded(K)'
  BY <1>3, <1>6, <1>8, BoundsOfKey DEF TriesBounded
<1>11. \A key \in Key : GuessesCounted(key)' /\ TriesBounded(key)'
  BY <1>3, <1>5, <1>9, <1>10, OtherBounds
<1>12. Fits(n, rows', confirm', history')
  BY <1>4
<1>13. history' \in [proved: SUBSET Key, confirmed: SUBSET Key]
  BY DEF OInv, TypeOK
<1> QED
  BY <1>4, <1>11, <1>12, <1>13, AttemptStep

LEMMA FailureStep ==
    ASSUME OInv, NEW k \in Task, Failure(k)
    PROVE  OInv'
<1>1. /\ AtStep(k, "failure") /\ Continue(k)
      /\ pinHits' = [pinHits EXCEPT ![KeyOf(k)] = Hit(@)]
      /\ UNCHANGED <<rows, confirm, userHits, tokenHits, grants, fsm, target, shown, asked,
                     faults, updates, events, guesses, opened, history>>
  BY DEF Failure, secrets, dialogue, buttons, bounds, ghosts
<1>2. PICK K \in Key : K = KeyOf(k)
  BY <1>1, KeyOfStep
<1>3. pinHits \in [Key -> Counter] /\ pinHits[K] \in Counter /\ guesses' \in [Key -> Nat]
  BY <1>1, Unpack DEF OInv, TypeOK
<1>4. Hit(pinHits[K]) \in Counter /\ Hit(pinHits[K]).count = pinHits[K].count + 1
  BY <1>3, HitCounts
<1>5. /\ pinHits' \in [Key -> Counter]
      /\ pinHits'[K].count = pinHits[K].count + 1
      /\ \A key \in Key \ {K} : pinHits'[key] = pinHits[key]
  BY <1>1, <1>2, <1>3, <1>4
<1> QED
  BY <1>1, <1>2, <1>3, <1>5, ToldStep

LEMMA ForgiveStep ==
    ASSUME OInv, NEW k \in Task, Forgive(k)
    PROVE  OInv'
<1>1. /\ AtStep(k, "forgive") /\ Continue(k)
      /\ pinHits' = [pinHits EXCEPT ![KeyOf(k)] = NoHits]
      /\ guesses' = [guesses EXCEPT ![KeyOf(k)] = 0]
      /\ UNCHANGED <<rows, confirm, userHits, tokenHits, grants, fsm, target, shown, asked,
                     faults, updates, events, opened, history>>
  BY DEF Forgive, Expired, secrets, dialogue, buttons, bounds, ghosts
<1>2. PICK K \in Key : K = KeyOf(k)
  BY <1>1, KeyOfStep
<1>3. pinHits \in [Key -> Counter] /\ guesses \in [Key -> Nat]
  BY Unpack DEF OInv, TypeOK
<1>4. /\ pinHits' \in [Key -> Counter] /\ guesses' \in [Key -> Nat]
      /\ pinHits'[K].count = 0 /\ guesses'[K] = 0
      /\ \A key \in Key \ {K} : pinHits'[key] = pinHits[key] /\ guesses'[key] = guesses[key]
  BY <1>1, <1>2, <1>3, NoHitsCounter
<1> QED
  BY <1>1, <1>2, <1>4, ToldStep

\* The open books what the viewer has behind him, as the updates before an open have.
LEMMA DeliverStep ==
    ASSUME OInv, NEW k \in Task, Deliver(k)
    PROVE  OInv'
<1> DEFINE s == task[k].secret
           u == task[k].user
           o == Opened(rows[s], u, 0)
           entry == [key |-> <<s, u>>, pin |-> rows[s].pin,
                     proved |-> <<s, u>> \in history.proved,
                     confirmed |-> s \notin confirm \/ <<s, u>> \in history.confirmed]
<1>1. AtStep(k, "deliver") /\ Return(k)
      /\ UNCHANGED <<confirm, userHits, tokenHits, pinHits, grants, fsm, target, shown, asked,
                     faults, updates, events, guesses, history>>
  BY DEF Deliver, counters, dialogue, buttons, bounds
<1>2. s \in Secret /\ u \in User /\ <<s, u>> \in Key
  BY <1>1, KeyOfStep DEF KeyOf
<1>3. task[k].todo = OpenSteps1 /\ task[k] # Free /\ Fits(task[k], rows, confirm, history)
  BY <1>1, AtStepTodo, TodoOfStep
<1>4. /\ rows[s].pin => <<s, u>> \in history.proved
      /\ s \in confirm => <<s, u>> \in history.confirmed
  BY <1>3 DEF Fits, BeforeOpen
<1>5. CASE ~MayOpen(rows[s], u, 0)
  <2>1. UNCHANGED <<secrets, counters, grants, dialogue, shown, bounds, ghosts>>
        /\ asked' \subseteq asked \cup {KeyOf(k)}
    BY <1>1, <1>5 DEF Deliver, secrets, counters, dialogue, bounds, ghosts
  <2>2. Goto(k, <<>>)
    BY <1>1 DEF Return
  <2> DEFINE todo == <<>>
  <2>3. todo \in {ClearSteps, AskSteps3, <<>>} /\ Goto(k, todo)
    BY <2>2
  <2> HIDE DEF todo
  <2> QED
    BY <1>1, <2>1, <2>3, TurnsStep
<1>6. CASE MayOpen(rows[s], u, 0)
  <2>1. rows' = [rows EXCEPT ![s] = o] /\ opened' = opened \cup {entry}
    BY <1>6 DEF Deliver
  <2>2. rows \in [Secret -> Row] /\ rows[s] \in Row /\ 0 \in Nat
    BY <1>2 DEF OInv, TypeOK
  <2>3. o \in Row /\ (o.pin => rows[s].pin)
    BY <1>2, <2>2, OpenedFields
  <2>4. rows' \in [Secret -> Row] /\ \A x \in Secret : rows'[x].pin => rows[x].pin
    <3> HIDE DEF o
    <3> QED
      BY <1>2, <2>1, <2>2, <2>3
  <2>5. task' = [task EXCEPT ![k] = Free] /\ Fits(Free, rows', confirm', history')
    BY <1>1, Returns
  <2>6. Free \in Update /\ Free.todo = <<>>
    BY FreeUpdate
  <2>7. history.proved \subseteq history'.proved /\ history.confirmed \subseteq history'.confirmed
    BY <1>1
  <2>8. /\ task' \in [Task -> Update]
        /\ \A j \in Task : Fits(task'[j], rows', confirm', history')
    BY <1>1, <2>4, <2>5, <2>6, <2>7, OthersFit
  <2>9. task[k].todo \notin Attempting /\ Free.todo \notin Attempting
    BY <1>3, <2>6, FirstSteps DEF Attempting, Comparing
  <2>10. \A key \in Key : GuessesCounted(key)' /\ TriesBounded(key)'
    BY <1>1, <2>5, <2>6, <2>9, SameCounts, SameBounds
  <2>11. entry \in [key: Key, pin: BOOLEAN, proved: BOOLEAN, confirmed: BOOLEAN]
    <3>1. rows[s].pin \in BOOLEAN
      BY <2>2 DEF Row
    <3>2. (<<s, u>> \in history.proved) \in BOOLEAN
          /\ (s \notin confirm \/ <<s, u>> \in history.confirmed) \in BOOLEAN
      OBVIOUS
    <3> QED
      BY <1>2, <3>1, <3>2
  <2>12. (entry.pin => entry.proved) /\ entry.confirmed
    BY <1>4
  <2>13. TypeOK'
    <3> HIDE DEF entry
    <3> QED
      BY <1>1, <2>1, <2>4, <2>8, <2>11 DEF OInv, TypeOK, Update
  <2>14. PinBeforeOpen' /\ ConfirmationBeforeOpen'
    <3> HIDE DEF entry
    <3> QED
      BY <2>1, <2>12 DEF OInv, PinBeforeOpen, ConfirmationBeforeOpen
  <2>15. grants' \subseteq history'.proved
    BY <1>1 DEF OInv
  <2> QED
    BY <2>8, <2>10, <2>13, <2>14, <2>15 DEF OInv
<1> QED
  BY <1>5, <1>6

-----------------------------------------------------------------------------
(* What happens meanwhile *)

\* A secret, a counter or a grant ends; the updates go on.
LEMMA EndsStep ==
    ASSUME OInv,
           UNCHANGED <<confirm, fsm, target, task, shown, asked, faults, updates, opened, history>>,
           events' \in Nat, rows' \in [Secret -> Row],
           \A s \in Secret : rows'[s].pin => rows[s].pin,
           userHits' \in [User -> Counter], tokenHits' \in [Secret -> Counter],
           pinHits' \in [Key -> Counter], guesses' \in [Key -> Nat], grants' \subseteq grants,
           \A key \in Key : \/ guesses'[key] = guesses[key] /\ pinHits'[key] = pinHits[key]
                            \/ guesses'[key] = 0 /\ pinHits'[key].count = 0
    PROVE  OInv'
<1>1. \A k \in Task : Fits(task[k], rows, confirm, history)
  BY DEF OInv
<1>2. \A k \in Task : Fits(task[k], rows', confirm, history)
  <2>1. BeforeOpen \cap {PinSteps3} = {}
    BY FirstSteps DEF BeforeOpen
  <2> QED
    BY <1>1, <2>1 DEF Fits
<1>3. \A key \in Key : GuessesCounted(key)' /\ TriesBounded(key)'
  <2> SUFFICES ASSUME NEW key \in Key
               PROVE  GuessesCounted(key)' /\ TriesBounded(key)'
    OBVIOUS
  <2>1. Verifying(key)' = Verifying(key) /\ Untold(key)' = Untold(key) /\ Slack' = Slack
    BY DEF Verifying, Untold, KeyOf, Slack
  <2>2. GuessesCounted(key) /\ TriesBounded(key)
    BY DEF OInv
  <2>3. CASE guesses'[key] = guesses[key] /\ pinHits'[key] = pinHits[key]
    BY <2>1, <2>2, <2>3 DEF GuessesCounted, TriesBounded
  <2>4. CASE guesses'[key] = 0 /\ pinHits'[key].count = 0
    BY <2>1, <2>4, BoundsOfKey DEF GuessesCounted, TriesBounded
  <2> QED
    BY <2>3, <2>4
<1>4. TypeOK'
  BY DEF OInv, TypeOK
<1>5. PinBeforeOpen' /\ ConfirmationBeforeOpen'
  BY DEF OInv, PinBeforeOpen, ConfirmationBeforeOpen
<1>6. task' \in [Task -> Update] /\ grants' \subseteq history'.proved
      /\ \A k \in Task : Fits(task'[k], rows', confirm', history')
  BY <1>2 DEF OInv
<1> QED
  BY <1>3, <1>4, <1>5, <1>6 DEF OInv

\* A crash forgets every update; what they tried and had not told goes into the slack.
LEMMA CrashStep ==
    ASSUME OInv, Crash
    PROVE  OInv'
<1>1. /\ task' = [k \in Task |-> Free] /\ faults' = faults + 1 /\ events' = events + 1
      /\ UNCHANGED <<rows, confirm, userHits, tokenHits, pinHits, grants, fsm, target, shown,
                     asked, updates, guesses, opened, history>>
  BY DEF Crash, Event, secrets, counters, dialogue, buttons, ghosts
<1>2. faults \in Nat /\ events \in Nat
  BY DEF OInv, TypeOK
<1>3. \A k \in Task : task'[k] = Free
  BY <1>1
<1>4. task' \in [Task -> Update] /\ \A k \in Task : Fits(task'[k], rows', confirm', history')
  BY <1>1, FreeUpdate DEF Fits
<1>5. <<>> # PinSteps1 /\ <<>> \notin Comparing
  BY FirstSteps DEF Comparing
<1>6. Slack' = Slack + Cardinality(Task)
  <2>1. \A n, f \in Nat : n * (f + 1) = n * f + n
    OBVIOUS
  <2> QED
    BY <1>1, <1>2, <2>1, TasksFinite DEF Slack
<1>7. \A key \in Key : GuessesCounted(key)' /\ TriesBounded(key)'
  <2> SUFFICES ASSUME NEW key \in Key
               PROVE  GuessesCounted(key)' /\ TriesBounded(key)'
    OBVIOUS
  <2>1. Verifying(key)' = {} /\ Untold(key)' = {}
    BY <1>3, <1>5, FreeUpdate DEF Verifying, Untold
  <2>2. Cardinality(Verifying(key)') = 0 /\ Cardinality(Untold(key)') = 0
    BY <2>1, FS_EmptySet
  <2>3. GuessesCounted(key)'
    BY <1>1, <1>6, <2>2, BoundsOfKey DEF GuessesCounted
  <2>4. TriesBounded(key)'
    BY <1>1, <1>6, <2>2, BoundsOfKey DEF TriesBounded
  <2> QED
    BY <2>3, <2>4
<1>8. TypeOK'
  BY <1>1, <1>2, <1>4 DEF OInv, TypeOK, Update
<1>9. grants' \subseteq history'.proved /\ PinBeforeOpen' /\ ConfirmationBeforeOpen'
  BY <1>1 DEF OInv, PinBeforeOpen, ConfirmationBeforeOpen
<1> QED
  BY <1>4, <1>7, <1>8, <1>9 DEF OInv

LEMMA MeanwhileStep ==
    ASSUME OInv, Meanwhile
    PROVE  OInv'
<1> USE DEF secrets, counters, dialogue, buttons, ghosts
<1>1. /\ events \in Nat /\ rows \in [Secret -> Row] /\ guesses \in [Key -> Nat]
      /\ userHits \in [User -> Counter] /\ tokenHits \in [Secret -> Counter]
      /\ pinHits \in [Key -> Counter]
  BY DEF OInv, TypeOK
<1>2. ASSUME NEW s \in Secret, SecretEnds(s)
      PROVE  OInv'
  <2> DEFINE d == Destroyed(rows[s], "manual", "destroyed")
  <2>1. "manual" \in Reason /\ "destroyed" \in Status \ {"active"} /\ rows[s] \in Row
    BY <1>1 DEF Reason, Status
  <2>2. d \in Row /\ ~d.pin
    BY <2>1, DestroyedFields
  <2>3. rows' = [rows EXCEPT ![s] = d]
    BY <1>2 DEF SecretEnds
  <2> HIDE DEF d
  <2>4. rows' \in [Secret -> Row] /\ \A x \in Secret : rows'[x].pin => rows[x].pin
    BY <1>1, <2>2, <2>3
  <2>5. events' \in Nat
    BY <1>1, <1>2 DEF SecretEnds, Event
  <2>6. UNCHANGED <<confirm, userHits, tokenHits, pinHits, grants, fsm, target, task, shown,
                    asked, faults, updates, guesses, opened, history>>
    BY <1>2 DEF SecretEnds
  <2> QED
    BY <1>1, <2>4, <2>5, <2>6, EndsStep
<1>3. ASSUME NEW s \in Secret, TokenWindowEnds(s)
      PROVE  OInv'
  <2>1. tokenHits' \in [Secret -> Counter] /\ events' \in Nat
    BY <1>1, <1>3, NoHitsCounter DEF TokenWindowEnds, Event, Expired
  <2>2. UNCHANGED <<rows, confirm, userHits, pinHits, grants, fsm, target, task, shown,
                    asked, faults, updates, guesses, opened, history>>
    BY <1>3 DEF TokenWindowEnds
  <2> QED
    BY <1>1, <2>1, <2>2, EndsStep
<1>4. ASSUME NEW u \in User, UserWindowEnds(u)
      PROVE  OInv'
  <2>1. userHits' \in [User -> Counter] /\ events' \in Nat
    BY <1>1, <1>4, NoHitsCounter DEF UserWindowEnds, Event, Expired
  <2>2. UNCHANGED <<rows, confirm, tokenHits, pinHits, grants, fsm, target, task, shown,
                    asked, faults, updates, guesses, opened, history>>
    BY <1>4 DEF UserWindowEnds
  <2> QED
    BY <1>1, <2>1, <2>2, EndsStep
<1>5. ASSUME NEW K \in Key, LockoutEnds(K)
      PROVE  OInv'
  <2>1. /\ pinHits' = [pinHits EXCEPT ![K] = NoHits] /\ guesses' = [guesses EXCEPT ![K] = 0]
        /\ events' \in Nat
    BY <1>1, <1>5 DEF LockoutEnds, Event, Expired
  <2>2. UNCHANGED <<rows, confirm, userHits, tokenHits, grants, fsm, target, task, shown,
                    asked, faults, updates, opened, history>>
    BY <1>5 DEF LockoutEnds
  <2>3. /\ pinHits' \in [Key -> Counter] /\ guesses' \in [Key -> Nat]
        /\ \A key \in Key : \/ guesses'[key] = guesses[key] /\ pinHits'[key] = pinHits[key]
                            \/ guesses'[key] = 0 /\ pinHits'[key].count = 0
    BY <1>1, <2>1, NoHitsCounter
  <2> QED
    BY <1>1, <2>1, <2>2, <2>3, EndsStep
<1>6. ASSUME NEW K \in Key, GrantExpires(K)
      PROVE  OInv'
  <2>1. grants' \subseteq grants /\ events' \in Nat
    BY <1>1, <1>6 DEF GrantExpires, Event
  <2>2. UNCHANGED <<rows, confirm, userHits, tokenHits, pinHits, fsm, target, task, shown,
                    asked, faults, updates, guesses, opened, history>>
    BY <1>6 DEF GrantExpires
  <2> QED
    BY <1>1, <2>1, <2>2, EndsStep
<1> QED
  BY <1>2, <1>3, <1>4, <1>5, <1>6, CrashStep DEF Meanwhile

-----------------------------------------------------------------------------
(* The theorems *)

LEMMA OpenInit ==
    ASSUME Init
    PROVE  OInv
<1>1. rows \in [Secret -> Row]
  <2>1. PICK d \in [Secret -> Drafts], creator \in User :
            rows = [s \in Secret |-> NewRow(creator, d[s], NoPath, 0)]
    BY DEF Init
  <2>2. ASSUME NEW s \in Secret
        PROVE  NewRow(creator, d[s], NoPath, 0) \in Row
    <3> DEFINE e == d[s]
               p == NoPath
               t == 0
    <3>1. ValidDraft(e) /\ p \in Path \cup {NoPath} /\ t \in Nat
      BY OpenDraftAssumption
    <3> HIDE DEF e, p, t
    <3>2. NewRow(creator, e, p, t) \in Row
      BY <3>1, NewRowFields
    <3> QED
      BY <3>2 DEF e, p, t
  <2> QED
    BY <2>1, <2>2
<1>2. TypeOK
  BY <1>1, NoHitsCounter DEF Init, TypeOK, Free
<1>3. task \in [Task -> Update] /\ \A k \in Task : Fits(task[k], rows, confirm, history)
  BY FreeUpdate DEF Init, Fits
<1>4. grants \subseteq history.proved /\ PinBeforeOpen /\ ConfirmationBeforeOpen
  BY DEF Init, PinBeforeOpen, ConfirmationBeforeOpen
<1>5. \A key \in Key : GuessesCounted(key) /\ TriesBounded(key)
  <2> SUFFICES ASSUME NEW key \in Key
               PROVE  GuessesCounted(key) /\ TriesBounded(key)
    OBVIOUS
  <2>1. <<>> # PinSteps1 /\ <<>> \notin Comparing
    BY FirstSteps DEF Comparing
  <2>2. Verifying(key) = {} /\ Untold(key) = {}
    BY <2>1, FreeUpdate DEF Init, Verifying, Untold
  <2>3. Cardinality(Verifying(key)) = 0 /\ Cardinality(Untold(key)) = 0
    BY <2>2, FS_EmptySet
  <2>4. guesses[key] = 0 /\ pinHits[key].count = 0 /\ faults = 0
    BY NoHitsCounter DEF Init
  <2>5. Slack = 0
    BY <2>4, TasksFinite DEF Slack
  <2> QED
    BY <2>3, <2>4, <2>5, TasksFinite, OpenAssumption DEF GuessesCounted, TriesBounded
<1> QED
  BY <1>2, <1>3, <1>4, <1>5 DEF OInv

LEMMA OpenStep ==
    ASSUME OInv, [Next]_vars
    PROVE  OInv'
<1>1. CASE UNCHANGED vars
  <2>1. \A key \in Key : Verifying(key)' = Verifying(key) /\ Untold(key)' = Untold(key)
    BY <1>1 DEF vars, Verifying, Untold, KeyOf
  <2>2. \A key \in Key : GuessesCounted(key)' /\ TriesBounded(key)'
    BY <1>1, <2>1, SameBounds DEF vars
  <2>3. TypeOK'
    BY <1>1 DEF vars, OInv, TypeOK
  <2> QED
    BY <1>1, <2>2, <2>3 DEF vars, OInv, PinBeforeOpen, ConfirmationBeforeOpen
<1>2. CASE Meanwhile
  BY <1>2, MeanwhileStep
<1>3. ASSUME NEW k \in Task, Receive(k)
      PROVE  OInv'
  BY <1>3, ReceiveStep
<1>4. ASSUME NEW k \in Task, Step(k)
      PROVE  OInv'
  BY <1>4, DialogueStep, HitUserStep, ShowStep, DeliverStep, LookStep, StatusRevealStep,
     WhichStep, StatusPinStep, VerifyStep, FailureStep, RecountStep, ForgiveStep, GrantStep,
     LookConfirmStep, SeeGrantStep, DropGrantStep DEF Step
<1> QED
  BY <1>1, <1>2, <1>3, <1>4 DEF Next

\* In every reachable state the conjuncts of OInv hold: what an update still has to do says
\* what its user has done, and the attempts are bounded step by step.
THEOREM OpenInvariant == Spec => []OInv
BY OpenInit, OpenStep, PTL DEF Spec

\* Rows, counters, grants and dialogues stay in their sets, whatever updates interleave.
THEOREM OpenTypesCorrect == Spec => []TypeOK
<1>1. OInv => TypeOK
  BY DEF OInv
<1> QED
  BY <1>1, OpenInvariant, PTL

\* Nobody opens a PIN-protected secret without having entered the PIN of this secret, however
\* the dialogues of several secrets and users interleave.
THEOREM PinAlwaysBeforeOpen == Spec => []PinBeforeOpen
<1>1. OInv => PinBeforeOpen
  BY DEF OInv
<1> QED
  BY <1>1, OpenInvariant, PTL

\* Nobody opens a secret that asks for confirmation without having confirmed.
THEOREM ConfirmationAlwaysBeforeOpen == Spec => []ConfirmationBeforeOpen
<1>1. OInv => ConfirmationBeforeOpen
  BY DEF OInv
<1> QED
  BY <1>1, OpenInvariant, PTL

\* Until the counter starts again a user tries fewer PINs than the limit and, for the updates
\* before each crash and those now, one more for each of them.
THEOREM AttemptsStayBounded == Spec => []AttemptsBounded
<1>1. OInv => AttemptsBounded
  <2> SUFFICES ASSUME OInv, NEW k \in Key
               PROVE  guesses[k] + 1 <= PinMax + Cardinality(Task) * (1 + faults)
    BY DEF AttemptsBounded
  <2>1. faults \in Nat
    BY DEF OInv, TypeOK
  <2>2. \A n, f \in Nat : n * (1 + f) = n + n * f
    OBVIOUS
  <2>3. Cardinality(Task) * (1 + faults) = Cardinality(Task) + Slack
    BY <2>1, <2>2, TasksFinite DEF Slack
  <2> QED
    BY <2>3, BoundsOfKey
<1> QED
  BY <1>1, OpenInvariant, PTL

=============================================================================
