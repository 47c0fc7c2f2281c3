-------------------------- MODULE CreateFlowProofs --------------------------
(***************************************************************************)
(* What holds of every instance of CreateFlow: any number of tasks of the  *)
(* user, any secrets, files and recipients, any character sets.            *)
(*                                                                         *)
(* FlowInv is the inductive invariant. Tasks do their steps in the order   *)
(* handlers write them (Ordered), and every copy of the draft, in Redis,   *)
(* in a task or about to be written, pairs mode and recipient (Draft,      *)
(* Patch). While the user is calm (CalmInv) the copy a step uses is the    *)
(* draft itself, a patch that is not plain is written over the draft it    *)
(* was made for, and the draft's file is no secret's unless the draft is   *)
(* about to be wiped.                                                      *)
(***************************************************************************)
EXTENDS CreateFlow, SequenceTheorems, TLAPS

-----------------------------------------------------------------------------
(* What a draft and a patch are *)

Value == {"none", "text", "file", "unset", "any", "first", "specific"} \cup BOOLEAN
         \cup Path \cup {NoPath} \cup Recipient \cup {NoUser}

\* A recipient is named exactly by the mode that needs one.
Paired(d) == d.mode = "specific" <=> d.recipient # NoUser

Draft == {d \in [DOMAIN Blank -> Value] : IsDraft(d) /\ Paired(d)}

\* What a handler writes over a draft: of the right types, and mode and recipient together.
IsPatch(p) ==
    /\ "content" \in DOMAIN p => p.content \in {"text", "file"}
    /\ "payload" \in DOMAIN p => p.payload \in {"text", "file"}
    /\ "path" \in DOMAIN p => p.path \in Path
    /\ \A f \in {"ttl", "views"} \cup Charset : f \in DOMAIN p => p[f] \in BOOLEAN
    /\ "mode" \in DOMAIN p <=> "recipient" \in DOMAIN p
    /\ "mode" \in DOMAIN p => /\ p.mode \in {"any", "first", "specific"}
                              /\ p.recipient \in Recipient \cup {NoUser}
                              /\ Paired(p)

Patch == {p \in UNION {[D -> Value] : D \in SUBSET DOMAIN Blank} : IsPatch(p)}

\* A patch that brings no file and switches no character set off.
Plain(p) ==
    /\ "path" \notin DOMAIN p
    /\ \A c \in Charset : c \in DOMAIN p => p[c]

-----------------------------------------------------------------------------
(* What a task has to do *)

Work == {"encrypt", "download", "save", "password", "insert"}

Steps ==
    {Get, Fetch, Wipe, Unlink} \cup {Do(w) : w \in Work} \cup {Put(p) : p \in Patch}
    \cup {To(s) : s \in States} \cup {Default(f) : f \in {"ttl", "views", "mode"}}
    \cup {Toggle(c) : c \in Charset}

\* Which steps use the copy of the draft that the step before them read.
UsesCopy == {"unlink", "insert", "toggle"}

\* The order in which handlers take their steps, as far as the proof needs it.
Ordered(s) ==
    \A i \in 1..Len(s) :
        /\ s[i].op = "put" /\ i > 1 => s[i - 1].op = "fetch"
        /\ s[i].op \in UsesCopy /\ i > 1 => s[i - 1].op = "get"
        /\ s[i].op = "toggle" => i = Len(s)
        /\ s[i].op \in {"unlink", "insert"} =>
               i + 2 <= Len(s) /\ s[i + 1].op = "to" /\ s[i + 2].op = "wipe"
        /\ s[i].op = "download" => i + 1 <= Len(s) /\ s[i + 1].op = "save"

Job == [todo : Seq(Steps), copy : Draft, base : Draft]

-----------------------------------------------------------------------------
(* The inductive invariant *)

Typed ==
    /\ fsm \in States
    /\ data \in Draft
    /\ disk \subseteq Path
    /\ plaintext \subseteq (Task \X Nat)
    /\ task \in [Task -> Job]
    /\ DOMAIN secrets = Secret
    /\ life \in 0..faults
    /\ faults \in 0..MaxFaults
    /\ calm \in BOOLEAN

SecretFits(x) ==
    x # NoSecret => /\ x.content \in {"text", "file"}
                    /\ x.mode \in {"any", "first", "specific"}
                    /\ Paired(x)

\* A task that is busy has steps left, and in order.
TaskFits(t) == t # Free => t.todo # <<>> /\ Ordered(t.todo)

\* A calm user has one task at a time.
OneTask == calm => \A j, k \in Task : Busy(j) /\ Busy(k) => j = k

\* A file that is there and no secret's.
Unused(f) == f \in disk /\ \A s \in Created : secrets[s].path # f

\* A patch whose effect on the present draft is known: it is about to be written.
Awaited(p) ==
    /\ Enabled(Merge(data, p)) # {}
    /\ "path" \in DOMAIN p => Unused(p.path)

\* Of a calm user, copies of the draft are as good as the draft when they are used, and what is
\* about to be written over the draft does no harm.
CalmTask(t) ==
    /\ t.todo[1].op = "put" => t.base = data
    /\ t.todo[1].op \in UsesCopy => t.copy = data
    /\ \A i \in 1..Len(t.todo) :
           t.todo[i].op = "put" =>
               \/ Plain(t.todo[i].patch)
               \/ /\ i <= 2 /\ (i = 2 => t.todo[1].op = "fetch")
                  /\ Awaited(t.todo[i].patch)

\* The draft is about to be forgotten.
WipeAhead(s) ==
    \/ s[1].op = "wipe"
    \/ Len(s) >= 2 /\ s[1].op = "to" /\ s[2].op = "wipe"

\* The draft's file is there and no secret's, or the draft is about to be forgotten.
DraftFile ==
    \/ data.path = NoPath
    \/ Unused(data.path)
    \/ \E k \in Task : Busy(k) /\ WipeAhead(task[k].todo)

\* Secrets have their files, each its own.
SecretFiles ==
    \A s \in {t \in Created : secrets[t].path # NoPath} :
        /\ secrets[s].path \in disk
        /\ \A t \in Created \ {s} : secrets[t].path # secrets[s].path

CalmInv ==
    calm => /\ \A k \in Task : Busy(k) => CalmTask(task[k])
            /\ Enabled(data) # {}
            /\ DraftFile
            /\ SecretFiles

\* No download is of a life of the process that is still to come.
NoLaterLife == \A j \in Task, n \in Nat : <<j, n>> \in plaintext => n <= life

FlowInv ==
    /\ Typed
    /\ NoLaterLife
    /\ \A s \in Secret : SecretFits(secrets[s])
    /\ \A k \in Task : TaskFits(task[k])
    /\ UploadPlaintextRemoved
    /\ OneTask
    /\ CalmInv

-----------------------------------------------------------------------------
(* Lemmas about drafts and patches *)

LEMMA Fields ==
    /\ DOMAIN Blank = {"content", "payload", "path", "ttl", "views", "mode", "recipient"} \cup Charset
    /\ Charset \cap {"content", "payload", "path", "ttl", "views", "mode", "recipient"} = {}
    /\ Charset # {}
BY FlowAssumption DEF Blank

LEMMA BlankDraft ==
    /\ Blank \in Draft
    /\ Blank.path = NoPath
    /\ Enabled(Blank) # {}
<1>1. /\ Blank.content = "none" /\ Blank.payload = "none" /\ Blank.path = NoPath
      /\ Blank.mode = "unset" /\ Blank.recipient = NoUser
      /\ Blank["ttl"] = FALSE /\ Blank["views"] = FALSE
  BY DEF Blank
<1>2. \A c \in Charset : Blank[c] = TRUE
  BY FlowAssumption DEF Blank
<1>3. \A f \in DOMAIN Blank : Blank[f] \in Value
  BY <1>1, <1>2, Fields DEF Value
<1>4. Blank \in [DOMAIN Blank -> Value]
  BY <1>3 DEF Blank
<1>5. IsDraft(Blank)
  BY <1>1, <1>2 DEF IsDraft
<1>6. Paired(Blank)
  BY <1>1 DEF Paired
<1>7. Enabled(Blank) # {}
  BY <1>2, Fields DEF Enabled
<1> QED
  BY <1>1, <1>4, <1>5, <1>6, <1>7 DEF Draft

\* A patch over a draft makes a draft; what the patch does not name stays.
LEMMA Merged ==
    ASSUME NEW d \in Draft, NEW p \in Patch
    PROVE  /\ Merge(d, p) \in Draft
           /\ Merge(d, p).path = IF "path" \in DOMAIN p THEN p.path ELSE d.path
           /\ \A c \in Charset : Merge(d, p)[c] = IF c \in DOMAIN p THEN p[c] ELSE d[c]
<1> DEFINE m == Merge(d, p)
<1>1. /\ d \in [DOMAIN Blank -> Value] /\ IsDraft(d) /\ Paired(d) /\ DOMAIN d = DOMAIN Blank
  BY DEF Draft
<1>2. IsPatch(p)
  BY DEF Patch
<1>3. PICK D \in SUBSET DOMAIN Blank : p \in [D -> Value]
  BY DEF Patch
<1>4. /\ DOMAIN m = DOMAIN Blank
      /\ \A f \in DOMAIN Blank : m[f] = IF f \in D THEN p[f] ELSE d[f]
      /\ DOMAIN p = D
  BY <1>1, <1>3 DEF Merge
<1>5. m \in [DOMAIN Blank -> Value]
  <2>1. \A f \in DOMAIN Blank : m[f] \in Value
    BY <1>1, <1>3, <1>4
  <2>2. m = [f \in DOMAIN Blank |-> IF f \in DOMAIN p THEN p[f] ELSE d[f]]
    BY <1>1 DEF Merge
  <2> QED
    BY <2>1, <2>2, <1>4
<1>6. /\ m.content = IF "content" \in D THEN p.content ELSE d.content
      /\ m.payload = IF "payload" \in D THEN p.payload ELSE d.payload
      /\ m.path = IF "path" \in D THEN p.path ELSE d.path
      /\ m.mode = IF "mode" \in D THEN p.mode ELSE d.mode
      /\ m.recipient = IF "recipient" \in D THEN p.recipient ELSE d.recipient
      /\ \A f \in {"ttl", "views"} \cup Charset : m[f] = IF f \in D THEN p[f] ELSE d[f]
  BY <1>4, Fields
<1> HIDE DEF m
<1>7. IsDraft(m)
  BY <1>1, <1>2, <1>4, <1>6 DEF IsDraft, IsPatch
<1>8. Paired(m)
  BY <1>1, <1>2, <1>4, <1>6 DEF Paired, IsPatch
<1> QED
  BY <1>4, <1>5, <1>6, <1>7, <1>8 DEF Draft, m

\* Character sets only come on by a plain patch.
LEMMA PlainKeepsAlphabet ==
    ASSUME NEW d \in Draft, NEW p \in Patch, Plain(p), Enabled(d) # {}
    PROVE  Enabled(Merge(d, p)) # {}
<1>1. PICK c \in Charset : d[c]
  BY DEF Enabled
<1>2. Merge(d, p)[c]
  BY <1>1, Merged DEF Plain
<1> QED
  BY <1>2 DEF Enabled

LEMMA Recorded ==
    ASSUME NEW p, NEW D \in SUBSET DOMAIN Blank, p \in [D -> Value], IsPatch(p)
    PROVE  p \in Patch
BY DEF Patch

\* The patches of the handlers. (The provers need a name for TRUE in a record.)
Content(c) == [content |-> c]
Generated == [content |-> "text", payload |-> "text"]
Texted(c, v) == [content |-> c, payload |-> "text", ttl |-> v, views |-> v]
Filed(f, v) == [content |-> "file", payload |-> "file", path |-> f, ttl |-> v, views |-> v]
Lasting(v) == [ttl |-> v]
Viewed(v) == [views |-> v]
LastingViewed(v) == [ttl |-> v, views |-> v]
AllOn == [c \in Charset |-> TRUE]
Unseen == [f \in {} |-> {}]
For(m, u) == [mode |-> m, recipient |-> u]

\* Those that bring no file and switch nothing off.
LEMMA PlainPatches ==
    /\ \A c \in {"text", "file"} : Content(c) \in Patch /\ Plain(Content(c))
    /\ Generated \in Patch /\ Plain(Generated)
    /\ \A c \in {"text", "file"}, v \in BOOLEAN : Texted(c, v) \in Patch /\ Plain(Texted(c, v))
    /\ \A v \in BOOLEAN :
           /\ Lasting(v) \in Patch /\ Plain(Lasting(v))
           /\ Viewed(v) \in Patch /\ Plain(Viewed(v))
           /\ LastingViewed(v) \in Patch /\ Plain(LastingViewed(v))
    /\ AllOn \in Patch /\ Plain(AllOn)
    /\ Unseen \in Patch /\ Plain(Unseen)
    /\ \A m \in {"any", "first"} : For(m, NoUser) \in Patch /\ Plain(For(m, NoUser))
    /\ \A u \in Recipient : For("specific", u) \in Patch /\ Plain(For("specific", u))
<1>1. ASSUME NEW c \in {"text", "file"}
      PROVE  Content(c) \in Patch /\ Plain(Content(c))
  <2>1. Content(c) \in [{"content"} -> Value]
    BY DEF Content, Value
  <2>2. IsPatch(Content(c)) /\ Plain(Content(c))
    BY Fields, FlowAssumption DEF Content, IsPatch, Paired, Plain
  <2> QED
    BY <2>1, <2>2, Fields, Recorded
<1>2. Generated \in Patch /\ Plain(Generated)
  <2>1. Generated \in [{"content", "payload"} -> Value]
    BY DEF Generated, Value
  <2>2. IsPatch(Generated) /\ Plain(Generated)
    BY Fields, FlowAssumption DEF Generated, IsPatch, Paired, Plain
  <2> QED
    BY <2>1, <2>2, Fields, Recorded
<1>3. ASSUME NEW c \in {"text", "file"}, NEW v \in BOOLEAN
      PROVE  Texted(c, v) \in Patch /\ Plain(Texted(c, v))
  <2>1. Texted(c, v) \in [{"content", "payload", "ttl", "views"} -> Value]
    BY DEF Texted, Value
  <2>2. IsPatch(Texted(c, v)) /\ Plain(Texted(c, v))
    BY Fields, FlowAssumption DEF Texted, IsPatch, Paired, Plain
  <2> QED
    BY <2>1, <2>2, Fields, Recorded
<1>4. ASSUME NEW v \in BOOLEAN
      PROVE  Lasting(v) \in Patch /\ Plain(Lasting(v))
  <2>1. Lasting(v) \in [{"ttl"} -> Value]
    BY DEF Lasting, Value
  <2>2. IsPatch(Lasting(v)) /\ Plain(Lasting(v))
    BY Fields, FlowAssumption DEF Lasting, IsPatch, Paired, Plain
  <2> QED
    BY <2>1, <2>2, Fields, Recorded
<1>5. ASSUME NEW v \in BOOLEAN
      PROVE  Viewed(v) \in Patch /\ Plain(Viewed(v))
  <2>1. Viewed(v) \in [{"views"} -> Value]
    BY DEF Viewed, Value
  <2>2. IsPatch(Viewed(v)) /\ Plain(Viewed(v))
    BY Fields, FlowAssumption DEF Viewed, IsPatch, Paired, Plain
  <2> QED
    BY <2>1, <2>2, Fields, Recorded
<1>6. ASSUME NEW v \in BOOLEAN
      PROVE  LastingViewed(v) \in Patch /\ Plain(LastingViewed(v))
  <2>1. LastingViewed(v) \in [{"ttl", "views"} -> Value]
    BY DEF LastingViewed, Value
  <2>2. IsPatch(LastingViewed(v)) /\ Plain(LastingViewed(v))
    BY Fields, FlowAssumption DEF LastingViewed, IsPatch, Paired, Plain
  <2> QED
    BY <2>1, <2>2, Fields, Recorded
<1>7. AllOn \in Patch /\ Plain(AllOn)
  <2>1. AllOn \in [Charset -> Value]
    BY DEF AllOn, Value
  <2>2. IsPatch(AllOn) /\ Plain(AllOn)
    BY Fields, FlowAssumption DEF AllOn, IsPatch, Paired, Plain
  <2> QED
    BY <2>1, <2>2, Fields, Recorded
<1>8. Unseen \in Patch /\ Plain(Unseen)
  <2>1. Unseen \in [{} -> Value]
    BY DEF Unseen, Value
  <2>2. IsPatch(Unseen) /\ Plain(Unseen)
    BY Fields, FlowAssumption DEF Unseen, IsPatch, Paired, Plain
  <2> QED
    BY <2>1, <2>2, Fields, Recorded
<1>9. ASSUME NEW m \in {"any", "first"}
      PROVE  For(m, NoUser) \in Patch /\ Plain(For(m, NoUser))
  <2>1. For(m, NoUser) \in [{"mode", "recipient"} -> Value]
    BY DEF For, Value
  <2>2. IsPatch(For(m, NoUser)) /\ Plain(For(m, NoUser))
    BY Fields, FlowAssumption DEF For, IsPatch, Paired, Plain
  <2> QED
    BY <2>1, <2>2, Fields, Recorded
<1>10. ASSUME NEW u \in Recipient
      PROVE  For("specific", u) \in Patch /\ Plain(For("specific", u))
  <2>1. For("specific", u) \in [{"mode", "recipient"} -> Value]
    BY DEF For, Value
  <2>2. IsPatch(For("specific", u)) /\ Plain(For("specific", u))
    BY Fields, FlowAssumption DEF For, IsPatch, Paired, Plain
  <2> QED
    BY <2>1, <2>2, Fields, Recorded
<1> QED
  BY <1>1, <1>2, <1>3, <1>4, <1>5, <1>6, <1>7, <1>8, <1>9, <1>10

\* And those that do.
LEMMA FilePatch ==
    ASSUME NEW f \in Path, NEW v \in BOOLEAN
    PROVE  /\ Filed(f, v) \in Patch
           /\ DOMAIN Filed(f, v) \cap Charset = {}
           /\ "path" \in DOMAIN Filed(f, v) /\ Filed(f, v).path = f
<1>1. Filed(f, v) \in [{"content", "payload", "path", "ttl", "views"} -> Value]
  BY DEF Filed, Value
<1>2. IsPatch(Filed(f, v))
  BY Fields DEF Filed, IsPatch
<1>3. /\ DOMAIN Filed(f, v) \cap Charset = {}
      /\ "path" \in DOMAIN Filed(f, v) /\ Filed(f, v).path = f
  BY Fields DEF Filed
<1> QED
  BY <1>1, <1>2, <1>3, Fields, Recorded

LEMMA TogglePatch ==
    ASSUME NEW c \in Charset, NEW v \in BOOLEAN
    PROVE  LET p == [f \in {c} |-> v]
           IN  p \in Patch /\ DOMAIN p = {c} /\ p[c] = v /\ "path" \notin DOMAIN p
<1> DEFINE p == [f \in {c} |-> v]
<1>1. p \in [{c} -> Value]
  BY DEF Value
<1>2. DOMAIN p = {c} /\ p[c] = v
  OBVIOUS
<1>3. "path" \notin DOMAIN p
  BY <1>2, Fields
<1>4. IsPatch(p)
  <2> HIDE DEF p
  <2> QED
    BY <1>2, Fields DEF IsPatch
<1> QED
  BY <1>1, <1>2, <1>3, <1>4, Fields, Recorded

-----------------------------------------------------------------------------
(* Lemmas about steps and sequences of them *)

LEMMA StepKinds ==
    ASSUME NEW x \in Steps
    PROVE  /\ x.op \in {"get", "fetch", "wipe", "unlink", "put", "to", "default", "toggle"} \cup Work
           /\ x.op = "put" => x.patch \in Patch
           /\ x.op = "to" => x.state \in States
           /\ x.op = "default" => x.field \in {"ttl", "views", "mode"}
           /\ x.op = "toggle" => x.field \in Charset
           /\ x.op = "fetch" => x = Fetch
<1>1. CASE x \in {Get, Fetch, Wipe, Unlink}
  BY <1>1 DEF Get, Fetch, Wipe, Unlink
<1>2. ASSUME NEW w \in Work, x = Do(w)
      PROVE  x.op = w
  BY <1>2 DEF Do
<1>3. ASSUME NEW p \in Patch, x = Put(p)
      PROVE  x.op = "put" /\ x.patch = p
  BY <1>3 DEF Put
<1>4. ASSUME NEW s \in States, x = To(s)
      PROVE  x.op = "to" /\ x.state = s
  BY <1>4 DEF To
<1>5. ASSUME NEW f \in {"ttl", "views", "mode"}, x = Default(f)
      PROVE  x.op = "default" /\ x.field = f
  BY <1>5 DEF Default
<1>6. ASSUME NEW c \in Charset, x = Toggle(c)
      PROVE  x.op = "toggle" /\ x.field = c
  BY <1>6 DEF Toggle
<1> QED
  BY <1>1, <1>2, <1>3, <1>4, <1>5, <1>6 DEF Steps, Work

LEMMA StepsAre ==
    /\ Get \in Steps /\ Get.op = "get"
    /\ Fetch \in Steps /\ Fetch.op = "fetch"
    /\ Wipe \in Steps /\ Wipe.op = "wipe"
    /\ Unlink \in Steps /\ Unlink.op = "unlink"
    /\ \A w \in Work : Do(w) \in Steps /\ Do(w).op = w
    /\ \A p \in Patch : Put(p) \in Steps /\ Put(p).op = "put" /\ Put(p).patch = p
    /\ \A s \in States : To(s) \in Steps /\ To(s).op = "to" /\ To(s).state = s
    /\ \A f \in {"ttl", "views", "mode"} :
           Default(f) \in Steps /\ Default(f).op = "default" /\ Default(f).field = f
    /\ \A c \in Charset : Toggle(c) \in Steps /\ Toggle(c).op = "toggle" /\ Toggle(c).field = c
<1>1. /\ Get \in Steps /\ Fetch \in Steps /\ Wipe \in Steps /\ Unlink \in Steps
      /\ \A w \in Work : Do(w) \in Steps
      /\ \A p \in Patch : Put(p) \in Steps
      /\ \A s \in States : To(s) \in Steps
      /\ \A f \in {"ttl", "views", "mode"} : Default(f) \in Steps
      /\ \A c \in Charset : Toggle(c) \in Steps
  BY DEF Steps
<1>2. /\ Get.op = "get" /\ Fetch.op = "fetch" /\ Wipe.op = "wipe" /\ Unlink.op = "unlink"
      /\ \A w \in Work : Do(w).op = w
      /\ \A p \in Patch : Put(p).op = "put" /\ Put(p).patch = p
      /\ \A s \in States : To(s).op = "to" /\ To(s).state = s
      /\ \A f \in {"ttl", "views", "mode"} : Default(f).op = "default" /\ Default(f).field = f
      /\ \A c \in Charset : Toggle(c).op = "toggle" /\ Toggle(c).field = c
  BY DEF Get, Fetch, Wipe, Unlink, Do, Put, To, Default, Toggle
<1> QED
  BY <1>1, <1>2

\* Begins with a step that relies on none before it.
Opens(s) == s # <<>> => s[1].op \notin {"put"} \cup UsesCopy

NoToggle(s) == \A i \in 1..Len(s) : s[i].op # "toggle"

LEMMA TailOf ==
    ASSUME NEW s \in Seq(Steps), s # <<>>
    PROVE  /\ Tail(s) \in Seq(Steps) /\ Len(Tail(s)) = Len(s) - 1 /\ Len(s) \in Nat \ {0}
           /\ \A i \in 1..Len(Tail(s)) : Tail(s)[i] = s[i + 1]
           /\ s[1] \in Steps /\ Head(s) = s[1]
           /\ Tail(s) # <<>> => Len(s) >= 2
OBVIOUS

LEMMA TailOrdered ==
    ASSUME NEW s \in Seq(Steps), s # <<>>, Ordered(s)
    PROVE  /\ Ordered(Tail(s))
           /\ s[1].op \notin {"get", "fetch"} => Opens(Tail(s))
<1>1. ASSUME NEW i \in 1..Len(Tail(s))
      PROVE  /\ i + 1 \in 1..Len(s) /\ Tail(s)[i] = s[i + 1]
             /\ i + 1 <= Len(Tail(s)) => Tail(s)[i + 1] = s[i + 2]
             /\ i + 2 <= Len(Tail(s)) => Tail(s)[i + 2] = s[i + 3]
             /\ i > 1 => Tail(s)[i - 1] = s[i]
  BY TailOf
<1>2. Len(Tail(s)) = Len(s) - 1 /\ Len(s) \in Nat
  BY TailOf
<1>3. Ordered(Tail(s))
  <2> SUFFICES ASSUME NEW i \in 1..Len(Tail(s))
               PROVE  LET t == Tail(s)
                      IN /\ t[i].op = "put" /\ i > 1 => t[i - 1].op = "fetch"
                         /\ t[i].op \in UsesCopy /\ i > 1 => t[i - 1].op = "get"
                         /\ t[i].op = "toggle" => i = Len(t)
                         /\ t[i].op \in {"unlink", "insert"} =>
                                i + 2 <= Len(t) /\ t[i + 1].op = "to" /\ t[i + 2].op = "wipe"
                         /\ t[i].op = "download" => i + 1 <= Len(t) /\ t[i + 1].op = "save"
    BY DEF Ordered
  <2> DEFINE j == i + 1
             u == Tail(s)
  <2>1. /\ j \in 1..Len(s) /\ j > 1 /\ u[i] = s[j]
        /\ i > 1 => u[i - 1] = s[j - 1]
        /\ i + 1 <= Len(u) => u[i + 1] = s[j + 1]
        /\ i + 2 <= Len(u) => u[i + 2] = s[j + 2]
    <3>1. j + 1 = i + 2 /\ j + 2 = i + 3 /\ j - 1 = i /\ j > 1
      OBVIOUS
    <3> QED
      BY <1>1, <3>1
  <2>2. /\ j = Len(s) <=> i = Len(u)
        /\ j + 1 <= Len(s) <=> i + 1 <= Len(u)
        /\ j + 2 <= Len(s) <=> i + 2 <= Len(u)
    BY <1>2
  <2> HIDE DEF j, u
  <2>3. /\ s[j].op = "put" => s[j - 1].op = "fetch"
        /\ s[j].op \in UsesCopy => s[j - 1].op = "get"
        /\ s[j].op = "toggle" => j = Len(s)
        /\ s[j].op \in {"unlink", "insert"} =>
               j + 2 <= Len(s) /\ s[j + 1].op = "to" /\ s[j + 2].op = "wipe"
        /\ s[j].op = "download" => j + 1 <= Len(s) /\ s[j + 1].op = "save"
    BY <2>1 DEF Ordered
  <2> QED
    BY <2>1, <2>2, <2>3 DEF u
<1>4. Tail(s) # <<>> /\ s[1].op \notin {"get", "fetch"} => Tail(s)[1].op \notin {"put"} \cup UsesCopy
  <2> SUFFICES ASSUME Tail(s) # <<>>, s[1].op \notin {"get", "fetch"}
               PROVE  Tail(s)[1].op \notin {"put"} \cup UsesCopy
    OBVIOUS
  <2>1. 2 \in 1..Len(s) /\ Tail(s)[1] = s[2]
    BY TailOf
  <2> QED
    BY <2>1 DEF Ordered
<1> QED
  BY <1>3, <1>4 DEF Opens

\* Steps in order, before steps in order that rely on none before them.
LEMMA OrderedJoin ==
    ASSUME NEW a \in Seq(Steps), NEW b \in Seq(Steps), Ordered(a), Ordered(b), NoToggle(a), Opens(b)
    PROVE  Ordered(a \o b)
<1> DEFINE t == a \o b
           n == Len(a)
<1>1. /\ t \in Seq(Steps) /\ Len(t) = n + Len(b) /\ n \in Nat /\ Len(b) \in Nat
      /\ \A i \in 1..(n + Len(b)) : t[i] = IF i <= n THEN a[i] ELSE b[i - n]
  BY ConcatProperties
<1>0. n = Len(a)
  OBVIOUS
<1> HIDE DEF t, n
<1> SUFFICES ASSUME NEW i \in 1..Len(t)
             PROVE  /\ t[i].op = "put" /\ i > 1 => t[i - 1].op = "fetch"
                    /\ t[i].op \in UsesCopy /\ i > 1 => t[i - 1].op = "get"
                    /\ t[i].op = "toggle" => i = Len(t)
                    /\ t[i].op \in {"unlink", "insert"} =>
                           i + 2 <= Len(t) /\ t[i + 1].op = "to" /\ t[i + 2].op = "wipe"
                    /\ t[i].op = "download" => i + 1 <= Len(t) /\ t[i + 1].op = "save"
  BY DEF Ordered, t
<1>2. CASE i <= n
  <2>1. /\ i \in 1..n /\ t[i] = a[i]
        /\ i > 1 => t[i - 1] = a[i - 1]
        /\ i + 1 <= n => t[i + 1] = a[i + 1]
        /\ i + 2 <= n => t[i + 2] = a[i + 2]
    <3>1. /\ i \in 1..n /\ i \in 1..(n + Len(b))
          /\ i > 1 => i - 1 \in 1..(n + Len(b)) /\ i - 1 <= n
          /\ i + 1 <= n => i + 1 \in 1..(n + Len(b))
          /\ i + 2 <= n => i + 2 \in 1..(n + Len(b))
      BY <1>1, <1>2
    <3> QED
      BY <1>1, <1>2, <3>1
  <2>2. /\ a[i].op = "put" /\ i > 1 => a[i - 1].op = "fetch"
        /\ a[i].op \in UsesCopy /\ i > 1 => a[i - 1].op = "get"
        /\ a[i].op # "toggle"
        /\ a[i].op \in {"unlink", "insert"} =>
               i + 2 <= n /\ a[i + 1].op = "to" /\ a[i + 2].op = "wipe"
        /\ a[i].op = "download" => i + 1 <= n /\ a[i + 1].op = "save"
    BY <1>0, <2>1 DEF Ordered, NoToggle
  <2>3. i + 2 <= n => i + 2 <= Len(t)
    BY <1>1
  <2>4. i + 1 <= n => i + 1 <= Len(t)
    BY <1>1
  <2>5. t[i].op \in {"unlink", "insert"} =>
            i + 2 <= Len(t) /\ t[i + 1].op = "to" /\ t[i + 2].op = "wipe"
    <3>1. i + 2 <= n => i + 1 <= n
      BY <1>1
    <3> QED
      BY <2>1, <2>2, <2>3, <3>1
  <2>6. t[i].op = "download" => i + 1 <= Len(t) /\ t[i + 1].op = "save"
    BY <2>1, <2>2, <2>4
  <2>7. /\ t[i].op = "put" /\ i > 1 => t[i - 1].op = "fetch"
        /\ t[i].op \in UsesCopy /\ i > 1 => t[i - 1].op = "get"
        /\ t[i].op # "toggle"
    BY <2>1, <2>2
  <2> QED
    BY <2>5, <2>6, <2>7
<1>3. CASE i > n
  <2>0. PICK j \in 1..Len(b) : i = j + n
    <3>1. i - n \in 1..Len(b) /\ i = (i - n) + n
      BY <1>1, <1>3
    <3> QED
      BY <3>1
  <2>1. /\ j \in 1..Len(b) /\ t[i] = b[j]
        /\ j > 1 => t[i - 1] = b[j - 1]
        /\ j + 1 <= Len(b) => t[i + 1] = b[j + 1]
        /\ j + 2 <= Len(b) => t[i + 2] = b[j + 2]
    <3>1. \A x \in 1..Len(b) : t[x + n] = b[x]
      <4> SUFFICES ASSUME NEW x \in 1..Len(b)
                   PROVE  t[x + n] = b[x]
        OBVIOUS
      <4>1. x + n \in 1..(n + Len(b)) /\ ~(x + n <= n) /\ (x + n) - n = x
        BY <1>1
      <4> QED
        BY <1>1, <4>1
    <3>2. i - 1 = (j - 1) + n /\ i + 1 = (j + 1) + n /\ i + 2 = (j + 2) + n
      BY <1>1, <2>0
    <3>3. /\ j > 1 => j - 1 \in 1..Len(b)
          /\ j + 1 <= Len(b) => j + 1 \in 1..Len(b)
          /\ j + 2 <= Len(b) => j + 2 \in 1..Len(b)
      BY <1>1, <2>0
    <3> QED
      BY <2>0, <3>1, <3>2, <3>3
  <2>2. /\ b[j].op = "put" /\ j > 1 => b[j - 1].op = "fetch"
        /\ b[j].op \in UsesCopy /\ j > 1 => b[j - 1].op = "get"
        /\ b[j].op = "toggle" => j = Len(b)
        /\ b[j].op \in {"unlink", "insert"} =>
               j + 2 <= Len(b) /\ b[j + 1].op = "to" /\ b[j + 2].op = "wipe"
        /\ b[j].op = "download" => j + 1 <= Len(b) /\ b[j + 1].op = "save"
    BY <2>1 DEF Ordered
  <2>3. j = 1 => b[j].op \notin {"put"} \cup UsesCopy
    BY <2>1 DEF Opens
  <2>4. j > 1 \/ j = 1
    BY <2>1
  <2>5. /\ j = Len(b) => i = Len(t)
        /\ j + 2 <= Len(b) => i + 2 <= Len(t) /\ j + 1 <= Len(b)
        /\ j + 1 <= Len(b) => i + 1 <= Len(t)
    <3>1. /\ j \in Nat /\ n \in Nat /\ Len(b) \in Nat
          /\ i = j + n /\ Len(t) = n + Len(b)
      BY <1>1, <2>0
    <3>2. j + 2 <= Len(b) => i + 2 <= Len(t) /\ j + 1 <= Len(b)
      BY <3>1
    <3>3. j + 1 <= Len(b) => i + 1 <= Len(t)
      BY <3>1
    <3> QED
      BY <3>1, <3>2, <3>3
  <2>6. t[i].op \in {"unlink", "insert"} =>
            i + 2 <= Len(t) /\ t[i + 1].op = "to" /\ t[i + 2].op = "wipe"
    BY <2>1, <2>2, <2>5
  <2>7. t[i].op = "download" => i + 1 <= Len(t) /\ t[i + 1].op = "save"
    BY <2>1, <2>2, <2>5
  <2>8. t[i].op = "toggle" => i = Len(t)
    BY <2>1, <2>2, <2>5
  <2>9. /\ t[i].op = "put" => t[i - 1].op = "fetch"
        /\ t[i].op \in UsesCopy => t[i - 1].op = "get"
    BY <2>1, <2>2, <2>3, <2>4
  <2> QED
    BY <2>6, <2>7, <2>8, <2>9
<1> QED
  BY <1>1, <1>2, <1>3

-----------------------------------------------------------------------------
(* The handlers *)

AllPlain(s) == \A i \in 1..Len(s) : s[i].op = "put" => Plain(s[i].patch)

\* What every handler is, and every part of one that ends with no toggle.
Good(s) == s \in Seq(Steps) /\ s # <<>> /\ Ordered(s) /\ Opens(s) /\ AllPlain(s)

Part(s) == Good(s) /\ NoToggle(s)

LEMMA GoodJoin ==
    ASSUME NEW a, NEW b, Part(a), Good(b)
    PROVE  Good(a \o b) /\ (Part(b) => Part(a \o b))
<1>1. a \in Seq(Steps) /\ b \in Seq(Steps) /\ a # <<>> /\ b # <<>>
  BY DEF Part, Good
<1>2. /\ a \o b \in Seq(Steps) /\ Len(a \o b) = Len(a) + Len(b)
      /\ Len(a) \in Nat \ {0} /\ Len(b) \in Nat \ {0}
      /\ \A i \in 1..(Len(a) + Len(b)) : (a \o b)[i] = IF i <= Len(a) THEN a[i] ELSE b[i - Len(a)]
  BY <1>1, ConcatProperties
<1>3. Ordered(a \o b)
  BY <1>1, OrderedJoin DEF Part, Good
<1>4. \A i \in 1..Len(a \o b) : \/ \E j \in 1..Len(a) : (a \o b)[i] = a[j]
                                \/ \E j \in 1..Len(b) : (a \o b)[i] = b[j]
  <2> SUFFICES ASSUME NEW i \in 1..Len(a \o b)
               PROVE  \/ \E j \in 1..Len(a) : (a \o b)[i] = a[j]
                      \/ \E j \in 1..Len(b) : (a \o b)[i] = b[j]
    OBVIOUS
  <2>1. CASE i <= Len(a)
    BY <1>2, <2>1
  <2>2. CASE i > Len(a)
    <3>1. i - Len(a) \in 1..Len(b) /\ (a \o b)[i] = b[i - Len(a)]
      BY <1>2, <2>2
    <3> QED
      BY <3>1
  <2> QED
    BY <1>2, <2>1, <2>2
<1>5. AllPlain(a \o b)
  BY <1>4 DEF AllPlain, Part, Good
<1>6. (a \o b)[1] = a[1] /\ a \o b # <<>>
  BY <1>2
<1>7. Opens(a \o b)
  BY <1>1, <1>6 DEF Opens, Part, Good
<1>8. NoToggle(b) => NoToggle(a \o b)
  BY <1>4 DEF NoToggle, Part
<1> QED
  BY <1>2, <1>3, <1>5, <1>6, <1>7, <1>8 DEF Part, Good

\* Concatenations of short sequences, element by element.
LEMMA TwoAndTwo ==
    ASSUME NEW a, NEW b, NEW c, NEW d
    PROVE  <<a, b>> \o <<c, d>> = <<a, b, c, d>>
<1> DEFINE S == {a, b, c, d}
<1>1. <<a, b>> \in Seq(S) /\ <<c, d>> \in Seq(S) /\ <<a, b, c, d>> \in Seq(S)
  OBVIOUS
<1>2. Len(<<a, b>>) = 2 /\ Len(<<c, d>>) = 2 /\ Len(<<a, b, c, d>>) = 4
  OBVIOUS
<1>3. /\ <<a, b>> \o <<c, d>> \in Seq(S)
      /\ Len(<<a, b>> \o <<c, d>>) = 4
      /\ \A i \in 1..4 :
             (<<a, b>> \o <<c, d>>)[i] = IF i <= 2 THEN <<a, b>>[i] ELSE <<c, d>>[i - 2]
  <2> HIDE DEF S
  <2> QED
    BY <1>1, <1>2, ConcatProperties
<1>4. \A i \in 1..4 : (<<a, b>> \o <<c, d>>)[i] = <<a, b, c, d>>[i]
  BY <1>3
<1> HIDE DEF S
<1> QED
  BY <1>1, <1>2, <1>3, <1>4, SeqEqual

LEMMA OneAndTwo ==
    ASSUME NEW a, NEW b, NEW c
    PROVE  <<a>> \o <<b, c>> = <<a, b, c>>
<1> DEFINE S == {a, b, c}
<1>1. <<a>> \in Seq(S) /\ <<b, c>> \in Seq(S) /\ <<a, b, c>> \in Seq(S)
  OBVIOUS
<1>2. Len(<<a>>) = 1 /\ Len(<<b, c>>) = 2 /\ Len(<<a, b, c>>) = 3
  OBVIOUS
<1>3. /\ <<a>> \o <<b, c>> \in Seq(S)
      /\ Len(<<a>> \o <<b, c>>) = 3
      /\ \A i \in 1..3 :
             (<<a>> \o <<b, c>>)[i] = IF i <= 1 THEN <<a>>[i] ELSE <<b, c>>[i - 1]
  <2> HIDE DEF S
  <2> QED
    BY <1>1, <1>2, ConcatProperties
<1>4. \A i \in 1..3 : (<<a>> \o <<b, c>>)[i] = <<a, b, c>>[i]
  BY <1>3
<1> HIDE DEF S
<1> QED
  BY <1>1, <1>2, <1>3, <1>4, SeqEqual

LEMMA TwoAndOne ==
    ASSUME NEW a, NEW b, NEW c
    PROVE  <<a, b>> \o <<c>> = <<a, b, c>>
<1> DEFINE S == {a, b, c}
<1>1. <<a, b>> \in Seq(S) /\ <<c>> \in Seq(S) /\ <<a, b, c>> \in Seq(S)
  OBVIOUS
<1>2. Len(<<a, b>>) = 2 /\ Len(<<c>>) = 1 /\ Len(<<a, b, c>>) = 3
  OBVIOUS
<1>3. /\ <<a, b>> \o <<c>> \in Seq(S)
      /\ Len(<<a, b>> \o <<c>>) = 3
      /\ \A i \in 1..3 :
             (<<a, b>> \o <<c>>)[i] = IF i <= 2 THEN <<a, b>>[i] ELSE <<c>>[i - 2]
  <2> HIDE DEF S
  <2> QED
    BY <1>1, <1>2, ConcatProperties
<1>4. \A i \in 1..3 : (<<a, b>> \o <<c>>)[i] = <<a, b, c>>[i]
  BY <1>3
<1> HIDE DEF S
<1> QED
  BY <1>1, <1>2, <1>3, <1>4, SeqEqual

LEMMA SingleStep ==
    ASSUME NEW x \in Steps, x.op \notin {"put", "unlink", "insert", "toggle", "download"}
    PROVE  Part(<<x>>)
<1>1. /\ <<x>> \in Seq(Steps) /\ <<x>> # <<>> /\ Len(<<x>>) = 1 /\ <<x>>[1] = x
      /\ \A i \in 1..Len(<<x>>) : i = 1
  OBVIOUS
<1>2. Ordered(<<x>>)
  BY <1>1 DEF Ordered, UsesCopy
<1>3. AllPlain(<<x>>) /\ NoToggle(<<x>>) /\ Opens(<<x>>)
  BY <1>1 DEF AllPlain, NoToggle, Opens, UsesCopy
<1> QED
  BY <1>1, <1>2, <1>3 DEF Part, Good

\* The two halves of update_data.
LEMMA UpdatePart ==
    ASSUME NEW p \in Patch, Plain(p)
    PROVE  Part(Update(p))
<1> DEFINE s == <<Fetch, Put(p)>>
<1>1. Fetch \in Steps /\ Fetch.op = "fetch" /\ Put(p) \in Steps /\ Put(p).op = "put" /\ Put(p).patch = p
  BY StepsAre
<1>2. /\ s \in Seq(Steps) /\ s # <<>> /\ Len(s) = 2 /\ s[1] = Fetch /\ s[2] = Put(p)
      /\ \A i \in 1..Len(s) : i = 1 \/ i = 2
  BY <1>1
<1> HIDE DEF s
<1>3. Ordered(s) /\ AllPlain(s) /\ NoToggle(s) /\ Opens(s)
  BY <1>1, <1>2 DEF Ordered, AllPlain, NoToggle, Opens, UsesCopy
<1> QED
  BY <1>2, <1>3 DEF Part, Good, Update, s

\* A step that uses the copy of the draft, and what it needs beside it.
LEMMA ClearAfter ==
    ASSUME NEW x \in Steps, x.op \in {"unlink", "insert"}
    PROVE  Part(<<Get, x>> \o Clear)
<1> DEFINE s == <<Get, x, To("none"), Wipe>>
<1>1. /\ Get \in Steps /\ Get.op = "get" /\ Wipe \in Steps /\ Wipe.op = "wipe"
      /\ To("none") \in Steps /\ To("none").op = "to"
  BY StepsAre DEF States
<1>2. <<Get, x>> \o Clear = s
  BY TwoAndTwo DEF Clear
<1>3. /\ s \in Seq(Steps) /\ s # <<>> /\ Len(s) = 4
      /\ s[1] = Get /\ s[2] = x /\ s[3] = To("none") /\ s[4] = Wipe
      /\ \A i \in 1..Len(s) : i = 1 \/ i = 2 \/ i = 3 \/ i = 4
  BY <1>1
<1> HIDE DEF s
<1>4. Ordered(s)
  BY <1>1, <1>3 DEF Ordered, UsesCopy
<1>5. AllPlain(s) /\ NoToggle(s) /\ Opens(s)
  BY <1>1, <1>3 DEF AllPlain, NoToggle, Opens, UsesCopy
<1> QED
  BY <1>2, <1>3, <1>4, <1>5 DEF Part, Good

LEMMA ToggleGood ==
    ASSUME NEW c \in Charset
    PROVE  Good(<<Get, Toggle(c)>>)
<1> DEFINE s == <<Get, Toggle(c)>>
<1>1. Get \in Steps /\ Get.op = "get" /\ Toggle(c) \in Steps /\ Toggle(c).op = "toggle"
  BY StepsAre
<1>2. /\ s \in Seq(Steps) /\ s # <<>> /\ Len(s) = 2 /\ s[1] = Get /\ s[2] = Toggle(c)
      /\ \A i \in 1..Len(s) : i = 1 \/ i = 2
  BY <1>1
<1> HIDE DEF s
<1>3. Ordered(s) /\ AllPlain(s) /\ Opens(s)
  BY <1>1, <1>2 DEF Ordered, AllPlain, Opens, UsesCopy
<1> QED
  BY <1>2, <1>3 DEF Good, s

LEMMA UploadGood == Good(<<Do("download"), Do("save"), To("choosing_ttl")>>)
<1> DEFINE s == <<Do("download"), Do("save"), To("choosing_ttl")>>
<1>1. /\ Do("download") \in Steps /\ Do("download").op = "download"
      /\ Do("save") \in Steps /\ Do("save").op = "save"
      /\ To("choosing_ttl") \in Steps /\ To("choosing_ttl").op = "to"
  BY StepsAre DEF Work, States
<1>2. /\ s \in Seq(Steps) /\ s # <<>> /\ Len(s) = 3
      /\ s[1] = Do("download") /\ s[2] = Do("save") /\ s[3] = To("choosing_ttl")
      /\ \A i \in 1..Len(s) : i = 1 \/ i = 2 \/ i = 3
  BY <1>1
<1> HIDE DEF s
<1>3. Ordered(s)
  BY <1>1, <1>2 DEF Ordered, UsesCopy
<1>4. AllPlain(s) /\ Opens(s)
  BY <1>1, <1>2 DEF AllPlain, Opens, UsesCopy
<1> QED
  BY <1>2, <1>3, <1>4 DEF Good, s

\* Steps that need nothing beside them.
LEMMA SimpleSteps ==
    ASSUME NEW s \in Seq(Steps), s # <<>>,
           \A i \in 1..Len(s) : s[i].op \notin {"put", "unlink", "insert", "toggle", "download"}
    PROVE  Part(s)
<1>1. Ordered(s)
  BY DEF Ordered, UsesCopy
<1>2. 1 \in 1..Len(s)
  OBVIOUS
<1>3. AllPlain(s) /\ NoToggle(s) /\ Opens(s)
  BY <1>2 DEF AllPlain, NoToggle, Opens, UsesCopy
<1> QED
  BY <1>1, <1>3 DEF Part, Good

LEMMA ToPart ==
    ASSUME NEW s \in States
    PROVE  Part(<<To(s)>>)
BY StepsAre, SingleStep

LEMMA UpdateTo ==
    ASSUME NEW p \in Patch, Plain(p), NEW s \in States
    PROVE  Part(Update(p) \o <<To(s)>>)
BY UpdatePart, ToPart, GoodJoin DEF Part

LEMMA GetPart == Part(<<Get>>)
BY StepsAre, SingleStep

LEMMA DefaultsPart ==
    ASSUME NEW f \in {"ttl", "views", "mode"}, NEW g \in {"ttl", "views", "mode"}, NEW s \in States
    PROVE  Part(<<Get, Default(f), Default(g), To(s)>>)
<1> DEFINE t == <<Get, Default(f), Default(g), To(s)>>
<1>1. /\ Get \in Steps /\ Get.op = "get"
      /\ Default(f) \in Steps /\ Default(f).op = "default"
      /\ Default(g) \in Steps /\ Default(g).op = "default"
      /\ To(s) \in Steps /\ To(s).op = "to"
  BY StepsAre
<1>2. /\ t \in Seq(Steps) /\ t # <<>> /\ Len(t) = 4
      /\ t[1] = Get /\ t[2] = Default(f) /\ t[3] = Default(g) /\ t[4] = To(s)
      /\ \A i \in 1..Len(t) : i = 1 \/ i = 2 \/ i = 3 \/ i = 4
  BY <1>1
<1> HIDE DEF t
<1>3. \A i \in 1..Len(t) : t[i].op \notin {"put", "unlink", "insert", "toggle", "download"}
  BY <1>1, <1>2
<1> QED
  BY <1>2, <1>3, SimpleSteps DEF t

LEMMA EncryptPart == Part(<<Get, Do("encrypt"), To("choosing_ttl")>>)
<1> DEFINE t == <<Get, Do("encrypt"), To("choosing_ttl")>>
<1>1. /\ Get \in Steps /\ Get.op = "get"
      /\ Do("encrypt") \in Steps /\ Do("encrypt").op = "encrypt"
      /\ To("choosing_ttl") \in Steps /\ To("choosing_ttl").op = "to"
  BY StepsAre DEF Work, States
<1>2. /\ t \in Seq(Steps) /\ t # <<>> /\ Len(t) = 3
      /\ t[1] = Get /\ t[2] = Do("encrypt") /\ t[3] = To("choosing_ttl")
      /\ \A i \in 1..Len(t) : i = 1 \/ i = 2 \/ i = 3
  BY <1>1
<1> HIDE DEF t
<1>3. \A i \in 1..Len(t) : t[i].op \notin {"put", "unlink", "insert", "toggle", "download"}
  BY <1>1, <1>2
<1> QED
  BY <1>2, <1>3, SimpleSteps DEF t

LEMMA TwoSimple ==
    ASSUME NEW x \in Steps, NEW y \in Steps,
           x.op \notin {"put", "unlink", "insert", "toggle", "download"},
           y.op \notin {"put", "unlink", "insert", "toggle", "download"}
    PROVE  Part(<<x, y>>)
<1> DEFINE t == <<x, y>>
<1>1. /\ t \in Seq(Steps) /\ t # <<>> /\ Len(t) = 2 /\ t[1] = x /\ t[2] = y
      /\ \A i \in 1..Len(t) : i = 1 \/ i = 2
  OBVIOUS
<1> HIDE DEF t
<1>2. \A i \in 1..Len(t) : t[i].op \notin {"put", "unlink", "insert", "toggle", "download"}
  BY <1>1
<1> QED
  BY <1>1, <1>2, SimpleSteps DEF t

\* What a generated value is stored with.
LEMMA SaveGenerated == Part(save_generated) /\ Part(<<Get>> \o save_generated)
<1>1. Part(save_generated)
  BY PlainPatches, UpdateTo DEF save_generated, Generated, States
<1> QED
  BY <1>1, GetPart, GoodJoin DEF Part

\* Every handler takes its steps in order, and writes plain patches only. (SaveFile and
\* ToggleOption put the others in front, patches that bring a file or switch a set off.)
LEMMA HandlersGood ==
    ASSUME NEW h \in Handlers
    PROVE  Good(h.steps)
<1>1. Good(start.steps) /\ Good(menu_callback.steps) /\ Good(cancel_callback.steps)
  BY StepsAre, ClearAfter DEF start, menu_callback, cancel_callback, On, Part
<1>2. Good(begin_create.steps)
  <2>1. Part(<<Get, Unlink>> \o Clear) /\ Part(<<To("choosing_type")>>)
    BY StepsAre, ClearAfter, ToPart DEF States
  <2> QED
    BY <2>1, GoodJoin DEF begin_create, On, Part
<1>3. Good(choose_text.steps) /\ Good(choose_password.steps) /\ Good(choose_file.steps)
  BY PlainPatches, UpdateTo
     DEF choose_text, choose_password, choose_file, On, Part, Content, States
<1>4. Good(receive_plaintext.steps)
  BY EncryptPart DEF receive_plaintext, On, Part
<1>5. Good(receive_file.steps)
  BY UploadGood DEF receive_file, On
<1>6. Good(generator_start.steps)
  BY ToPart DEF generator_start, On, Part, States
<1>7. Good(generator_password.steps)
  BY PlainPatches, UpdateTo DEF generator_password, On, Part, AllOn, States
<1>8. Good(generator_password_value.steps)
  BY StepsAre, TwoSimple DEF generator_password_value, On, Part, Work
<1>9. Good(generator_other.steps)
  BY SaveGenerated DEF generator_other, On, Part
<1>10. Good(generator_transfer.steps)
  BY PlainPatches, UpdateTo DEF generator_transfer, On, Part, LastingViewed, States
<1>11. Good(choose_ttl.steps) /\ Good(choose_views.steps)
  BY PlainPatches, UpdatePart DEF choose_ttl, choose_views, On, Part, Lasting, Viewed
<1>12. Good(continue_after_ttl.steps) /\ Good(continue_after_views.steps)
  BY DefaultsPart DEF continue_after_ttl, continue_after_views, On, Part, States
<1>13. Good(back_to_ttl.steps) /\ Good(back_to_views.steps) /\ Good(protection_back.steps)
  BY ToPart DEF back_to_ttl, back_to_views, protection_back, On, Part, States
<1>14. Good(pin_custom.steps) /\ Good(recipient_specific.steps) /\ Good(recipient_enter_id.steps)
  BY ToPart DEF pin_custom, recipient_specific, recipient_enter_id, On, Part, States
<1>15. /\ Good(recipient_forward.steps) /\ Good(back_to_recipient_input.steps)
       /\ Good(protection_destroy_timer.steps) /\ Good(protection_notifications.steps)
  BY ToPart DEF recipient_forward, back_to_recipient_input, protection_destroy_timer,
                protection_notifications, On, Part, States
<1>16. Part(Rewrite) /\ \A s \in States : Part(Rewrite \o <<To(s)>>)
  BY PlainPatches, UpdatePart, UpdateTo DEF Rewrite, Unseen
<1>17. /\ Good(pin_generate.steps) /\ Good(pin_custom_value.steps) /\ Good(pin_remove.steps)
       /\ Good(destroy_timer_value.steps)
  BY <1>16 DEF pin_generate, pin_custom_value, pin_remove, destroy_timer_value, On, Part, States
<1>18. Good(toggle_confirmation.steps) /\ Good(toggle_notification.steps)
  <2>1. Part(<<Get>> \o Rewrite)
    BY <1>16, GetPart, GoodJoin DEF Part
  <2> QED
    BY <2>1 DEF toggle_confirmation, toggle_notification, On, Part
<1>19. Good(finalize_secret.steps)
  <2>1. Do("insert") \in Steps /\ Do("insert").op = "insert"
    BY StepsAre DEF Work
  <2> QED
    BY <2>1, ClearAfter DEF finalize_secret, On, Part
<1>20. Good(other_dialogue_ends.steps)
  <2>1. /\ To("none") \in Steps /\ To("none").op = "to" /\ Wipe \in Steps /\ Wipe.op = "wipe"
    BY StepsAre DEF States
  <2> QED
    BY <2>1, TwoSimple DEF other_dialogue_ends, Clear, On, Part
<1>21. \A g \in generator_repeat : Good(g.steps)
  <2>1. Part(<<Get, Do("password")>>)
    BY StepsAre, TwoSimple DEF Work
  <2>2. generator_repeat = {On({"preview"}, <<Get, Do("password")>>),
                            On({"preview"}, <<Get>> \o save_generated)}
    BY DEF generator_repeat
  <2>3. /\ Good(On({"preview"}, <<Get, Do("password")>>).steps)
        /\ Good(On({"preview"}, <<Get>> \o save_generated).steps)
    BY <2>1, SaveGenerated DEF On, Part
  <2> QED
    BY <2>2, <2>3
<1>22. \A g \in other_dialogue_starts : Good(g.steps)
  <2>1. Part(<<To("other")>>) /\ Part(<<To("other")>> \o Rewrite)
    <3>1. Part(<<To("other")>>)
      BY ToPart DEF States
    <3> QED
      BY <1>16, <3>1, GoodJoin DEF Part
  <2>2. /\ Good(On(States, <<To("other")>>).steps)
        /\ Good(On(States, <<To("other")>> \o Rewrite).steps)
    BY <2>1 DEF On, Part
  <2> QED
    BY <2>2 DEF other_dialogue_starts
<1>23. \A c \in Charset : Good(generator_toggle_option(c).steps)
  BY ToggleGood DEF generator_toggle_option, On
<1>24. \A mode \in {"any", "first"} : Good(recipient_simple(mode).steps)
  BY PlainPatches, UpdateTo DEF recipient_simple, On, Part, For, States
<1>25. \A u \in Recipient : /\ Good(recipient_id_value(u).steps)
                            /\ Good(recipient_forward_value(u).steps)
  BY PlainPatches, UpdateTo DEF recipient_id_value, recipient_forward_value, On, Part, For, States
<1> QED
  BY <1>1, <1>2, <1>3, <1>4, <1>5, <1>6, <1>7, <1>8, <1>9, <1>10, <1>11, <1>12, <1>13, <1>14,
     <1>15, <1>17, <1>18, <1>19, <1>20, <1>21, <1>22, <1>23, <1>24, <1>25 DEF Handlers

-----------------------------------------------------------------------------
(* What the steps of a task share *)

LEMMA FreeIs ==
    /\ Free \in Job /\ Free.todo = <<>> /\ Free.copy = Blank /\ Free.base = Blank
BY BlankDraft DEF Free, Job, Nothing

LEMMA FlowInitInv == Init => FlowInv
<1> SUFFICES ASSUME Init
             PROVE  FlowInv
  OBVIOUS
<1>1. \A k \in Task : task[k] = Free /\ ~Busy(k)
  BY DEF Init, Busy
<1>2. Typed
  BY FreeIs, BlankDraft, FlowAssumption DEF Init, Typed, States
<1>3. /\ \A s \in Secret : secrets[s] = NoSecret
      /\ Created = {} /\ plaintext = {} /\ data = Blank
  BY DEF Init, Created
<1>4. \A s \in Secret : SecretFits(secrets[s])
  BY <1>3 DEF SecretFits
<1>5. /\ \A k \in Task : TaskFits(task[k])
      /\ UploadPlaintextRemoved /\ OneTask /\ NoLaterLife
  BY <1>1, <1>3 DEF TaskFits, UploadPlaintextRemoved, OneTask, NoLaterLife
<1>6. CalmInv
  BY <1>1, <1>3, BlankDraft DEF CalmInv, DraftFile, SecretFiles
<1> QED
  BY <1>2, <1>4, <1>5, <1>6 DEF FlowInv

\* A task at a step.
LEMMA AtWork ==
    ASSUME FlowInv, NEW k \in Task, NEW op, AtStep(k, op)
    PROVE  /\ Busy(k) /\ task[k] \in Job
           /\ task[k].todo \in Seq(Steps) /\ task[k].todo # <<>> /\ Ordered(task[k].todo)
           /\ task[k].todo[1] \in Steps /\ Head(task[k].todo) = task[k].todo[1]
           /\ task[k].todo[1].op = op
           /\ task[k].copy \in Draft /\ task[k].base \in Draft
           /\ calm => CalmTask(task[k]) /\ \A j \in Task \ {k} : ~Busy(j)
<1>1. Busy(k) /\ task[k] # Free /\ Head(task[k].todo).op = op
  BY DEF AtStep, Busy
<1>2. task[k] \in Job /\ task[k].todo \in Seq(Steps) /\ task[k].copy \in Draft /\ task[k].base \in Draft
  BY DEF FlowInv, Typed, Job
<1>3. task[k].todo # <<>> /\ Ordered(task[k].todo)
  BY <1>1 DEF FlowInv, TaskFits
<1>4. task[k].todo[1] \in Steps /\ Head(task[k].todo) = task[k].todo[1]
  BY <1>2, <1>3, TailOf
<1>5. calm => CalmTask(task[k]) /\ \A j \in Task \ {k} : ~Busy(j)
  BY <1>1 DEF FlowInv, CalmInv, OneTask
<1> QED
  BY <1>1, <1>2, <1>3, <1>4, <1>5

\* Where a step leaves its task.
Goes(k, n, copy, base) ==
    /\ task' \in [Task -> Job]
    /\ \A j \in Task \ {k} : task'[j] = task[j]
    /\ n = <<>> => task'[k] = Free
    /\ n # <<>> => /\ task'[k] # Free
                   /\ task'[k].todo = n
                   /\ task'[k].base = base
                   /\ n[1].op \in UsesCopy => task'[k].copy = copy

LEMMA Resumed ==
    ASSUME task \in [Task -> Job], NEW k \in Task, NEW t \in Job, t.todo # <<>>,
           NEW more \in Seq(Steps), Resume(k, t, more)
    PROVE  Goes(k, more \o Tail(t.todo), t.copy, t.base)
<1> DEFINE n == more \o Tail(t.todo)
           copy == IF \E i \in DOMAIN n : n[i].op \in Looks THEN t.copy ELSE Blank
           u == [t EXCEPT !.todo = n, !.copy = copy]
<1>1. n \in Seq(Steps)
  BY TailOf, ConcatProperties DEF Job
<1>2. copy \in Draft
  BY BlankDraft DEF Job
<1>3. u \in Job /\ u.todo = n /\ u.copy = copy /\ u.base = t.base
  BY <1>1, <1>2 DEF Job
<1>4. task' = [task EXCEPT ![k] = IF n = Nothing THEN Free ELSE u]
  BY DEF Resume
<1>5. n # <<>> /\ n[1].op \in UsesCopy => copy = t.copy
  <2>1. n # <<>> => 1 \in DOMAIN n
    BY <1>1
  <2>2. UsesCopy \subseteq Looks
    BY DEF UsesCopy, Looks
  <2> QED
    BY <2>1, <2>2
<1> HIDE DEF n, copy, u
<1>6. Goes(k, n, t.copy, t.base)
  BY <1>3, <1>4, <1>5, FreeIs DEF Goes, Nothing
<1> QED
  BY <1>6 DEF n

LEMMA Continued ==
    ASSUME task \in [Task -> Job], NEW k \in Task, NEW t \in Job, t.todo # <<>>,
           Resume(k, t, Nothing)
    PROVE  Goes(k, Tail(t.todo), t.copy, t.base)
<1>1. Nothing \in Seq(Steps) /\ Tail(t.todo) \in Seq(Steps)
  BY TailOf DEF Nothing, Job
<1>2. Nothing \o Tail(t.todo) = Tail(t.todo)
  BY <1>1, ConcatEmptySeq DEF Nothing
<1> QED
  BY <1>1, <1>2, Resumed

LEMMA Returned ==
    ASSUME task \in [Task -> Job], NEW k \in Task, Return(k), NEW copy, NEW base
    PROVE  Goes(k, <<>>, copy, base)
BY FreeIs DEF Return, Goes

\* What remains to be shown of a step, if its user is calm.
CalmAfter(k) ==
    /\ Busy(k)' => CalmTask(task[k])'
    /\ (Enabled(data) # {})'
    /\ DraftFile'
    /\ SecretFiles'

LEMMA TempIs ==
    ASSUME FlowInv, NEW k \in Task
    PROVE  Temp(k) \in Task \X Nat /\ life \in Nat
<1>1. faults \in Nat /\ life \in 0..faults
  BY FlowAssumption DEF FlowInv, Typed
<1> QED
  BY <1>1 DEF Temp

LEMMA StepKeeps ==
    ASSUME FlowInv, NEW k \in Task, Busy(k),
           NEW n \in Seq(Steps), Ordered(n), NEW copy, NEW base, Goes(k, n, copy, base),
           fsm' \in States, data' \in Draft, disk' \subseteq Path,
           DOMAIN secrets' = Secret, \A s \in Secret : SecretFits(secrets'[s]),
           life' = life, faults' = faults, calm' = calm,
           plaintext' \subseteq plaintext \cup {Temp(k)},
           Temp(k) \in plaintext' => n # <<>> /\ n[1].op = "save",
           calm => CalmAfter(k)
    PROVE  FlowInv'
<1>1. /\ task' \in [Task -> Job] /\ \A j \in Task \ {k} : task'[j] = task[j]
      /\ task'[k] # Free => task'[k].todo = n /\ n # <<>>
      /\ n # <<>> => task'[k] # Free /\ task'[k].todo = n
  BY DEF Goes
<1>2. Typed'
  BY <1>1, TempIs DEF FlowInv, Typed
<1>8. NoLaterLife'
  BY TempIs DEF FlowInv, NoLaterLife, Temp
<1>3. \A j \in Task : TaskFits(task[j])'
  BY <1>1 DEF FlowInv, TaskFits
<1>4. UploadPlaintextRemoved'
  <2> SUFFICES ASSUME NEW j \in Task, Temp(j)' \in plaintext'
               PROVE  AtStep(j, "save")'
    BY DEF UploadPlaintextRemoved
  <2> Temp(j)' = Temp(j) /\ (Temp(j) = Temp(k) => j = k)
    BY DEF Temp
  <2>1. CASE j # k
    <3>1. Temp(j) \in plaintext /\ AtStep(j, "save") /\ j \in Task
      BY <2>1 DEF FlowInv, UploadPlaintextRemoved
    <3>2. task'[j] = task[j]
      BY <1>1, <2>1, <3>1
    <3> QED
      BY <3>1, <3>2 DEF AtStep, Busy
  <2>2. CASE j = k
    <3>1. task'[k] # Free /\ task'[k].todo = n /\ n # <<>> /\ n[1].op = "save"
      BY <1>1, <2>2
    <3>2. Head(n) = n[1]
      BY <3>1, TailOf
    <3> QED
      BY <2>2, <3>1, <3>2 DEF AtStep, Busy
  <2> QED
    BY <2>1, <2>2
<1>5. \A j \in Task : Busy(j)' => Busy(j)
  BY <1>1 DEF Busy
<1>6. OneTask'
  BY <1>5 DEF FlowInv, OneTask
<1>7. CalmInv'
  <2> SUFFICES ASSUME calm
               PROVE  /\ \A j \in Task : Busy(j)' => CalmTask(task[j])'
                      /\ (Enabled(data) # {})' /\ DraftFile' /\ SecretFiles'
    BY DEF CalmInv
  <2>1. \A j \in Task : Busy(j)' => j = k
    BY <1>5 DEF FlowInv, OneTask
  <2> QED
    BY <2>1 DEF CalmAfter
<1> QED
  BY <1>2, <1>3, <1>4, <1>6, <1>7, <1>8 DEF FlowInv

\* The draft's file is as it should be when the draft is not about to be forgotten.
FileFine == data.path = NoPath \/ Unused(data.path)

LEMMA Fine ==
    ASSUME FlowInv, calm, NEW k \in Task, NEW op, AtStep(k, op), op \notin {"to", "wipe"}
    PROVE  FileFine
<1>1. /\ task[k].todo[1].op = op
      /\ \A j \in Task \ {k} : ~Busy(j)
  BY AtWork
<1>2. \A j \in Task : Busy(j) => ~WipeAhead(task[j].todo)
  BY <1>1 DEF WipeAhead
<1> QED
  BY <1>2 DEF FlowInv, CalmInv, DraftFile, FileFine

\* What is left of a calm task's handler after a step other than the GET of an update writes only
\* plain patches, and begins with a step that relies on none before it.
LEMMA RestPlain ==
    ASSUME FlowInv, calm, NEW k \in Task, NEW op, AtStep(k, op), op # "fetch"
    PROVE  AllPlain(Tail(task[k].todo))
<1> DEFINE s == task[k].todo
<1>1. /\ s \in Seq(Steps) /\ s # <<>> /\ s[1].op = op /\ CalmTask(task[k])
  BY AtWork
<1>2. /\ \A i \in 1..Len(Tail(s)) : Tail(s)[i] = s[i + 1] /\ i + 1 \in 1..Len(s) /\ i + 1 # 1
  BY <1>1, TailOf
<1>3. ASSUME NEW i \in 1..Len(s), s[i].op = "put", i # 1
      PROVE  Plain(s[i].patch)
  <2>1. \/ Plain(s[i].patch)
        \/ i <= 2 /\ (i = 2 => s[1].op = "fetch")
    BY <1>1, <1>3 DEF CalmTask
  <2>2. i <= 2 => i = 2
    BY <1>3
  <2> QED
    BY <1>1, <2>1, <2>2
<1> HIDE DEF s
<1>4. AllPlain(Tail(s))
  BY <1>2, <1>3 DEF AllPlain
<1> QED
  BY <1>4 DEF s

\* Such a rest keeps a calm task in order.
LEMMA CalmRest ==
    ASSUME NEW k \in Task, NEW n \in Seq(Steps), NEW copy, NEW base, Goes(k, n, copy, base),
           Opens(n), AllPlain(n)
    PROVE  Busy(k)' => CalmTask(task[k])'
<1>1. Busy(k)' => task'[k].todo = n /\ n # <<>>
  BY DEF Goes, Busy
<1>2. n # <<>> => n[1].op # "put" /\ n[1].op \notin UsesCopy
  BY DEF Opens
<1>3. \A i \in 1..Len(n) : n[i].op = "put" => Plain(n[i].patch)
  BY DEF AllPlain
<1>4. ASSUME Busy(k)'
      PROVE  CalmTask(task[k])'
  <2>1. task'[k].todo = n /\ n[1].op # "put" /\ n[1].op \notin UsesCopy
    BY <1>1, <1>2, <1>4
  <2>2. \A i \in 1..Len(task'[k].todo) :
            task'[k].todo[i].op = "put" => Plain(task'[k].todo[i].patch)
    BY <1>3, <2>1
  <2> QED
    BY <2>1, <2>2 DEF CalmTask
<1> QED
  BY <1>4

\* Only a task about to encrypt its upload has a plaintext.
LEMMA NoPlaintext ==
    ASSUME FlowInv, NEW k \in Task, NEW op, AtStep(k, op), op # "save"
    PROVE  Temp(k) \notin plaintext
<1>1. Temp(k) \in plaintext => Head(task[k].todo).op = "save"
  BY DEF FlowInv, UploadPlaintextRemoved, AtStep
<1> QED
  BY <1>1 DEF AtStep

\* A step that changes neither draft nor files nor secrets.
LEMMA QuietStep ==
    ASSUME FlowInv, NEW k \in Task, NEW op, AtStep(k, op), op \notin {"to", "wipe", "save"},
           UNCHANGED <<data, disk, secrets, life, faults, calm, fsm>>,
           NEW n \in Seq(Steps), Ordered(n), NEW copy, NEW base, Goes(k, n, copy, base),
           plaintext' = plaintext,
           calm => (Busy(k)' => CalmTask(task[k])')
    PROVE  FlowInv'
<1>1. Busy(k) /\ Temp(k) \notin plaintext
  BY AtWork, NoPlaintext
<1>2. calm => CalmAfter(k)
  <2> SUFFICES ASSUME calm
               PROVE  CalmAfter(k)
    OBVIOUS
  <2>1. FileFine
    BY Fine
  <2>2. DraftFile'
    BY <2>1 DEF DraftFile, FileFine, Unused, Created
  <2>3. (Enabled(data) # {})' /\ SecretFiles'
    BY DEF FlowInv, CalmInv, SecretFiles, Created, Enabled
  <2> QED
    BY <2>2, <2>3 DEF CalmAfter
<1>3. /\ fsm' \in States /\ data' \in Draft /\ disk' \subseteq Path
      /\ DOMAIN secrets' = Secret /\ \A s \in Secret : SecretFits(secrets'[s])
  BY DEF FlowInv, Typed
<1> QED
  BY <1>1, <1>2, <1>3, StepKeeps

LEMMA GetDataStep ==
    ASSUME FlowInv, NEW k \in Task, GetData(k)
    PROVE  FlowInv'
<1> DEFINE s == task[k].todo
           t == [task[k] EXCEPT !.copy = data]
<1>1. /\ AtStep(k, "get") /\ Resume(k, t, Nothing)
      /\ UNCHANGED <<fsm, data, disk, plaintext, secrets, life, faults, calm>>
  BY DEF GetData
<1>2. /\ task[k] \in Job /\ s \in Seq(Steps) /\ s # <<>> /\ Ordered(s) /\ s[1].op = "get"
  BY <1>1, AtWork
<1>3. data \in Draft /\ task \in [Task -> Job]
  BY DEF FlowInv, Typed
<1>4. t \in Job /\ t.todo = s /\ t.copy = data /\ t.base = task[k].base
  BY <1>2, <1>3 DEF Job
<1>5. Goes(k, Tail(s), data, task[k].base)
  <2> HIDE DEF t
  <2> QED
    BY <1>1, <1>2, <1>3, <1>4, Continued
<1>6. Tail(s) \in Seq(Steps) /\ Ordered(Tail(s))
  BY <1>2, TailOf, TailOrdered
<1>7. ASSUME calm, Busy(k)'
      PROVE  CalmTask(task[k])'
  <2> DEFINE n == Tail(s)
  <2>1. n # <<>> /\ task'[k].todo = n /\ (n[1].op \in UsesCopy => task'[k].copy = data')
    BY <1>1, <1>5, <1>7 DEF Goes, Busy
  <2>2. n[1].op # "put"
    <3>1. 2 \in 1..Len(s) /\ n[1] = s[2]
      BY <1>2, <2>1, TailOf
    <3> QED
      BY <1>2, <3>1 DEF Ordered
  <2>3. AllPlain(n)
    BY <1>1, <1>7, RestPlain
  <2> HIDE DEF n
  <2> QED
    BY <2>1, <2>2, <2>3 DEF CalmTask, AllPlain
<1> QED
  BY <1>1, <1>5, <1>6, <1>7, QuietStep

LEMMA FetchDataStep ==
    ASSUME FlowInv, NEW k \in Task, FetchData(k)
    PROVE  FlowInv'
<1> DEFINE s == task[k].todo
           t == [task[k] EXCEPT !.base = data]
<1>1. /\ AtStep(k, "fetch") /\ Resume(k, t, Nothing)
      /\ UNCHANGED <<fsm, data, disk, plaintext, secrets, life, faults, calm>>
  BY DEF FetchData
<1>2. /\ task[k] \in Job /\ s \in Seq(Steps) /\ s # <<>> /\ Ordered(s) /\ s[1].op = "fetch"
  BY <1>1, AtWork
<1>3. data \in Draft /\ task \in [Task -> Job]
  BY DEF FlowInv, Typed
<1>4. t \in Job /\ t.todo = s /\ t.copy = task[k].copy /\ t.base = data
  BY <1>2, <1>3 DEF Job
<1>5. Goes(k, Tail(s), task[k].copy, data)
  <2> HIDE DEF t
  <2> QED
    BY <1>1, <1>2, <1>3, <1>4, Continued
<1>6. Tail(s) \in Seq(Steps) /\ Ordered(Tail(s))
  BY <1>2, TailOf, TailOrdered
<1>7. ASSUME calm, Busy(k)'
      PROVE  CalmTask(task[k])'
  <2> PICK n \in Seq(Steps) : n = Tail(s)
    BY <1>6
  <2>1. n # <<>> /\ task'[k].todo = n /\ task'[k].base = data'
    BY <1>1, <1>5, <1>7 DEF Goes, Busy
  <2>2. n[1].op \notin UsesCopy
    <3>1. 2 \in 1..Len(s) /\ n[1] = s[2] /\ 2 > 1 /\ 2 - 1 = 1
      BY <1>2, <2>1, TailOf
    <3>2. s[2].op \in UsesCopy => s[1].op = "get"
      BY <1>2, <3>1 DEF Ordered
    <3> QED
      BY <1>2, <3>1, <3>2
  <2>3. ASSUME NEW i \in 1..Len(n), n[i].op = "put"
        PROVE  Plain(n[i].patch) \/ (i = 1 /\ Awaited(n[i].patch))
    <3>1. n[i] = s[i + 1] /\ i + 1 \in 1..Len(s)
      BY <1>2, TailOf
    <3>2. CalmTask(task[k])
      BY <1>1, <1>7, AtWork
    <3>3. Plain(s[i + 1].patch) \/ (i + 1 <= 2 /\ Awaited(s[i + 1].patch))
      BY <2>3, <3>1, <3>2 DEF CalmTask
    <3>4. i + 1 <= 2 => i = 1
      BY <2>3
    <3> QED
      BY <3>1, <3>3, <3>4
  <2>4. ASSUME NEW i \in 1..Len(n), n[i].op = "put"
        PROVE  \/ Plain(n[i].patch)
               \/ i <= 2 /\ (i = 2 => n[1].op = "fetch") /\ Awaited(n[i].patch)'
    <3>1. Awaited(n[i].patch) => Awaited(n[i].patch)'
      BY <1>1 DEF Awaited, Unused, Created, Enabled
    <3>2. i = 1 => i <= 2 /\ i # 2
      OBVIOUS
    <3> QED
      BY <2>3, <2>4, <3>1, <3>2
  <2> QED
    BY <2>1, <2>2, <2>4 DEF CalmTask
<1> QED
  BY <1>1, <1>5, <1>6, <1>7, QuietStep

LEMMA PutDataStep ==
    ASSUME FlowInv, NEW k \in Task, PutData(k)
    PROVE  FlowInv'
<1> DEFINE s == task[k].todo
           p == s[1].patch
           t == [task[k] EXCEPT !.base = Blank]
<1>1. /\ AtStep(k, "put") /\ Resume(k, t, Nothing) /\ data' = Merge(task[k].base, Head(s).patch)
      /\ UNCHANGED <<fsm, disk, plaintext, secrets, life, faults, calm>>
  BY DEF PutData
<1>2. /\ task[k] \in Job /\ s \in Seq(Steps) /\ s # <<>> /\ Ordered(s) /\ s[1].op = "put"
      /\ s[1] \in Steps /\ Head(s) = s[1] /\ task[k].base \in Draft /\ Busy(k)
      /\ calm => CalmTask(task[k])
  BY <1>1, AtWork
<1>3. task \in [Task -> Job]
  BY DEF FlowInv, Typed
<1>4. t \in Job /\ t.todo = s /\ t.copy = task[k].copy /\ t.base = Blank
  BY <1>2, BlankDraft DEF Job
<1>5. Goes(k, Tail(s), task[k].copy, Blank)
  <2> HIDE DEF t
  <2> QED
    BY <1>1, <1>2, <1>3, <1>4, Continued
<1>6. Tail(s) \in Seq(Steps) /\ Ordered(Tail(s)) /\ Opens(Tail(s))
  BY <1>2, TailOf, TailOrdered
<1>7. p \in Patch /\ data' = Merge(task[k].base, p)
  BY <1>1, <1>2, StepKinds
<1>8. Temp(k) \notin plaintext
  BY <1>1, NoPlaintext
<1>9. data' \in Draft
  BY <1>2, <1>7, Merged
<1>10. ASSUME calm
       PROVE  CalmAfter(k)
  <2>1. task[k].base = data /\ data' = Merge(data, p) /\ data \in Draft
    BY <1>2, <1>7, <1>10 DEF CalmTask
  <2>2. Plain(p) \/ Awaited(p)
    <3>1. 1 \in 1..Len(s)
      BY <1>2
    <3> QED
      BY <1>2, <1>10, <3>1 DEF CalmTask
  <2>3. Enabled(data) # {} /\ FileFine /\ SecretFiles
    <3>1. FileFine
      BY <1>1, <1>10, Fine
    <3> QED
      BY <1>10, <3>1 DEF FlowInv, CalmInv
  <2>4. Enabled(data') # {}
    <3>1. CASE Plain(p)
      BY <1>7, <2>1, <2>3, <3>1, PlainKeepsAlphabet
    <3>2. CASE Awaited(p)
      BY <2>1, <3>2 DEF Awaited
    <3> QED
      BY <2>2, <3>1, <3>2
  <2>5. data'.path = IF "path" \in DOMAIN p THEN p.path ELSE data.path
    BY <1>7, <2>1, Merged
  <2>6. data'.path = NoPath \/ Unused(data'.path)
    BY <2>2, <2>3, <2>5 DEF Plain, Awaited, FileFine
  <2>7. DraftFile' /\ SecretFiles'
    BY <1>1, <2>3, <2>6 DEF DraftFile, SecretFiles, Unused, Created
  <2>8. AllPlain(Tail(s))
    BY <1>1, <1>10, RestPlain
  <2>9. Busy(k)' => CalmTask(task[k])'
    BY <1>5, <1>6, <2>8, CalmRest
  <2>10. (Enabled(data) # {})'
    BY <2>4 DEF Enabled
  <2> QED
    BY <2>7, <2>9, <2>10 DEF CalmAfter
<1>11. /\ fsm' \in States /\ disk' \subseteq Path /\ DOMAIN secrets' = Secret
       /\ \A x \in Secret : SecretFits(secrets'[x])
  BY <1>1 DEF FlowInv, Typed
<1> QED
  BY <1>1, <1>2, <1>5, <1>6, <1>8, <1>9, <1>10, <1>11, StepKeeps

\* A step that leaves everything but its task alone, and whose task goes on with steps that rely
\* on none before them.
LEMMA QuietRest ==
    ASSUME FlowInv, NEW k \in Task, NEW op, AtStep(k, op), op \notin {"to", "wipe", "save"},
           UNCHANGED <<fsm, data, disk, plaintext, secrets, life, faults, calm>>,
           NEW n \in Seq(Steps), Ordered(n), Opens(n), calm => AllPlain(n),
           NEW copy, NEW base, Goes(k, n, copy, base)
    PROVE  FlowInv'
<1>1. calm => (Busy(k)' => CalmTask(task[k])')
  BY CalmRest
<1> QED
  BY <1>1, QuietStep

LEMMA EmptyRest ==
    <<>> \in Seq(Steps) /\ Ordered(<<>>) /\ Opens(<<>>) /\ AllPlain(<<>>)
BY DEF Ordered, Opens, AllPlain

LEMMA SetStateStep ==
    ASSUME FlowInv, NEW k \in Task, SetState(k)
    PROVE  FlowInv'
<1> DEFINE s == task[k].todo
<1>1. /\ AtStep(k, "to") /\ Resume(k, task[k], Nothing) /\ fsm' = Head(s).state
      /\ UNCHANGED <<data, disk, plaintext, secrets, life, faults, calm>>
  BY DEF SetState, Continue
<1>2. /\ task[k] \in Job /\ s \in Seq(Steps) /\ s # <<>> /\ Ordered(s) /\ s[1].op = "to"
      /\ s[1] \in Steps /\ Head(s) = s[1] /\ Busy(k)
      /\ calm => \A j \in Task \ {k} : ~Busy(j)
  BY <1>1, AtWork
<1>3. task \in [Task -> Job]
  BY DEF FlowInv, Typed
<1>4. Goes(k, Tail(s), task[k].copy, task[k].base)
  BY <1>1, <1>2, <1>3, Continued
<1>5. PICK n \in Seq(Steps) : n = Tail(s)
  BY <1>2, TailOf
<1>6. Ordered(n) /\ Opens(n)
  BY <1>2, <1>5, TailOrdered
<1>7. fsm' \in States
  BY <1>1, <1>2, StepKinds
<1>8. Temp(k) \notin plaintext
  BY <1>1, NoPlaintext
<1>9. ASSUME calm
      PROVE  CalmAfter(k)
  <2>1. DraftFile'
    <3>1. CASE data.path = NoPath \/ Unused(data.path)
      BY <1>1, <3>1 DEF DraftFile, Unused, Created
    <3>2. CASE \E j \in Task : Busy(j) /\ WipeAhead(task[j].todo)
      <4>1. WipeAhead(s)
        BY <1>2, <1>9, <3>2
      <4>2. Len(s) >= 2 /\ s[2].op = "wipe"
        BY <1>2, <4>1 DEF WipeAhead
      <4>3. n # <<>> /\ n[1] = s[2]
        <5>1. /\ Len(n) = Len(s) - 1 /\ Len(s) \in Nat
              /\ \A i \in 1..Len(n) : n[i] = s[i + 1]
          BY <1>2, <1>5, TailOf
        <5>2. 1 \in 1..Len(n) /\ 1 + 1 = 2
          BY <4>2, <5>1
        <5> QED
          BY <5>1, <5>2
      <4>4. Busy(k)' /\ WipeAhead(task'[k].todo)
        BY <1>4, <1>5, <4>2, <4>3 DEF Goes, Busy, WipeAhead
      <4> QED
        BY <4>4 DEF DraftFile
    <3> QED
      BY <1>9, <3>1, <3>2 DEF FlowInv, CalmInv, DraftFile
  <2>2. (Enabled(data) # {})' /\ SecretFiles'
    BY <1>1, <1>9 DEF FlowInv, CalmInv, SecretFiles, Created, Enabled
  <2>3. AllPlain(n)
    BY <1>1, <1>5, <1>9, RestPlain
  <2>4. Busy(k)' => CalmTask(task[k])'
    BY <1>4, <1>5, <1>6, <2>3, CalmRest
  <2> QED
    BY <2>1, <2>2, <2>4 DEF CalmAfter
<1>10. /\ data' \in Draft /\ disk' \subseteq Path /\ DOMAIN secrets' = Secret
       /\ \A x \in Secret : SecretFits(secrets'[x])
  BY <1>1 DEF FlowInv, Typed
<1> QED
  BY <1>1, <1>2, <1>4, <1>5, <1>6, <1>7, <1>8, <1>9, <1>10, StepKeeps

LEMMA WipeDataStep ==
    ASSUME FlowInv, NEW k \in Task, WipeData(k)
    PROVE  FlowInv'
<1> DEFINE s == task[k].todo
<1>1. /\ AtStep(k, "wipe") /\ Resume(k, task[k], Nothing) /\ data' = Blank
      /\ UNCHANGED <<fsm, disk, plaintext, secrets, life, faults, calm>>
  BY DEF WipeData, Continue
<1>2. /\ task[k] \in Job /\ s \in Seq(Steps) /\ s # <<>> /\ Ordered(s) /\ s[1].op = "wipe"
      /\ Busy(k)
  BY <1>1, AtWork
<1>3. task \in [Task -> Job]
  BY DEF FlowInv, Typed
<1>4. Goes(k, Tail(s), task[k].copy, task[k].base)
  BY <1>1, <1>2, <1>3, Continued
<1>5. PICK n \in Seq(Steps) : n = Tail(s)
  BY <1>2, TailOf
<1>6. Ordered(n) /\ Opens(n)
  BY <1>2, <1>5, TailOrdered
<1>7. data' \in Draft /\ data'.path = NoPath
  BY <1>1, BlankDraft
<1>8. Temp(k) \notin plaintext
  BY <1>1, NoPlaintext
<1>9. ASSUME calm
      PROVE  CalmAfter(k)
  <2>1. DraftFile'
    BY <1>7 DEF DraftFile
  <2>2. (Enabled(data) # {})'
    BY <1>1, BlankDraft DEF Enabled
  <2>3. SecretFiles'
    BY <1>1, <1>9 DEF FlowInv, CalmInv, SecretFiles, Created
  <2>4. AllPlain(n)
    BY <1>1, <1>5, <1>9, RestPlain
  <2>5. Busy(k)' => CalmTask(task[k])'
    BY <1>4, <1>5, <1>6, <2>4, CalmRest
  <2> QED
    BY <2>1, <2>2, <2>3, <2>5 DEF CalmAfter
<1>10. /\ fsm' \in States /\ disk' \subseteq Path /\ DOMAIN secrets' = Secret
       /\ \A x \in Secret : SecretFits(secrets'[x])
  BY <1>1 DEF FlowInv, Typed
<1> QED
  BY <1>1, <1>2, <1>4, <1>5, <1>6, <1>7, <1>8, <1>9, <1>10, StepKeeps

\* A handler that deletes the draft's file, or turns the draft into a secret, then forgets it.
LEMMA RestWipes ==
    ASSUME NEW s \in Seq(Steps), s # <<>>, Ordered(s), s[1].op \in {"unlink", "insert"}
    PROVE  Tail(s) # <<>> /\ WipeAhead(Tail(s))
<1>1. 1 \in 1..Len(s) /\ 1 + 1 = 2 /\ 1 + 2 = 3
  BY TailOf
<1>2. Len(s) >= 3 /\ s[2].op = "to" /\ s[3].op = "wipe"
  BY <1>1 DEF Ordered
<1>3. Len(Tail(s)) >= 2 /\ Tail(s)[1] = s[2] /\ Tail(s)[2] = s[3]
  BY <1>2
<1> QED
  BY <1>2, <1>3 DEF WipeAhead

LEMMA UnlinkFileStep ==
    ASSUME FlowInv, NEW k \in Task, UnlinkFile(k)
    PROVE  FlowInv'
<1> DEFINE s == task[k].todo
<1>1. /\ AtStep(k, "unlink") /\ Resume(k, task[k], Nothing) /\ disk' = disk \ {task[k].copy.path}
      /\ UNCHANGED <<fsm, data, plaintext, secrets, life, faults, calm>>
  BY DEF UnlinkFile, Continue
<1>2. /\ task[k] \in Job /\ s \in Seq(Steps) /\ s # <<>> /\ Ordered(s) /\ s[1].op = "unlink"
      /\ Busy(k)
      /\ calm => CalmTask(task[k])
  BY <1>1, AtWork
<1>3. task \in [Task -> Job]
  BY DEF FlowInv, Typed
<1>4. Goes(k, Tail(s), task[k].copy, task[k].base)
  BY <1>1, <1>2, <1>3, Continued
<1>5. PICK n \in Seq(Steps) : n = Tail(s)
  BY <1>2, TailOf
<1>6. Ordered(n) /\ Opens(n)
  BY <1>2, <1>5, TailOrdered
<1>7. n # <<>> /\ WipeAhead(n)
  BY <1>2, <1>5, RestWipes
<1>8. Temp(k) \notin plaintext
  BY <1>1, NoPlaintext
<1>9. ASSUME calm
      PROVE  CalmAfter(k)
  <2>1. DraftFile'
    <3>1. Busy(k)' /\ WipeAhead(task'[k].todo)
      BY <1>4, <1>5, <1>7 DEF Goes, Busy
    <3> QED
      BY <3>1 DEF DraftFile
  <2>2. task[k].copy = data
    <3>1. s[1].op \in UsesCopy
      BY <1>2 DEF UsesCopy
    <3> QED
      BY <1>2, <1>9, <3>1 DEF CalmTask
  <2>3. FileFine
    BY <1>1, <1>9, Fine
  <2>4. \A x \in Created : secrets[x].path # NoPath => secrets[x].path # data.path
    BY <2>3 DEF FileFine, Unused
  <2>5. SecretFiles'
    BY <1>1, <1>9, <2>2, <2>4 DEF FlowInv, CalmInv, SecretFiles, Created
  <2>6. (Enabled(data) # {})'
    BY <1>1, <1>9 DEF FlowInv, CalmInv, Enabled
  <2>7. AllPlain(n)
    BY <1>1, <1>5, <1>9, RestPlain
  <2>8. Busy(k)' => CalmTask(task[k])'
    BY <1>4, <1>5, <1>6, <2>7, CalmRest
  <2> QED
    BY <2>1, <2>5, <2>6, <2>8 DEF CalmAfter
<1>10. /\ fsm' \in States /\ data' \in Draft /\ disk' \subseteq Path /\ DOMAIN secrets' = Secret
       /\ \A x \in Secret : SecretFits(secrets'[x])
  BY <1>1 DEF FlowInv, Typed
<1>11. /\ plaintext' \subseteq plaintext \cup {Temp(k)} /\ Temp(k) \notin plaintext'
       /\ life' = life /\ faults' = faults /\ calm' = calm
  BY <1>1, <1>8
<1> QED
  BY <1>2, <1>4, <1>5, <1>6, <1>9, <1>10, <1>11, StepKeeps

\* Steps put in front of the rest of a task.
LEMMA Prepended ==
    ASSUME NEW s \in Seq(Steps), s # <<>>, Ordered(s), s[1].op \notin {"get", "fetch"},
           NEW more \in Seq(Steps), more # <<>>, Ordered(more), NoToggle(more), Opens(more)
    PROVE  /\ more \o Tail(s) \in Seq(Steps) /\ Ordered(more \o Tail(s)) /\ Opens(more \o Tail(s))
           /\ AllPlain(more) /\ AllPlain(Tail(s)) => AllPlain(more \o Tail(s))
<1>1. PICK r \in Seq(Steps) : r = Tail(s) /\ Ordered(r) /\ Opens(r)
  BY TailOf, TailOrdered
<1>2. Ordered(more \o r)
  BY <1>1, OrderedJoin
<1>3. /\ more \o r \in Seq(Steps) /\ Len(more \o r) = Len(more) + Len(r)
      /\ Len(more) \in Nat \ {0} /\ Len(r) \in Nat
      /\ \A i \in 1..(Len(more) + Len(r)) :
             (more \o r)[i] = IF i <= Len(more) THEN more[i] ELSE r[i - Len(more)]
  BY ConcatProperties
<1>4. (more \o r)[1] = more[1]
  BY <1>3
<1>5. Opens(more \o r)
  BY <1>4 DEF Opens
<1>6. ASSUME AllPlain(more), AllPlain(r)
      PROVE  AllPlain(more \o r)
  <2> SUFFICES ASSUME NEW i \in 1..Len(more \o r), (more \o r)[i].op = "put"
               PROVE  Plain((more \o r)[i].patch)
    BY DEF AllPlain
  <2>1. CASE i <= Len(more)
    <3>1. i \in 1..Len(more) /\ (more \o r)[i] = more[i]
      BY <1>3, <2>1
    <3> QED
      BY <1>6, <3>1 DEF AllPlain
  <2>2. CASE ~(i <= Len(more))
    <3>1. i - Len(more) \in 1..Len(r) /\ (more \o r)[i] = r[i - Len(more)]
      BY <1>3, <2>2
    <3> QED
      BY <1>6, <3>1 DEF AllPlain
  <2> QED
    BY <2>1, <2>2
<1> QED
  BY <1>1, <1>2, <1>3, <1>5, <1>6

\* A step that decides what comes first and leaves the rest of the world alone.
LEMMA DecidingStep ==
    ASSUME FlowInv, NEW k \in Task, NEW op \in {"default", "password", "encrypt"}, AtStep(k, op),
           UNCHANGED <<fsm, data, disk, plaintext, secrets, life, faults, calm>>,
           NEW more, Part(more), Resume(k, task[k], more)
    PROVE  FlowInv'
<1> DEFINE s == task[k].todo
<1>1. /\ task[k] \in Job /\ s \in Seq(Steps) /\ s # <<>> /\ Ordered(s) /\ s[1].op = op
  BY AtWork
<1>2. task \in [Task -> Job]
  BY DEF FlowInv, Typed
<1>3. more \in Seq(Steps) /\ more # <<>> /\ Ordered(more) /\ NoToggle(more) /\ Opens(more)
      /\ AllPlain(more)
  BY DEF Part, Good
<1>4. PICK n \in Seq(Steps) : n = more \o Tail(s) /\ Ordered(n) /\ Opens(n)
  BY <1>1, <1>3, Prepended
<1>5. Goes(k, n, task[k].copy, task[k].base)
  BY <1>1, <1>2, <1>3, <1>4, Resumed
<1>6. calm => AllPlain(n)
  <2>1. calm => AllPlain(Tail(s))
    BY RestPlain
  <2> QED
    BY <1>1, <1>3, <1>4, <2>1, Prepended
<1> QED
  BY <1>4, <1>5, <1>6, QuietRest

\* The same for a step that just goes on.
LEMMA PassingStep ==
    ASSUME FlowInv, NEW k \in Task, NEW op \in {"default", "password", "encrypt"}, AtStep(k, op),
           UNCHANGED <<fsm, data, disk, plaintext, secrets, life, faults, calm>>,
           Resume(k, task[k], Nothing)
    PROVE  FlowInv'
<1> DEFINE s == task[k].todo
<1>1. /\ task[k] \in Job /\ s \in Seq(Steps) /\ s # <<>> /\ Ordered(s) /\ s[1].op = op
  BY AtWork
<1>2. task \in [Task -> Job]
  BY DEF FlowInv, Typed
<1>3. PICK n \in Seq(Steps) : n = Tail(s) /\ Ordered(n) /\ Opens(n)
  BY <1>1, TailOf, TailOrdered
<1>4. Goes(k, n, task[k].copy, task[k].base)
  BY <1>1, <1>2, <1>3, Continued
<1>5. calm => AllPlain(n)
  BY <1>3, RestPlain
<1> QED
  BY <1>3, <1>4, <1>5, QuietRest

\* And for one that ends the handler.
LEMMA EndingStep ==
    ASSUME FlowInv, NEW k \in Task, NEW op, AtStep(k, op), op \notin {"to", "wipe", "save"},
           UNCHANGED <<fsm, data, disk, plaintext, secrets, life, faults, calm>>, Return(k)
    PROVE  FlowInv'
<1>1. task \in [Task -> Job]
  BY DEF FlowInv, Typed
<1>2. PICK n \in Seq(Steps) : n = <<>> /\ Ordered(n) /\ Opens(n) /\ AllPlain(n)
  BY EmptyRest
<1>3. Goes(k, n, Blank, Blank)
  BY <1>1, <1>2, Returned
<1> QED
  BY <1>2, <1>3, QuietRest

LEMMA SetDefaultStep ==
    ASSUME FlowInv, NEW k \in Task, SetDefault(k)
    PROVE  FlowInv'
<1>1. PICK f : /\ f = Head(task[k].todo).field
               /\ \/ Resume(k, task[k], Update(DefaultOf(f)))
                  \/ Resume(k, task[k], Nothing)
  BY DEF SetDefault
<1>2. AtStep(k, "default") /\ UNCHANGED <<fsm, data, disk, plaintext, secrets, life, faults, calm>>
  BY DEF SetDefault
<1>3. f \in {"ttl", "views", "mode"}
  BY <1>1, <1>2, AtWork, StepKinds
<1>4. PICK v \in BOOLEAN : v = TRUE
  OBVIOUS
<1>5. DefaultOf(f) \in {Lasting(v), Viewed(v), For("any", NoUser)}
  BY <1>3, <1>4 DEF DefaultOf, Lasting, Viewed, For
<1>6. Part(Update(DefaultOf(f)))
  BY <1>5, PlainPatches, UpdatePart
<1> QED
  BY <1>1, <1>2, <1>6, DecidingStep, PassingStep

LEMMA MakePasswordStep ==
    ASSUME FlowInv, NEW k \in Task, MakePassword(k)
    PROVE  FlowInv'
<1>1. AtStep(k, "password") /\ UNCHANGED <<fsm, data, disk, plaintext, secrets, life, faults, calm>>
      /\ (Return(k) \/ Resume(k, task[k], save_generated))
  BY DEF MakePassword
<1>2. Part(save_generated)
  BY PlainPatches, UpdateTo DEF save_generated, Generated, States
<1> QED
  BY <1>1, <1>2, DecidingStep, EndingStep

LEMMA StoreTextStep ==
    ASSUME FlowInv, NEW k \in Task, StoreText(k)
    PROVE  FlowInv'
<1>1. AtStep(k, "encrypt") /\ UNCHANGED <<fsm, data, disk, plaintext, secrets, life, faults, calm>>
  BY DEF StoreText
<1>2. task[k].copy \in Draft
  BY <1>1, AtWork
<1>3. PICK content : content = IF task[k].copy.content = "none" THEN "text" ELSE task[k].copy.content
  OBVIOUS
<1>4. content \in {"text", "file"}
  BY <1>2, <1>3 DEF Draft, IsDraft
<1>5. PICK v \in BOOLEAN : v = TRUE
  OBVIOUS
<1>6. Resume(k, task[k], Update(Texted(content, v)))
  BY <1>3, <1>5 DEF StoreText, Texted
<1>7. Part(Update(Texted(content, v)))
  BY <1>4, <1>5, PlainPatches, UpdatePart
<1> QED
  BY <1>1, <1>6, <1>7, DecidingStep

-----------------------------------------------------------------------------
(* Patches that are not plain *)

LEMMA UpdateIs ==
    ASSUME NEW p \in Patch
    PROVE  /\ Update(p) \in Seq(Steps) /\ Update(p) # <<>> /\ Len(Update(p)) = 2
           /\ Update(p)[1] = Fetch /\ Update(p)[2] = Put(p)
           /\ Ordered(Update(p)) /\ NoToggle(Update(p)) /\ Opens(Update(p))
<1> DEFINE s == <<Fetch, Put(p)>>
<1>1. Fetch \in Steps /\ Fetch.op = "fetch" /\ Put(p) \in Steps /\ Put(p).op = "put"
  BY StepsAre
<1>2. /\ s \in Seq(Steps) /\ s # <<>> /\ Len(s) = 2 /\ s[1] = Fetch /\ s[2] = Put(p)
      /\ \A i \in 1..Len(s) : i = 1 \/ i = 2
  BY <1>1
<1>3. s = Update(p)
  BY DEF Update
<1> HIDE DEF s
<1>4. Ordered(s) /\ NoToggle(s) /\ Opens(s)
  BY <1>1, <1>2 DEF Ordered, NoToggle, Opens, UsesCopy
<1> QED
  BY <1>2, <1>3, <1>4

\* A task that is to write such a patch next, of which only this is known: written over the
\* present draft it does no harm.
LEMMA AwaitedRest ==
    ASSUME NEW k \in Task, NEW p \in Patch, NEW r \in Seq(Steps), AllPlain(r),
           NEW copy, NEW base, Goes(k, Update(p) \o r, copy, base), Awaited(p)'
    PROVE  Busy(k)' => CalmTask(task[k])'
<1>1. PICK n \in Seq(Steps) : n = Update(p) \o r
  BY UpdateIs, ConcatProperties
<1>2. /\ Len(n) = 2 + Len(r) /\ Len(r) \in Nat
      /\ \A i \in 1..Len(n) : n[i] = IF i <= 2 THEN Update(p)[i] ELSE r[i - 2]
  <2>1. PICK u \in Seq(Steps) : u = Update(p) /\ Len(u) = 2
    BY UpdateIs
  <2>2. /\ Len(u \o r) = Len(u) + Len(r) /\ Len(r) \in Nat
        /\ \A i \in 1..(Len(u) + Len(r)) : (u \o r)[i] = IF i <= Len(u) THEN u[i] ELSE r[i - Len(u)]
    BY ConcatProperties
  <2> QED
    BY <1>1, <2>1, <2>2
<1>3. n # <<>> /\ n[1] = Fetch /\ n[2] = Put(p)
  <2>1. 1 \in 1..Len(n) /\ 2 \in 1..Len(n) /\ 1 <= 2 /\ 2 <= 2
    BY <1>2
  <2>2. n[1] = Update(p)[1] /\ n[2] = Update(p)[2] /\ n # <<>>
    BY <1>2, <2>1
  <2> QED
    BY <2>2, UpdateIs
<1>4. /\ n[1].op = "fetch" /\ n[1].op \notin UsesCopy
      /\ n[2].op = "put" /\ n[2].patch = p
  BY <1>3, StepsAre DEF UsesCopy
<1>5. task'[k].todo = n
  BY <1>1, <1>3 DEF Goes
<1>6. ASSUME NEW i \in 1..Len(n), n[i].op = "put"
      PROVE  Plain(n[i].patch) \/ (i = 2 /\ Awaited(n[i].patch)')
  <2>1. i # 1
    BY <1>4, <1>6
  <2>2. CASE i = 2
    BY <1>4, <2>2
  <2>3. CASE i > 2
    <3>1. n[i] = r[i - 2] /\ i - 2 \in 1..Len(r)
      BY <1>2, <2>3
    <3> QED
      BY <1>6, <3>1 DEF AllPlain
  <2> QED
    BY <2>1, <2>2, <2>3
<1> QED
  BY <1>4, <1>5, <1>6 DEF CalmTask

LEMMA ToggleOptionStep ==
    ASSUME FlowInv, NEW k \in Task, ToggleOption(k)
    PROVE  FlowInv'
<1> DEFINE s == task[k].todo
           copy == task[k].copy
<1>1. /\ AtStep(k, "toggle")
      /\ UNCHANGED <<fsm, data, disk, plaintext, secrets, life, faults, calm>>
  BY DEF ToggleOption
<1>2. /\ task[k] \in Job /\ s \in Seq(Steps) /\ s # <<>> /\ Ordered(s) /\ s[1].op = "toggle"
      /\ s[1] \in Steps /\ Head(s) = s[1] /\ copy \in Draft
      /\ calm => CalmTask(task[k])
  BY <1>1, AtWork
<1>3. task \in [Task -> Job] /\ data \in Draft
  BY DEF FlowInv, Typed
<1>4. PICK c \in Charset : c = Head(s).field
  BY <1>2, StepKinds
<1>5. CASE Return(k)
  BY <1>1, <1>5, EndingStep
<1>6. CASE Enabled(copy) # {c} /\ Resume(k, task[k], Update([f \in {c} |-> ~copy[f]]))
  <2>1. copy[c] \in BOOLEAN
    BY <1>2, <1>4 DEF Draft, IsDraft
  <2>2. PICK v \in BOOLEAN : v = ~copy[c]
    BY <2>1
  <2>3. [f \in {c} |-> ~copy[f]] = [f \in {c} |-> v]
    BY <2>2
  <2>4. PICK p \in Patch : /\ p = [f \in {c} |-> v]
                           /\ DOMAIN p = {c} /\ p[c] = v /\ "path" \notin DOMAIN p
    BY <1>4, <2>2, TogglePatch
  <2>5. Resume(k, task[k], Update(p))
    BY <1>6, <2>3, <2>4
  <2>6. /\ Update(p) \in Seq(Steps) /\ Update(p) # <<>> /\ Ordered(Update(p))
        /\ NoToggle(Update(p)) /\ Opens(Update(p))
    BY UpdateIs
  <2>7. PICK r \in Seq(Steps) : r = Tail(s)
    BY <1>2, TailOf
  <2>8. Goes(k, Update(p) \o r, copy, task[k].base)
    BY <1>2, <1>3, <2>5, <2>6, <2>7, Resumed
  <2>9. PICK n \in Seq(Steps) : n = Update(p) \o r /\ Ordered(n)
    BY <1>2, <2>6, <2>7, Prepended
  <2>10. ASSUME calm
         PROVE  Busy(k)' => CalmTask(task[k])'
    <3>1. copy = data
      <4>1. s[1].op \in UsesCopy
        BY <1>2 DEF UsesCopy
      <4> QED
        BY <1>2, <2>10, <4>1 DEF CalmTask
    <3>2. Enabled(data) # {}
      BY <2>10 DEF FlowInv, CalmInv
    <3>3. \A d \in Charset : Merge(data, p)[d] = IF d = c THEN v ELSE data[d]
      BY <1>3, <2>4, Merged
    <3>4. Enabled(Merge(data, p)) # {}
      <4>1. CASE data[c]
        <5>1. c \in Enabled(data)
          BY <4>1 DEF Enabled
        <5>2. PICK d \in Enabled(data) : d # c
          BY <1>6, <3>1, <5>1
        <5>3. d \in Enabled(Merge(data, p))
          BY <3>3, <5>2 DEF Enabled
        <5> QED
          BY <5>3
      <4>2. CASE ~data[c]
        <5>1. v
          BY <2>2, <3>1, <4>2
        <5>2. c \in Enabled(Merge(data, p))
          BY <3>3, <5>1 DEF Enabled
        <5> QED
          BY <5>2
      <4> QED
        BY <4>1, <4>2
    <3>5. Awaited(p)'
      BY <1>1, <2>4, <3>4 DEF Awaited, Enabled
    <3>6. AllPlain(r)
      BY <1>1, <2>7, <2>10, RestPlain
    <3> QED
      BY <2>8, <3>5, <3>6, AwaitedRest
  <2> QED
    BY <1>1, <2>8, <2>9, <2>10, QuietStep
<1> QED
  BY <1>4, <1>5, <1>6 DEF ToggleOption

-----------------------------------------------------------------------------
(* Files and secrets *)

LEMMA SaveFileStep ==
    ASSUME FlowInv, NEW k \in Task, SaveFile(k)
    PROVE  FlowInv'
<1> DEFINE s == task[k].todo
<1>1. PICK f \in Path \ Referred :
          /\ disk' = disk \cup {f}
          /\ Resume(k, task[k], Update([content |-> "file", payload |-> "file", path |-> f,
                                        ttl |-> TRUE, views |-> TRUE]))
  BY DEF SaveFile
<1>2. /\ AtStep(k, "save") /\ plaintext' = plaintext \ {Temp(k)}
      /\ UNCHANGED <<fsm, data, secrets, life, faults, calm>>
  BY DEF SaveFile
<1>3. /\ task[k] \in Job /\ s \in Seq(Steps) /\ s # <<>> /\ Ordered(s) /\ s[1].op = "save"
      /\ Busy(k)
  BY <1>2, AtWork
<1>4. task \in [Task -> Job] /\ data \in Draft
  BY DEF FlowInv, Typed
<1>5. PICK v \in BOOLEAN : v = TRUE
  OBVIOUS
<1>6. PICK p \in Patch : /\ p = Filed(f, v)
                         /\ DOMAIN p \cap Charset = {} /\ "path" \in DOMAIN p /\ p.path = f
  BY <1>1, <1>5, FilePatch
<1>7. Resume(k, task[k], Update(p))
  BY <1>1, <1>5, <1>6 DEF Filed
<1>8. /\ Update(p) \in Seq(Steps) /\ Update(p) # <<>> /\ Ordered(Update(p))
      /\ NoToggle(Update(p)) /\ Opens(Update(p))
  BY UpdateIs
<1>9. PICK r \in Seq(Steps) : r = Tail(s)
  BY <1>3, TailOf
<1>10. Goes(k, Update(p) \o r, task[k].copy, task[k].base)
  BY <1>3, <1>4, <1>7, <1>8, <1>9, Resumed
<1>11. PICK n \in Seq(Steps) : n = Update(p) \o r /\ Ordered(n)
  BY <1>3, <1>8, <1>9, Prepended
<1>12. ASSUME calm
       PROVE  CalmAfter(k)
  <2>1. FileFine
    BY <1>2, <1>12, Fine
  <2>2. \A x \in Created : secrets[x].path # f
    BY <1>1 DEF Referred, Created
  <2>3. Unused(f)'
    BY <1>1, <1>2, <2>2 DEF Unused, Created
  <2>4. DraftFile'
    BY <1>1, <1>2, <2>1 DEF FileFine, DraftFile, Unused, Created
  <2>5. SecretFiles'
    BY <1>1, <1>2, <1>12 DEF FlowInv, CalmInv, SecretFiles, Created
  <2>6. Enabled(data) # {} /\ (Enabled(data) # {})'
    BY <1>2, <1>12 DEF FlowInv, CalmInv, Enabled
  <2>7. \A c \in Charset : Merge(data, p)[c] = data[c]
    BY <1>4, <1>6, Merged
  <2>8. Enabled(Merge(data, p)) # {}
    BY <2>6, <2>7 DEF Enabled
  <2>9. (Enabled(Merge(data, p)) # {})'
    BY <1>2, <2>8 DEF Enabled
  <2>10. Awaited(p)'
    BY <1>6, <2>3, <2>9 DEF Awaited
  <2>11. AllPlain(r)
    BY <1>2, <1>9, <1>12, RestPlain
  <2>12. Busy(k)' => CalmTask(task[k])'
    BY <1>10, <2>10, <2>11, AwaitedRest
  <2> QED
    BY <2>4, <2>5, <2>6, <2>12 DEF CalmAfter
<1>13. /\ fsm' \in States /\ data' \in Draft /\ disk' \subseteq Path
       /\ DOMAIN secrets' = Secret /\ \A x \in Secret : SecretFits(secrets'[x])
  BY <1>1, <1>2 DEF FlowInv, Typed
<1>14. /\ plaintext' \subseteq plaintext \cup {Temp(k)} /\ Temp(k) \notin plaintext'
       /\ life' = life /\ faults' = faults /\ calm' = calm
  BY <1>2
<1> QED
  BY <1>3, <1>10, <1>11, <1>12, <1>13, <1>14, StepKeeps

LEMMA DownloadStep ==
    ASSUME FlowInv, NEW k \in Task, Download(k)
    PROVE  FlowInv'
<1> DEFINE s == task[k].todo
<1>1. /\ AtStep(k, "download") /\ Resume(k, task[k], Nothing) /\ plaintext' = plaintext \cup {Temp(k)}
      /\ UNCHANGED <<fsm, data, disk, secrets, life, faults, calm>>
  BY DEF Download, Continue
<1>2. /\ task[k] \in Job /\ s \in Seq(Steps) /\ s # <<>> /\ Ordered(s) /\ s[1].op = "download"
      /\ Busy(k)
  BY <1>1, AtWork
<1>3. task \in [Task -> Job]
  BY DEF FlowInv, Typed
<1>4. Goes(k, Tail(s), task[k].copy, task[k].base)
  BY <1>1, <1>2, <1>3, Continued
<1>5. PICK n \in Seq(Steps) : n = Tail(s)
  BY <1>2, TailOf
<1>6. Ordered(n) /\ Opens(n)
  BY <1>2, <1>5, TailOrdered
<1>7. n # <<>> /\ n[1].op = "save"
  <2>1. 1 \in 1..Len(s) /\ 1 + 1 = 2
    BY <1>2, TailOf
  <2>2. Len(s) >= 2 /\ s[2].op = "save"
    BY <1>2, <2>1 DEF Ordered
  <2>3. /\ Len(n) = Len(s) - 1 /\ Len(s) \in Nat
        /\ \A i \in 1..Len(n) : n[i] = s[i + 1]
    BY <1>2, <1>5, TailOf
  <2>4. 1 \in 1..Len(n)
    BY <2>2, <2>3
  <2>5. n[1] = s[2]
    BY <2>1, <2>3, <2>4
  <2> QED
    BY <2>2, <2>4, <2>5
<1>8. ASSUME calm
      PROVE  CalmAfter(k)
  <2>1. FileFine
    BY <1>1, <1>8, Fine
  <2>2. DraftFile'
    BY <1>1, <2>1 DEF DraftFile, FileFine, Unused, Created
  <2>3. (Enabled(data) # {})' /\ SecretFiles'
    BY <1>1, <1>8 DEF FlowInv, CalmInv, SecretFiles, Created, Enabled
  <2>4. AllPlain(n)
    BY <1>1, <1>5, <1>8, RestPlain
  <2>5. Busy(k)' => CalmTask(task[k])'
    BY <1>4, <1>5, <1>6, <2>4, CalmRest
  <2> QED
    BY <2>2, <2>3, <2>5 DEF CalmAfter
<1>9. /\ fsm' \in States /\ data' \in Draft /\ disk' \subseteq Path /\ DOMAIN secrets' = Secret
      /\ \A x \in Secret : SecretFits(secrets'[x])
  BY <1>1 DEF FlowInv, Typed
<1>10. plaintext' \subseteq plaintext \cup {Temp(k)} /\ life' = life /\ faults' = faults /\ calm' = calm
  BY <1>1
<1> QED
  BY <1>2, <1>4, <1>5, <1>6, <1>7, <1>8, <1>9, <1>10, StepKeeps

LEMMA UploadFailsStep ==
    ASSUME FlowInv, NEW k \in Task, UploadFails(k)
    PROVE  FlowInv'
<1>1. PICK op \in {"save", "download"} : AtStep(k, op)
  BY DEF UploadFails
<1>2. /\ plaintext' = plaintext \ {Temp(k)} /\ Return(k)
      /\ UNCHANGED <<fsm, data, disk, secrets, life, faults, calm>>
  BY DEF UploadFails
<1>3. task \in [Task -> Job]
  BY DEF FlowInv, Typed
<1>4. Busy(k)
  BY <1>1, AtWork
<1>5. PICK n \in Seq(Steps) : n = <<>> /\ Ordered(n) /\ Opens(n) /\ AllPlain(n)
  BY EmptyRest
<1>6. Goes(k, n, Blank, Blank)
  BY <1>2, <1>3, <1>5, Returned
<1>7. ASSUME calm
      PROVE  CalmAfter(k)
  <2>1. FileFine
    BY <1>1, <1>7, Fine
  <2>2. DraftFile'
    BY <1>2, <2>1 DEF DraftFile, FileFine, Unused, Created
  <2>3. (Enabled(data) # {})' /\ SecretFiles'
    BY <1>2, <1>7 DEF FlowInv, CalmInv, SecretFiles, Created, Enabled
  <2>4. Busy(k)' => CalmTask(task[k])'
    BY <1>5, <1>6, CalmRest
  <2> QED
    BY <2>2, <2>3, <2>4 DEF CalmAfter
<1>8. /\ fsm' \in States /\ data' \in Draft /\ disk' \subseteq Path /\ DOMAIN secrets' = Secret
      /\ \A x \in Secret : SecretFits(secrets'[x])
  BY <1>2 DEF FlowInv, Typed
<1>9. /\ plaintext' \subseteq plaintext \cup {Temp(k)} /\ Temp(k) \notin plaintext'
      /\ life' = life /\ faults' = faults /\ calm' = calm
  BY <1>2
<1> QED
  BY <1>4, <1>5, <1>6, <1>7, <1>8, <1>9, StepKeeps

\* What a draft becomes.
LEMMA SecretOfDraft ==
    ASSUME NEW d \in Draft
    PROVE  /\ SecretFits(SecretOf(d)) /\ SecretOf(d) # NoSecret
           /\ SecretOf(d).path = d.path
<1>1. /\ d.content \in {"none", "text", "file"}
      /\ d.mode \in {"unset", "any", "first", "specific"} /\ Paired(d)
  BY DEF Draft, IsDraft
<1>2. PICK c : c = IF d.content = "none" THEN "text" ELSE d.content
  OBVIOUS
<1>3. PICK m : m = IF d.mode = "unset" THEN "any" ELSE d.mode
  OBVIOUS
<1>4. SecretOf(d) = [content |-> c, path |-> d.path, mode |-> m, recipient |-> d.recipient]
  BY <1>2, <1>3 DEF SecretOf
<1>5. c \in {"text", "file"} /\ m \in {"any", "first", "specific"}
      /\ (m = "specific" <=> d.mode = "specific")
  BY <1>1, <1>2, <1>3
<1>6. /\ SecretOf(d).content = c /\ SecretOf(d).path = d.path
      /\ SecretOf(d).mode = m /\ SecretOf(d).recipient = d.recipient
  BY <1>4
<1>7. NoSecret.content = "none"
  BY DEF NoSecret
<1>8. SecretOf(d) # NoSecret
  BY <1>5, <1>6, <1>7
<1>9. SecretFits(SecretOf(d))
  BY <1>1, <1>5, <1>6 DEF SecretFits, Paired
<1> QED
  BY <1>6, <1>8, <1>9

LEMMA InsertSecretStep ==
    ASSUME FlowInv, NEW k \in Task, InsertSecret(k)
    PROVE  FlowInv'
<1> DEFINE s == task[k].todo
           copy == task[k].copy
<1>1. AtStep(k, "insert") /\ UNCHANGED <<fsm, data, disk, plaintext, life, faults, calm>>
  BY DEF InsertSecret
<1>2. /\ task[k] \in Job /\ s \in Seq(Steps) /\ s # <<>> /\ Ordered(s) /\ s[1].op = "insert"
      /\ Busy(k) /\ copy \in Draft
      /\ calm => CalmTask(task[k])
  BY <1>1, AtWork
<1>3. task \in [Task -> Job]
  BY DEF FlowInv, Typed
<1>4. CASE Return(k) /\ UNCHANGED secrets
  BY <1>1, <1>4, EndingStep
<1>5. CASE \E x \in Secret : /\ secrets[x] = NoSecret
                             /\ secrets' = [secrets EXCEPT ![x] = SecretOf(copy)]
                             /\ Resume(k, task[k], Nothing)
  <2>1. PICK x \in Secret : /\ secrets[x] = NoSecret
                            /\ secrets' = [secrets EXCEPT ![x] = SecretOf(copy)]
                            /\ Resume(k, task[k], Nothing)
    BY <1>5
  <2>2. Goes(k, Tail(s), copy, task[k].base)
    BY <1>2, <1>3, <2>1, Continued
  <2>3. PICK n \in Seq(Steps) : n = Tail(s)
    BY <1>2, TailOf
  <2>4. Ordered(n) /\ Opens(n)
    BY <1>2, <2>3, TailOrdered
  <2>5. n # <<>> /\ WipeAhead(n)
    BY <1>2, <2>3, RestWipes
  <2>6. /\ DOMAIN secrets' = Secret /\ secrets'[x] = SecretOf(copy)
        /\ \A y \in Secret \ {x} : secrets'[y] = secrets[y]
    BY <2>1 DEF FlowInv, Typed
  <2>7. /\ SecretFits(secrets'[x]) /\ secrets'[x] # NoSecret /\ secrets'[x].path = copy.path
    BY <1>2, <2>6, SecretOfDraft
  <2>8. \A y \in Secret : SecretFits(secrets'[y])
    BY <2>6, <2>7 DEF FlowInv
  <2>9. Temp(k) \notin plaintext
    BY <1>1, NoPlaintext
  <2>10. ASSUME calm
         PROVE  CalmAfter(k)
    <3>1. DraftFile'
      <4>1. Busy(k)' /\ WipeAhead(task'[k].todo)
        BY <2>2, <2>3, <2>5 DEF Goes, Busy
      <4> QED
        BY <4>1 DEF DraftFile
    <3>2. copy = data
      <4>1. s[1].op \in UsesCopy
        BY <1>2 DEF UsesCopy
      <4> QED
        BY <1>2, <2>10, <4>1 DEF CalmTask
    <3>3. FileFine
      BY <1>1, <2>10, Fine
    <3>4. Created' = Created \cup {x} /\ x \notin Created
      BY <2>1, <2>6, <2>7 DEF Created
    <3>5. SecretFiles'
      <4>1. SecretFiles
        BY <2>10 DEF FlowInv, CalmInv
      <4>2. /\ data.path # NoPath => data.path \in disk
            /\ \A y \in Created : secrets[y].path # NoPath => secrets[y].path # data.path
        BY <3>3 DEF FileFine, Unused
      <4>3. \A y \in Created : secrets'[y] = secrets[y]
        BY <2>6, <3>4 DEF Created
      <4>4. secrets'[x].path = data.path
        BY <2>7, <3>2
      <4>5. ASSUME NEW y \in Created', secrets'[y].path # NoPath
            PROVE  /\ secrets'[y].path \in disk'
                   /\ \A z \in Created' \ {y} : secrets'[z].path # secrets'[y].path
        <5>1. CASE y = x
          BY <1>1, <3>4, <4>2, <4>3, <4>4, <4>5, <5>1
        <5>2. CASE y # x
          <6>1. y \in Created /\ secrets'[y] = secrets[y] /\ secrets[y].path # NoPath
            BY <3>4, <4>3, <4>5, <5>2
          <6>2. /\ secrets[y].path \in disk
                /\ \A z \in Created \ {y} : secrets[z].path # secrets[y].path
            BY <4>1, <6>1 DEF SecretFiles
          <6>3. secrets[y].path # data.path
            BY <4>2, <6>1
          <6> QED
            BY <1>1, <3>4, <4>3, <4>4, <6>1, <6>2, <6>3
        <5> QED
          BY <5>1, <5>2
      <4> QED
        BY <4>5 DEF SecretFiles
    <3>6. (Enabled(data) # {})'
      BY <1>1, <2>10 DEF FlowInv, CalmInv, Enabled
    <3>7. AllPlain(n)
      BY <1>1, <2>3, <2>10, RestPlain
    <3>8. Busy(k)' => CalmTask(task[k])'
      BY <2>2, <2>3, <2>4, <3>7, CalmRest
    <3> QED
      BY <3>1, <3>5, <3>6, <3>8 DEF CalmAfter
  <2>11. /\ fsm' \in States /\ data' \in Draft /\ disk' \subseteq Path
         /\ plaintext' \subseteq plaintext \cup {Temp(k)} /\ Temp(k) \notin plaintext'
         /\ life' = life /\ faults' = faults /\ calm' = calm
    BY <1>1, <2>9 DEF FlowInv, Typed
  <2> QED
    BY <1>2, <2>2, <2>3, <2>4, <2>6, <2>8, <2>10, <2>11, StepKeeps
<1> QED
  BY <1>4, <1>5 DEF InsertSecret, Continue

-----------------------------------------------------------------------------
(* Failures, crashes, and updates that come in *)

LEMMA HandlerFailsStep ==
    ASSUME FlowInv, NEW k \in Task, HandlerFails(k)
    PROVE  FlowInv'
<1>1. /\ faults < MaxFaults /\ plaintext' = plaintext \ {Temp(k)} /\ Return(k)
      /\ faults' = faults + 1 /\ calm' = FALSE
      /\ UNCHANGED <<fsm, data, disk, secrets, life>>
  BY DEF HandlerFails
<1>2. Goes(k, <<>>, Blank, Blank)
  BY <1>1, Returned DEF FlowInv, Typed
<1>3. /\ task' \in [Task -> Job] /\ task'[k] = Free
      /\ \A j \in Task \ {k} : task'[j] = task[j]
  BY <1>2 DEF Goes
<1>4. faults' \in 0..MaxFaults /\ life' \in 0..faults'
  BY <1>1, FlowAssumption DEF FlowInv, Typed
<1>5. Typed'
  BY <1>1, <1>3, <1>4 DEF FlowInv, Typed
<1>6. \A x \in Secret : SecretFits(secrets[x])'
  BY <1>1 DEF FlowInv, SecretFits
<1>7. \A j \in Task : TaskFits(task[j])'
  BY <1>3 DEF FlowInv, TaskFits
<1>8. UploadPlaintextRemoved'
  <2> SUFFICES ASSUME NEW j \in Task, Temp(j)' \in plaintext'
               PROVE  AtStep(j, "save")'
    BY DEF UploadPlaintextRemoved
  <2>1. Temp(j) \in plaintext /\ j \in Task \ {k}
    BY <1>1 DEF Temp
  <2> QED
    BY <1>3, <2>1 DEF FlowInv, UploadPlaintextRemoved, AtStep, Busy
<1>9. OneTask' /\ CalmInv' /\ NoLaterLife'
  BY <1>1 DEF OneTask, CalmInv, FlowInv, NoLaterLife
<1> QED
  BY <1>5, <1>6, <1>7, <1>8, <1>9 DEF FlowInv

LEMMA CrashStep ==
    ASSUME FlowInv, Crash
    PROVE  FlowInv'
<1>1. /\ faults < MaxFaults /\ life' = life + 1 /\ task' = [k \in Task |-> Free]
      /\ faults' = faults + 1 /\ calm' = FALSE
      /\ UNCHANGED <<fsm, data, disk, plaintext, secrets>>
  BY DEF Crash
<1>2. task' \in [Task -> Job] /\ \A k \in Task : task'[k] = Free
  BY <1>1, FreeIs
<1>3. faults' \in 0..MaxFaults /\ life' \in 0..faults' /\ life \in Nat
  BY <1>1, FlowAssumption DEF FlowInv, Typed
<1>4. Typed'
  BY <1>1, <1>2, <1>3 DEF FlowInv, Typed
<1>5. \A x \in Secret : SecretFits(secrets[x])'
  BY <1>1 DEF FlowInv, SecretFits
<1>6. \A j \in Task : TaskFits(task[j])'
  BY <1>2 DEF TaskFits
<1>7. OneTask' /\ CalmInv'
  BY <1>1 DEF OneTask, CalmInv
<1>8. NoLaterLife'
  BY <1>1, <1>3 DEF FlowInv, NoLaterLife
<1>9. UploadPlaintextRemoved'
  <2> SUFFICES ASSUME NEW j \in Task
               PROVE  <<j, life + 1>> \notin plaintext
    BY <1>1 DEF UploadPlaintextRemoved, Temp
  <2> QED
    BY <1>3 DEF FlowInv, NoLaterLife
<1> QED
  BY <1>8, <1>9, <1>4, <1>5, <1>6, <1>7 DEF FlowInv

LEMMA DispatchStep ==
    ASSUME FlowInv, NEW k \in Task, NEW h \in Handlers, Dispatch(k, h)
    PROVE  FlowInv'
<1> DEFINE s == h.steps
           t == [Free EXCEPT !.todo = s]
<1>1. /\ ~Busy(k) /\ task' = [task EXCEPT ![k] = t]
      /\ calm' = (calm /\ \A j \in Task : ~Busy(j))
      /\ UNCHANGED <<fsm, data, disk, plaintext, secrets, life, faults>>
  BY DEF Dispatch
<1>2. s \in Seq(Steps) /\ s # <<>> /\ Ordered(s) /\ Opens(s) /\ AllPlain(s)
  BY HandlersGood DEF Good
<1>3. task \in [Task -> Job]
  BY DEF FlowInv, Typed
<1>4. t \in Job /\ t.todo = s
  BY <1>2, FreeIs DEF Job, Free
<1>5. /\ task' \in [Task -> Job] /\ task'[k] = t /\ \A j \in Task \ {k} : task'[j] = task[j]
  BY <1>1, <1>3, <1>4
<1> HIDE DEF t, s
<1>6. calm' \in BOOLEAN
  BY <1>1
<1>7. Typed'
  BY <1>1, <1>5, <1>6 DEF FlowInv, Typed
<1>8. \A x \in Secret : SecretFits(secrets[x])'
  BY <1>1 DEF FlowInv, SecretFits
<1>9. \A j \in Task : TaskFits(task[j])'
  BY <1>2, <1>4, <1>5 DEF FlowInv, TaskFits
<1>10. UploadPlaintextRemoved'
  <2> SUFFICES ASSUME NEW j \in Task, Temp(j)' \in plaintext'
               PROVE  AtStep(j, "save")'
    BY DEF UploadPlaintextRemoved
  <2>1. AtStep(j, "save") /\ j \in Task
    BY <1>1 DEF FlowInv, UploadPlaintextRemoved, Temp
  <2>2. j \in Task \ {k}
    BY <1>1, <2>1 DEF AtStep
  <2> QED
    BY <1>5, <2>1, <2>2 DEF AtStep, Busy
<1>15. NoLaterLife'
  BY <1>1 DEF FlowInv, NoLaterLife
<1>11. ASSUME calm'
       PROVE  calm /\ \A j \in Task : ~Busy(j)
  BY <1>1, <1>11
<1>12. calm' => \A j \in Task \ {k} : ~Busy(j)'
  BY <1>5, <1>11 DEF Busy
<1>13. OneTask'
  BY <1>12 DEF OneTask
<1>14. CalmInv'
  <2> SUFFICES ASSUME calm'
               PROVE  /\ \A j \in Task : Busy(j)' => CalmTask(task[j])'
                      /\ (Enabled(data) # {})' /\ DraftFile' /\ SecretFiles'
    BY DEF CalmInv
  <2>1. CalmTask(task[k])'
    <3>1. s[1].op # "put" /\ s[1].op \notin UsesCopy
      BY <1>2 DEF Opens
    <3>2. \A i \in 1..Len(s) : s[i].op = "put" => Plain(s[i].patch)
      BY <1>2 DEF AllPlain
    <3>3. task'[k].todo = s
      BY <1>4, <1>5
    <3> QED
      BY <3>1, <3>2, <3>3 DEF CalmTask
  <2>2. \A j \in Task : Busy(j)' => CalmTask(task[j])'
    BY <1>12, <2>1
  <2>3. (Enabled(data) # {})' /\ SecretFiles'
    BY <1>1, <1>11 DEF FlowInv, CalmInv, SecretFiles, Created, Enabled
  <2>4. DraftFile'
    BY <1>1, <1>11 DEF FlowInv, CalmInv, DraftFile, Unused, Created
  <2> QED
    BY <2>2, <2>3, <2>4
<1> QED
  BY <1>7, <1>8, <1>9, <1>10, <1>13, <1>14, <1>15 DEF FlowInv

LEMMA FlowNextInv ==
    ASSUME FlowInv, [Next]_vars
    PROVE  FlowInv'
<1>1. CASE UNCHANGED vars
  BY <1>1 DEF vars, FlowInv, Typed, NoLaterLife, Temp, SecretFits, TaskFits, UploadPlaintextRemoved, AtStep, Busy,
              OneTask, CalmInv, CalmTask, Awaited, Unused, Created, Enabled, DraftFile,
              SecretFiles, WipeAhead
<1>2. CASE Crash
  BY <1>2, CrashStep
<1>3. ASSUME NEW k \in Task, Step(k)
      PROVE  FlowInv'
  <2>1. CASE \E h \in Reached : Dispatch(k, h)
    BY <2>1, DispatchStep DEF Reached
  <2>2. CASE GetData(k)
    BY <2>2, GetDataStep
  <2>3. CASE FetchData(k)
    BY <2>3, FetchDataStep
  <2>4. CASE PutData(k)
    BY <2>4, PutDataStep
  <2>5. CASE SetState(k)
    BY <2>5, SetStateStep
  <2>6. CASE WipeData(k)
    BY <2>6, WipeDataStep
  <2>7. CASE UnlinkFile(k)
    BY <2>7, UnlinkFileStep
  <2>8. CASE SetDefault(k)
    BY <2>8, SetDefaultStep
  <2>9. CASE ToggleOption(k)
    BY <2>9, ToggleOptionStep
  <2>10. CASE MakePassword(k)
    BY <2>10, MakePasswordStep
  <2>11. CASE StoreText(k)
    BY <2>11, StoreTextStep
  <2>12. CASE Download(k)
    BY <2>12, DownloadStep
  <2>13. CASE SaveFile(k)
    BY <2>13, SaveFileStep
  <2>14. CASE UploadFails(k)
    BY <2>14, UploadFailsStep
  <2>15. CASE InsertSecret(k)
    BY <2>15, InsertSecretStep
  <2>16. CASE HandlerFails(k)
    BY <2>16, HandlerFailsStep
  <2> QED
    BY <1>3, <2>1, <2>2, <2>3, <2>4, <2>5, <2>6, <2>7, <2>8, <2>9, <2>10, <2>11, <2>12, <2>13,
       <2>14, <2>15, <2>16 DEF Step
<1> QED
  BY <1>1, <1>2, <1>3 DEF Next

-----------------------------------------------------------------------------
(* Theorems *)

\* However updates overlap, fail, or overwrite each other's draft, what the proof of the other
\* theorems rests on holds: the order of each handler's steps, mode and recipient together in
\* every copy of the draft, and, while the user is calm, copies that are as good as the draft.
THEOREM FlowInvariant == Spec => []FlowInv
<1>1. Init => FlowInv
  BY FlowInitInv
<1>2. FlowInv /\ [Next]_vars => FlowInv'
  BY FlowNextInv
<1> QED
  BY <1>1, <1>2, PTL DEF Spec

\* The draft, its copies, the tasks and the secrets keep their types, for any number of tasks.
THEOREM FlowTypesCorrect == Spec => []FlowTypeOK
<1>1. ASSUME FlowInv
      PROVE  FlowTypeOK
  <2>1. \A k \in Task : task[k] \in Job
    BY <1>1 DEF FlowInv, Typed
  <2>2. \A k \in Task : IsDraft(task[k].copy) /\ IsDraft(task[k].base)
    BY <2>1 DEF Job, Draft
  <2>3. IsDraft(data)
    BY <1>1 DEF FlowInv, Typed, Draft
  <2>4. \A s \in Secret :
            secrets[s] = NoSecret \/ /\ secrets[s].content \in {"text", "file"}
                                     /\ secrets[s].mode \in {"any", "first", "specific"}
    BY <1>1 DEF FlowInv, SecretFits
  <2> QED
    BY <1>1, <2>2, <2>3, <2>4 DEF FlowInv, Typed, FlowTypeOK
<1> QED
  BY <1>1, FlowInvariant, PTL

\* A created secret names a recipient exactly when it is bound to one (recipient_* handlers and
\* finalize_secret), whatever updates overlapped while its draft was filled.
THEOREM BoundSecretsNameRecipient == Spec => []RecipientFitsMode
<1>1. FlowInv => RecipientFitsMode
  BY DEF FlowInv, SecretFits, Paired, RecipientFitsMode, Created
<1> QED
  BY <1>1, FlowInvariant, PTL

\* handlers.py:318: whatever fails in an upload, its plaintext is gone, and only a task between
\* download and encryption has one; except what a process that died or was stopped in the
\* middle of an upload has left, which no handler knows of.
THEOREM UploadsLeaveNoPlaintext == Spec => []UploadPlaintextRemoved
<1>1. FlowInv => UploadPlaintextRemoved
  BY DEF FlowInv
<1> QED
  BY <1>1, FlowInvariant, PTL

\* No menu, however old, makes the dialogue of a user who waits for each answer delete the file
\* of a secret that was created, or leave it to a second secret or to the next draft.
THEOREM PatientUsersKeepFiles == Spec => []CalmSecretsKeepFiles
<1>1. ASSUME FlowInv
      PROVE  CalmSecretsKeepFiles
  <2> SUFFICES ASSUME calm, NEW s \in {t \in Created : secrets[t].path # NoPath}
               PROVE  /\ secrets[s].path \in disk
                      /\ \A t \in Created \ {s} : secrets[t].path # secrets[s].path
                      /\ data.path = secrets[s].path => \E k \in Task : Busy(k)
    BY DEF CalmSecretsKeepFiles
  <2>1. SecretFiles /\ DraftFile
    BY <1>1 DEF FlowInv, CalmInv
  <2> QED
    BY <2>1 DEF SecretFiles, DraftFile, Unused
<1> QED
  BY <1>1, FlowInvariant, PTL

\* For the same user the generator always has an alphabet: the last character set cannot be
\* switched off by buttons that are pressed one after the other (generator_toggle_option).
THEOREM PatientAlphabetNotEmpty == Spec => []CalmAlphabetNotEmpty
<1>1. FlowInv => CalmAlphabetNotEmpty
  BY DEF FlowInv, CalmInv, CalmAlphabetNotEmpty
<1> QED
  BY <1>1, FlowInvariant, PTL

=============================================================================
