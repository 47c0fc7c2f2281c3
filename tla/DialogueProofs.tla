----------------------------- MODULE DialogueProofs -----------------------------
(***************************************************************************)
(* The dialogues that keep one draft per user, proved for every number of  *)
(* users and of handlers at once, of buttons, failures and restarts:       *)
(* first the editor of the interface's emojis (EmojiSettings), for every   *)
(* catalog, then asking and answering (AnswerDialogue).                    *)
(*                                                                         *)
(* EInv is the editor's inductive invariant. CacheMatchesTable looks at    *)
(* slots that nobody writes at the moment; its proof needs what each write *)
(* in the middle knows of the table. WizardMissesNothing looks at          *)
(* administrators with no handler running; its proof needs what the        *)
(* running one is about to do to the draft.                                *)
(*                                                                         *)
(* DialogueInv is that of asking and answering. AnswersWhereMeant looks at *)
(* what was received; its proof needs how far the handler of a message,    *)
(* when it is alone, has brought the state and request_id, and that they   *)
(* stay as the sender's last page announced them once no handler runs.     *)
(***************************************************************************)
EXTENDS EmojiSettings, AnswerDialogue, FiniteSetTheorems, SequenceTheorems, TLAPS

\* A write that counts as alone is: no other write to its slot runs.
AloneIsAlone ==
    \A j, k \in Work :
        Writes(j) /\ Writes(k) /\ work[j].slot = work[k].slot /\ work[j].alone => j = k

\* A slot is settled only while the write to it, if there is one, is alone.
SettledAlone ==
    \A k \in Work : Writes(k) /\ work[k].slot \in settled => work[k].alone

\* What a write that is alone has read is still in the table.
ReadIsCurrent ==
    \A k \in Work : work[k].op = "commit" /\ work[k].alone => work[k].row = table[work[k].slot]

\* What a write that is alone has committed is still in the table.
CommitStands ==
    \A k \in Work :
        work[k].op = "store" /\ work[k].alone => Loaded(table)[work[k].slot] = work[k].emoji

\* Until the commit, a settled slot is the same in the cache and in the table.
CacheHolds ==
    \A s \in settled :
        (\A k \in Writing(s) : work[k].op # "store") => cache[s] = Loaded(table)[s]

CacheInv == AloneIsAlone /\ SettledAlone /\ ReadIsCurrent /\ CommitStands /\ CacheHolds

\* A calm administrator has one handler at a time.
OneAtATime ==
    \A a \in calm : \A j, k \in Of(a) : j = k

InStep(d, p) ==
    d.sequence # <<>> =>
        /\ d.position < Len(d.sequence)
        /\ d.slot = d.sequence[d.position + 1]
        /\ \A i \in 1..d.position : d.sequence[i] \in p

\* The wizard of a calm administrator is in step, also while a handler runs.
WizardInStep ==
    \A a \in calm : InStep(draft[a], passed[a])

\* A wizard starts at the first slot of its sequence.
StartsAtFirst ==
    \A k \in Work : work[k].op = "patch" /\ work[k].why = "start" =>
        /\ work[k].data.sequence # <<>>
        /\ work[k].data.position = 0
        /\ work[k].data.slot = work[k].data.sequence[1]

\* The handler that advances the wizard d by one slot.
Advances(w, d) ==
    /\ d.sequence # <<>>
    /\ w.data.sequence = d.sequence
    /\ w.data.position = d.position + 1
    /\ w.data.position < Len(d.sequence)
    /\ w.data.slot = d.sequence[w.data.position + 1]
    /\ w.slot = d.sequence[d.position + 1]

\* The draft that a calm administrator's handler goes on from is the one it has read.
NextIsNext ==
    \A k \in Work : work[k].op = "patch" /\ work[k].why = "next" /\ work[k].editor \in calm =>
        Advances(work[k], draft[work[k].editor])

\* The same for an emoji that is being written for the wizard.
WriteIsHere ==
    \A k \in Work : Writes(k) /\ work[k].editor \in calm /\ work[k].data.sequence # <<>> =>
        work[k].data = draft[work[k].editor] /\ work[k].slot = draft[work[k].editor].slot

WizardInv == OneAtATime /\ WizardInStep /\ StartsAtFirst /\ NextIsNext /\ WriteIsHere

EInv == EmojiTypeOK /\ CacheInv /\ WizardInv

-----------------------------------------------------------------------------
(* The records of the handlers *)

AnyWork == {Rest} \cup DialogueWork \cup PatchWork \cup WriteWork

Row == [emoji: Emoji, by: Editor] \cup {NoRow}

\* What the type invariant says of one handler, by the command it is at.
LEMMA WorkShape ==
    ASSUME EmojiTypeOK, NEW k \in Work
    PROVE  /\ work[k].op \in {"none", "get", "leave", "wipe", "patch", "load", "commit", "store"}
           /\ work[k].op = "none" <=> work[k] = Rest
           /\ work[k].op \in {"get", "leave", "wipe"} => work[k] \in DialogueWork
           /\ work[k].op = "patch" => work[k] \in PatchWork
           /\ Writes(k) => work[k] \in WriteWork
           /\ work[k] # Rest => work[k].editor \in Editor
<1>1. work[k] \in AnyWork
  BY DEF EmojiTypeOK, AnyWork
<1>2. CASE work[k] = Rest
  BY <1>2 DEF Rest, Writes
<1>3. CASE work[k] \in DialogueWork
  BY <1>3 DEF DialogueWork, Rest, Writes
<1>4. CASE work[k] \in PatchWork
  BY <1>4 DEF PatchWork, Rest, Writes
<1>5. CASE work[k] \in WriteWork
  BY <1>5 DEF WriteWork, Rest, Writes
<1> QED
  BY <1>1, <1>2, <1>3, <1>4, <1>5 DEF AnyWork

\* A draft that moves to a position and a slot.
LEMMA DraftMoves ==
    ASSUME NEW d \in Draft, NEW p \in Nat, NEW s \in Slot
    PROVE  [d EXCEPT !.position = p, !.slot = s] \in Draft
<1> DEFINE D(A, B, C) == [slot: A, sequence: B, position: C]
<1>1. ASSUME NEW A, NEW B, NEW C, NEW x \in D(A, B, C), NEW i \in C, NEW t \in A
      PROVE  [x EXCEPT !.position = i, !.slot = t] \in D(A, B, C)
  OBVIOUS
<1>2. Draft = D(Slot \cup {NoSlot}, Seq(Slot), Nat)
  BY DEF Draft
<1> HIDE DEF D
<1> QED
  BY <1>1, <1>2

\* The next command of a wizard is well typed when the slot it leaves is one.
LEMMA NextTyped ==
    ASSUME NEW a \in Editor, NEW slot, NEW d \in Draft,
           d.position + 1 < Len(d.sequence) => slot \in Slot
    PROVE  /\ NextInWizard(a, slot, d) \in DialogueWork \cup PatchWork
           /\ NextInWizard(a, slot, d).editor = a
           /\ NextInWizard(a, slot, d).op \in {"leave", "patch"}
<1>1. /\ d.sequence \in Seq(Slot) /\ d.position \in Nat
      /\ d = [slot |-> d.slot, sequence |-> d.sequence, position |-> d.position]
  BY DEF Draft
<1>2. CASE d.position + 1 >= Len(d.sequence)
  BY <1>2 DEF NextInWizard, Leaving, DialogueWork
<1>3. CASE ~(d.position + 1 >= Len(d.sequence))
  <2>1. d.position + 2 \in 1..Len(d.sequence) /\ slot \in Slot
    BY <1>1, <1>3, LenProperties
  <2>2. d.sequence[d.position + 2] \in Slot
    BY <1>1, <2>1, ElementOfSeq
  <2>3. [d EXCEPT !.position = @ + 1, !.slot = d.sequence[d.position + 2]] \in Draft
    <3>1. d.position + 1 \in Nat
      BY <1>1
    <3> QED
      BY <2>2, <3>1, DraftMoves
  <2>4. NextInWizard(a, slot, d)
          = Patching(a, "next", slot,
                     [d EXCEPT !.position = @ + 1, !.slot = d.sequence[d.position + 2]])
    BY <1>3 DEF NextInWizard
  <2> QED
    BY <2>1, <2>3, <2>4 DEF Patching, PatchWork
<1> QED
  BY <1>2, <1>3

\* What a write that begins is, and what becomes of the others.
LEMMA BeginsWriteTyped ==
    ASSUME EmojiTypeOK, NEW k \in Work, NEW a \in Editor, NEW e \in Emoji \cup {NoEmoji},
           NEW s \in Slot, NEW d \in Draft
    PROVE  BeginsWrite(k, a, e, s, d) \in [Work -> AnyWork]
<1> DEFINE new == [op |-> "load", editor |-> a, emoji |-> e, slot |-> s, data |-> d,
                   row |-> NoRow, alone |-> Writing(s) = {}]
<1>1. new \in WriteWork
  BY DEF WriteWork
<1>2. ASSUME NEW j \in Writing(s)
      PROVE  [work[j] EXCEPT !.alone = FALSE] \in WriteWork
  <2>1. work[j] \in WriteWork
    BY <1>2, WorkShape DEF Writing
  <2> QED
    BY <2>1 DEF WriteWork
<1>3. \A j \in Work : work[j] \in AnyWork
  BY DEF EmojiTypeOK, AnyWork
<1> HIDE DEF new
<1>4. BeginsWrite(k, a, e, s, d)
        = [j \in Work |-> IF j = k THEN new
                          ELSE IF j \in Writing(s) THEN [work[j] EXCEPT !.alone = FALSE]
                          ELSE work[j]]
  BY DEF BeginsWrite, new
<1> QED
  BY <1>1, <1>2, <1>3, <1>4 DEF AnyWork

\* What a wizard is started with is a sequence of slots.
LEMMA MissingTyped ==
    ASSUME NEW q \in Missing
    PROVE  q \in Seq(Slot)
<1> DEFINE unset == {i \in DOMAIN Catalog : cache[Catalog[i]] = NoEmoji}
           Orders == {p \in [1..Cardinality(unset) -> unset] :
                         \A m, n \in DOMAIN p : m < n => p[m] < p[n]}
<1>1. PICK p \in Orders : q = [n \in DOMAIN p |-> Catalog[p[n]]]
  BY DEF Missing
<1>2. DOMAIN Catalog = 1..Len(Catalog) /\ Len(Catalog) \in Nat
  BY EmojiAssumption, LenProperties
<1>3. IsFiniteSet(1..Len(Catalog))
  BY <1>2, FS_Interval
<1>4. IsFiniteSet(unset)
  BY <1>2, <1>3, FS_Subset
<1>5. Cardinality(unset) \in Nat
  BY <1>4, FS_CardinalityType
<1>6. p \in [1..Cardinality(unset) -> unset]
  BY <1>1
<1>7. \A n \in 1..Cardinality(unset) : Catalog[p[n]] \in Slot
  BY <1>6 DEF Slot
<1> HIDE DEF Orders, unset
<1>8. q \in [1..Cardinality(unset) -> Slot]
  BY <1>1, <1>6, <1>7
<1> QED
  BY <1>5, <1>8, IsASeq

\* The elements of the types.
LEMMA TypeFacts ==
    ASSUME EmojiTypeOK
    PROVE  /\ \A a \in Editor :
                 /\ draft[a] \in Draft
                 /\ draft[a].sequence \in Seq(Slot) /\ draft[a].position \in Nat
                 /\ draft[a].slot \in Slot \cup {NoSlot}
           /\ \A s \in Slot : table[s] \in Row /\ cache[s] \in Emoji \cup {NoEmoji}
           /\ Blank \in Draft
           /\ Loaded(table) \in [Slot -> Emoji \cup {NoEmoji}]
           /\ work \in [Work -> AnyWork]
<1>1. \A a \in Editor : draft[a] \in Draft
  BY DEF EmojiTypeOK
<1>2. <<>> \in Seq(Slot)
  BY EmptySeq
<1>3. \A s \in Slot : table[s] \in Row /\ cache[s] \in Emoji \cup {NoEmoji}
  BY DEF EmojiTypeOK, Row
<1>4. Loaded(table) \in [Slot -> Emoji \cup {NoEmoji}]
  BY <1>3 DEF Loaded, Row
<1>5. Blank \in Draft
  BY <1>2 DEF Blank, Draft
<1>6. work \in [Work -> AnyWork]
  BY DEF EmojiTypeOK, AnyWork
<1>7. \A d \in Draft : /\ d.sequence \in Seq(Slot) /\ d.position \in Nat
                       /\ d.slot \in Slot \cup {NoSlot}
  BY DEF Draft
<1> QED
  BY <1>1, <1>3, <1>4, <1>5, <1>6, <1>7

\* A handler that arrives is well typed if its first command is.
LEMMA ArrivesTyped ==
    ASSUME EmojiTypeOK, NEW k \in Work, NEW a \in Editor, NEW w \in AnyWork, Arrives(k, a, w),
           waiting' \subseteq Editor, settled' \subseteq Slot
    PROVE  EmojiTypeOK'
<1>1. work' \in [Work -> AnyWork]
  BY TypeFacts DEF Arrives
<1>2. taps' \in Nat
  BY DEF Arrives, EmojiTypeOK
<1>3. calm' \subseteq Editor
  BY DEF Arrives, EmojiTypeOK
<1> QED
  BY <1>1, <1>2, <1>3 DEF Arrives, EmojiTypeOK, AnyWork

-----------------------------------------------------------------------------
(* Type correctness *)

LEMMA TapTyped ==
    ASSUME EmojiTypeOK, NEW k \in Work, NEW a \in Editor, Tap(k, a)
    PROVE  EmojiTypeOK'
<1>1. waiting \cup {a} \subseteq Editor /\ waiting \subseteq Editor /\ settled \subseteq Slot
  BY DEF EmojiTypeOK
<1>2. Leaving(a) \in AnyWork
  BY DEF Leaving, DialogueWork, AnyWork
<1>3. draft[a] \in Draft
  BY TypeFacts
<1>4. ASSUME NEW s \in Slot, admin_emoji_choose(k, a, s)
      PROVE  EmojiTypeOK'
  <2>1. [draft[a] EXCEPT !.slot = s] \in Draft
    BY <1>3 DEF Draft
  <2>2. Patching(a, "choose", s, [draft[a] EXCEPT !.slot = s]) \in AnyWork
    BY <2>1 DEF Patching, PatchWork, AnyWork
  <2> QED
    BY <1>1, <1>4, <2>2, ArrivesTyped DEF admin_emoji_choose
<1>5. ASSUME NEW s \in Slot, admin_emoji_reset(k, a, s)
      PROVE  EmojiTypeOK'
  <2>1. BeginsWrite(k, a, NoEmoji, s, Blank) \in [Work -> AnyWork]
    BY BeginsWriteTyped, TypeFacts
  <2>2. work' \in [Work -> AnyWork] /\ taps' \in Nat
    BY <1>5, <2>1 DEF admin_emoji_reset, EmojiTypeOK
  <2>3. settled' \subseteq Slot /\ calm' \subseteq Editor
    BY <1>1, <1>5 DEF admin_emoji_reset, EmojiTypeOK
  <2> QED
    BY <1>5, <2>2, <2>3 DEF admin_emoji_reset, EmojiTypeOK, AnyWork
<1>6. ASSUME NEW q \in Seq(Slot), admin_emoji_wizard_start(k, a, q)
      PROVE  EmojiTypeOK'
  <2>1. Len(q) \in Nat /\ Len(q) # 0
    BY <1>6, EmptySeq, LenProperties DEF admin_emoji_wizard_start
  <2>2. q[1] \in Slot
    BY <2>1, ElementOfSeq
  <2>3. [slot |-> q[1], sequence |-> q, position |-> 0] \in Draft
    BY <2>2 DEF Draft
  <2>4. Patching(a, "start", q[1], [slot |-> q[1], sequence |-> q, position |-> 0]) \in AnyWork
    BY <2>2, <2>3 DEF Patching, PatchWork, AnyWork
  <2> QED
    BY <1>1, <1>6, <2>4, ArrivesTyped DEF admin_emoji_wizard_start
<1>7. ASSUME admin_emoji_wizard_skip(k, a)
      PROVE  EmojiTypeOK'
  <2> DEFINE d == draft[a]
             s == d.sequence[d.position + 1]
  <2>1. d.sequence \in Seq(Slot) /\ d.position \in Nat
    BY TypeFacts
  <2>2. d.position + 1 < Len(d.sequence) => s \in Slot
    <3>1. SUFFICES ASSUME d.position + 1 < Len(d.sequence) PROVE s \in Slot
      OBVIOUS
    <3>2. d.position + 1 \in 1..Len(d.sequence)
      BY <2>1, <3>1, LenProperties
    <3> QED
      BY <2>1, <3>2, ElementOfSeq
  <2>3. NextInWizard(a, s, d) \in DialogueWork \cup PatchWork
    BY <1>3, <2>2, NextTyped
  <2> HIDE DEF s
  <2>4. NextInWizard(a, s, d) \in AnyWork
    BY <2>3 DEF AnyWork
  <2>5. Arrives(k, a, NextInWizard(a, s, d)) /\ UNCHANGED <<waiting, settled>>
    BY <1>7 DEF admin_emoji_wizard_skip, s
  <2> QED
    BY <1>1, <2>4, <2>5, ArrivesTyped
<1>8. ASSUME leave_editor(k, a)
      PROVE  EmojiTypeOK'
  BY <1>1, <1>2, <1>8, ArrivesTyped DEF leave_editor
<1>9. ASSUME admin_users_search(k, a)
      PROVE  EmojiTypeOK'
  BY <1>9 DEF admin_users_search, EmojiTypeOK
<1>10. ASSUME NEW e \in Emoji, admin_emoji_receive(k, a, e)
       PROVE  EmojiTypeOK'
  <2>1. [op |-> "get", editor |-> a, emoji |-> e] \in AnyWork
    BY DEF DialogueWork, AnyWork
  <2> QED
    BY <1>1, <1>10, <2>1, ArrivesTyped DEF admin_emoji_receive
<1> QED
  BY <1>4, <1>5, <1>6, <1>7, <1>8, <1>9, <1>10, MissingTyped, EmojiAssumption DEF Tap

\* What the UPDATE of a loaded row leaves is a row, unless it is refused.
LEMMA WrittenTyped ==
    ASSUME NEW w \in WriteWork, table \in [Slot -> Row], ~Refused(w)
    PROVE  Written(w) \in Row
<1>1. /\ w.emoji \in Emoji \cup {NoEmoji} /\ w.editor \in Editor /\ w.slot \in Slot
      /\ w.row \in Row
  BY DEF WriteWork, Row
<1>2. table[w.slot] \in Row
  BY <1>1
<1>3. CASE w.emoji = NoEmoji
  BY <1>2, <1>3 DEF Written, Row
<1>4. CASE w.emoji # NoEmoji /\ w.row = NoRow
  BY <1>1, <1>4 DEF Written, Row
<1>5. CASE w.emoji # NoEmoji /\ w.row # NoRow
  <2>1. w.emoji \in Emoji
    BY <1>1, <1>5
  <2>2. CASE Unchanged(w)
    BY <1>2, <1>5, <2>2 DEF Written
  <2>3. CASE ~Unchanged(w)
    <3>1. table[w.slot] \in [emoji: Emoji, by: Editor]
      BY <1>2, <1>5, <2>3 DEF Refused, Row
    <3>2. Written(w) = Updated(table[w.slot], w.row, w.emoji, w.editor)
      BY <1>5, <2>3 DEF Written
    <3>3. table[w.slot].emoji \in Emoji /\ table[w.slot].by \in Editor
      BY <3>1
    <3> QED
      BY <1>1, <2>1, <3>2, <3>3 DEF Updated, Row
  <2> QED
    BY <2>2, <2>3
<1> QED
  BY <1>3, <1>4, <1>5

LEMMA ProceedTyped ==
    ASSUME EmojiTypeOK, NEW k \in Work, Proceed(k)
    PROVE  EmojiTypeOK'
<1> DEFINE w == work[k]
<1>0. Rest \in AnyWork
  BY DEF AnyWork
<1>1. CASE GetData(k)
  <2>1. w \in DialogueWork
    BY <1>1, WorkShape DEF GetData
  <2>2. w.editor \in Editor /\ w.emoji \in Emoji \cup {NoEmoji}
    BY <2>1 DEF DialogueWork
  <2>3. Leaving(w.editor) \in AnyWork
    BY <2>2 DEF Leaving, DialogueWork, AnyWork
  <2>4. draft[w.editor].slot # NoSlot =>
            BeginsWrite(k, w.editor, w.emoji, draft[w.editor].slot, draft[w.editor])
                \in [Work -> AnyWork]
    BY <2>2, BeginsWriteTyped, TypeFacts
  <2>5. work' \in [Work -> AnyWork]
    BY <1>1, <2>3, <2>4, TypeFacts DEF GetData
  <2>6. settled' \subseteq Slot
    BY <1>1 DEF GetData, EmojiTypeOK
  <2> QED
    BY <1>1, <2>5, <2>6 DEF GetData, EmojiTypeOK, AnyWork
<1>2. CASE Load(k)
  <2>1. w \in WriteWork
    BY <1>2, WorkShape DEF Load, Writes
  <2>2. table[w.slot] \in Row
    BY <2>1, TypeFacts DEF WriteWork
  <2>3. [[w EXCEPT !.op = "commit"] EXCEPT !.row = table[w.slot]] \in WriteWork
    BY <2>1, <2>2 DEF WriteWork, Row
  <2>4. work' \in [Work -> AnyWork]
    BY <1>2, <2>3, TypeFacts DEF Load, AnyWork
  <2> QED
    BY <1>2, <2>4 DEF Load, EmojiTypeOK, AnyWork
<1>3. CASE Commit(k)
  <2>1. w \in WriteWork
    BY <1>3, WorkShape DEF Commit, Writes
  <2>2. [w EXCEPT !.op = "store"] \in WriteWork
    BY <2>1 DEF WriteWork
  <2>3. work' \in [Work -> AnyWork]
    BY <1>0, <1>3, <2>2, TypeFacts DEF Commit, AnyWork
  <2>4. table' \in [Slot -> Row]
    BY <1>3, <2>1, WrittenTyped DEF Commit, EmojiTypeOK, Row
  <2> QED
    BY <1>3, <2>3, <2>4 DEF Commit, EmojiTypeOK, AnyWork, Row
<1>4. CASE SetCustomId(k)
  <2>1. w \in WriteWork
    BY <1>4, WorkShape DEF SetCustomId, Writes
  <2>2. w.editor \in Editor /\ w.slot \in Slot /\ w.data \in Draft
        /\ w.emoji \in Emoji \cup {NoEmoji}
    BY <2>1 DEF WriteWork
  <2>3. AfterStore(w) \in AnyWork
    BY <2>2, NextTyped DEF AfterStore, Leaving, DialogueWork, AnyWork
  <2>4. work' \in [Work -> AnyWork]
    BY <1>4, <2>3, TypeFacts DEF SetCustomId
  <2>5. cache' \in [Slot -> Emoji \cup {NoEmoji}] /\ settled' \subseteq Slot
    BY <1>4, <2>2 DEF SetCustomId, Settles, EmojiTypeOK
  <2> QED
    BY <1>4, <2>4, <2>5 DEF SetCustomId, EmojiTypeOK, AnyWork
<1>5. CASE UpdateData(k)
  <2>1. w \in PatchWork
    BY <1>5, WorkShape DEF UpdateData
  <2>2. w.editor \in Editor /\ w.slot \in Slot /\ w.data \in Draft
        /\ w.why \in {"choose", "start", "next"}
    BY <2>1 DEF PatchWork
  <2>3. draft[w.editor] \in Draft
    BY <2>2, TypeFacts
  <2>4. Patched(draft[w.editor], w) \in Draft
    <3>1. CASE w.why = "choose"
      BY <2>2, <2>3, <3>1 DEF Patched, Draft
    <3>2. CASE w.why = "start"
      BY <2>2, <3>2 DEF Patched
    <3>3. CASE w.why = "next"
      <4>1. w.data.slot \in Slot \cup {NoSlot} /\ w.data.position \in Nat
        BY <2>2 DEF Draft
      <4>2. [[draft[w.editor] EXCEPT !.slot = w.data.slot]
                EXCEPT !.position = w.data.position] \in Draft
        BY <2>3, <4>1 DEF Draft
      <4> QED
        BY <3>3, <4>2 DEF Patched
    <3> QED
      BY <2>2, <3>1, <3>2, <3>3
  <2>5. draft' \in [Editor -> Draft]
    BY <1>5, <2>2, <2>4 DEF UpdateData, EmojiTypeOK
  <2>6. work' \in [Work -> AnyWork]
    BY <1>0, <1>5, TypeFacts DEF UpdateData
  <2>7. calm' \subseteq Editor
    BY <1>5, <2>2 DEF UpdateData, EmojiTypeOK
  <2>8. passed' \in [Editor -> SUBSET Slot]
    BY <1>5, <2>2 DEF UpdateData, EmojiTypeOK
  <2> QED
    BY <1>5, <2>5, <2>6, <2>7, <2>8 DEF UpdateData, EmojiTypeOK, AnyWork
<1>6. CASE ClearState(k)
  <2>1. w \in DialogueWork
    BY <1>6, WorkShape DEF ClearState
  <2>2. [w EXCEPT !.op = "wipe"] \in DialogueWork
    BY <2>1 DEF DialogueWork
  <2>3. work' \in [Work -> AnyWork]
    BY <1>6, <2>2, TypeFacts DEF ClearState, AnyWork
  <2>4. waiting' \subseteq Editor
    BY <1>6 DEF ClearState, EmojiTypeOK
  <2> QED
    BY <1>6, <2>3, <2>4 DEF ClearState, EmojiTypeOK, AnyWork
<1>7. CASE ClearData(k)
  <2>1. draft' \in [Editor -> Draft]
    BY <1>7, TypeFacts DEF ClearData, EmojiTypeOK
  <2>2. work' \in [Work -> AnyWork]
    BY <1>0, <1>7, TypeFacts DEF ClearData
  <2> QED
    BY <1>7, <2>1, <2>2 DEF ClearData, EmojiTypeOK, AnyWork
<1>8. CASE HandlerFails(k)
  <2>1. work' \in [Work -> AnyWork]
    BY <1>0, <1>8, TypeFacts DEF HandlerFails
  <2>2. mishaps' \in Nat
    BY <1>8 DEF HandlerFails, EmojiTypeOK
  <2> QED
    BY <1>8, <2>1, <2>2 DEF HandlerFails, EmojiTypeOK, AnyWork
<1> QED
  BY <1>1, <1>2, <1>3, <1>4, <1>5, <1>6, <1>7, <1>8 DEF Proceed

-----------------------------------------------------------------------------
(* Cache and table *)

\* No write begins and none that has committed goes away.
LEMMA CacheFrame ==
    ASSUME CacheInv, UNCHANGED <<table, cache, settled>>,
           \A j \in Work : Writes(j)' => Writes(j) /\ work'[j] = work[j],
           \A j \in Work : work[j].op = "store" => Writes(j)'
    PROVE  CacheInv'
<1>1. \A j \in Work : Writes(j)' => /\ Writes(j) /\ work'[j] = work[j]
                                     /\ work'[j].slot = work[j].slot
  OBVIOUS
<1>2. AloneIsAlone'
  BY <1>1 DEF CacheInv, AloneIsAlone
<1>3. SettledAlone'
  BY <1>1 DEF CacheInv, SettledAlone
<1>4. ReadIsCurrent'
  BY <1>1 DEF CacheInv, ReadIsCurrent, Writes
<1>5. CommitStands'
  BY <1>1 DEF CacheInv, CommitStands, Writes, Loaded
<1>6. CacheHolds'
  <2>1. SUFFICES ASSUME NEW s \in settled, \A k \in Writing(s)' : work'[k].op # "store"
                 PROVE  cache[s] = Loaded(table)[s]
    BY DEF CacheHolds, Loaded
  <2>2. \A k \in Writing(s) : work[k].op # "store"
    <3>1. SUFFICES ASSUME NEW k \in Writing(s), work[k].op = "store" PROVE FALSE
      OBVIOUS
    <3>2. k \in Work /\ Writes(k)' /\ work'[k] = work[k]
      BY <1>1, <3>1 DEF Writing
    <3>3. k \in Writing(s)'
      BY <3>1, <3>2 DEF Writing
    <3> QED
      BY <2>1, <3>1, <3>2, <3>3
  <2> QED
    BY <2>2 DEF CacheInv, CacheHolds
<1> QED
  BY <1>2, <1>3, <1>4, <1>5, <1>6 DEF CacheInv

\* One handler goes to a command that is none of a write, from one that is not the last of it.
LEMMA CacheFrameOne ==
    ASSUME EmojiTypeOK, CacheInv, UNCHANGED <<table, cache, settled>>, NEW k \in Work, NEW v,
           work' = [work EXCEPT ![k] = v],
           v.op \notin {"load", "commit", "store"}, work[k].op # "store"
    PROVE  CacheInv'
<1>1. \A j \in Work : work'[j] = IF j = k THEN v ELSE work[j]
  BY DEF EmojiTypeOK
<1>2. \A j \in Work : Writes(j)' => Writes(j) /\ work'[j] = work[j]
  BY <1>1 DEF Writes
<1>3. \A j \in Work : work[j].op = "store" => Writes(j)'
  BY <1>1 DEF Writes
<1> QED
  BY <1>2, <1>3, CacheFrame

\* A write begins.
LEMMA CacheBegins ==
    ASSUME EmojiTypeOK, CacheInv, UNCHANGED <<table, cache>>, NEW k \in Work, NEW a, NEW e,
           NEW s \in Slot, NEW d, ~Writes(k),
           work' = BeginsWrite(k, a, e, s, d),
           settled' = IF Writing(s) = {} THEN settled ELSE settled \ {s}
    PROVE  CacheInv'
<1>1. /\ work'[k].op = "load" /\ work'[k].slot = s
      /\ work'[k].alone = (Writing(s) = {})
  BY DEF BeginsWrite
<1>2. ASSUME NEW j \in Work, j # k, j \notin Writing(s)
      PROVE  work'[j] = work[j]
  BY <1>2 DEF BeginsWrite
<1>3. ASSUME NEW j \in Writing(s)
      PROVE  /\ j # k /\ work'[j].op = work[j].op /\ work'[j].slot = s
             /\ work'[j].alone = FALSE /\ Writes(j) /\ work[j].slot = s
  <2>1. j \in Work /\ j # k /\ work[j] \in WriteWork
    BY <1>3, WorkShape DEF Writing
  <2>2. work'[j] = [work[j] EXCEPT !.alone = FALSE]
    BY <1>3, <2>1 DEF BeginsWrite
  <2> QED
    BY <1>3, <2>1, <2>2 DEF WriteWork, Writing
<1>4. \A j \in Work : j # k => /\ Writes(j)' <=> Writes(j)
                               /\ work'[j].op = work[j].op
                               /\ Writes(j) => work'[j].slot = work[j].slot
                               /\ Writes(j) /\ work'[j].alone => work'[j] = work[j] /\ work[j].slot # s
  BY <1>2, <1>3 DEF Writes, Writing
<1>5. \A j \in Work : j # k /\ Writes(j) /\ work[j].slot # s => work'[j] = work[j]
  BY <1>2 DEF Writing
<1>6. AloneIsAlone'
  <2>1. SUFFICES ASSUME NEW i \in Work, NEW j \in Work, Writes(i)', Writes(j)',
                        work'[i].slot = work'[j].slot, work'[i].alone, i # j
                 PROVE  FALSE
    BY DEF AloneIsAlone
  <2>2. CASE i = k
    BY <1>1, <1>4, <2>1, <2>2 DEF Writing
  <2>3. CASE j = k
    BY <1>1, <1>4, <2>1, <2>3
  <2>4. CASE i # k /\ j # k
    BY <1>4, <2>1, <2>4 DEF CacheInv, AloneIsAlone
  <2> QED
    BY <2>2, <2>3, <2>4
<1>7. SettledAlone'
  <2>1. SUFFICES ASSUME NEW j \in Work, Writes(j)', work'[j].slot \in settled'
                 PROVE  work'[j].alone
    BY DEF SettledAlone
  <2>2. CASE j = k
    BY <1>1, <2>1, <2>2
  <2>3. CASE j # k
    BY <1>4, <1>5, <2>1, <2>3 DEF CacheInv, SettledAlone, Writing
  <2> QED
    BY <2>2, <2>3
<1>8. ReadIsCurrent'
  BY <1>1, <1>4 DEF CacheInv, ReadIsCurrent, Writes
<1>9. CommitStands'
  BY <1>1, <1>4 DEF CacheInv, CommitStands, Writes, Loaded
<1>10. CacheHolds'
  <2>1. SUFFICES ASSUME NEW t \in settled', \A j \in Writing(t)' : work'[j].op # "store"
                 PROVE  cache[t] = Loaded(table)[t]
    BY DEF CacheHolds, Loaded
  <2>2. t \in settled
    OBVIOUS
  <2>3. \A j \in Writing(t) : work[j].op # "store"
    BY <1>4, <2>1 DEF Writing
  <2> QED
    BY <2>2, <2>3 DEF CacheInv, CacheHolds
<1> QED
  BY <1>6, <1>7, <1>8, <1>9, <1>10 DEF CacheInv

\* A write that is alone leaves in the table what it was asked to.
LEMMA WrittenAsAsked ==
    ASSUME NEW w \in WriteWork, w.row = table[w.slot], ~Refused(w)
    PROVE  (IF Written(w) = NoRow THEN NoEmoji ELSE Written(w).emoji) = w.emoji
<1>1. /\ w.emoji \in Emoji \cup {NoEmoji} /\ w.editor \in Editor
      /\ w.row \in [emoji: Emoji, by: Editor] \cup {NoRow}
  BY DEF WriteWork
<1>2. CASE w.emoji = NoEmoji
  <2>1. ~Unchanged(w)
    BY <1>1, <1>2, EmojiAssumption DEF Unchanged
  <2>2. CASE w.row = NoRow
    BY <1>2, <2>1, <2>2 DEF Written
  <2>3. CASE w.row # NoRow
    BY <1>2, <2>1, <2>3 DEF Written
  <2> QED
    BY <2>2, <2>3
<1>3. CASE w.emoji # NoEmoji /\ w.row = NoRow
  <2>1. Written(w) = [emoji |-> w.emoji, by |-> w.editor]
    BY <1>3 DEF Written, Unchanged
  <2>2. [emoji |-> w.emoji, by |-> w.editor] # NoRow
    BY <1>1, <1>3, EmojiAssumption
  <2> QED
    BY <2>1, <2>2
<1>4. CASE w.emoji # NoEmoji /\ w.row # NoRow /\ Unchanged(w)
  BY <1>4 DEF Written, Unchanged
<1>5. CASE w.emoji # NoEmoji /\ w.row # NoRow /\ ~Unchanged(w)
  <2>1. Written(w) = [emoji |-> IF w.emoji = w.row.emoji THEN w.row.emoji ELSE w.emoji,
                      by |-> IF w.editor = w.row.by THEN w.row.by ELSE w.editor]
    BY <1>5 DEF Written, Updated
  <2>2. Written(w) = [emoji |-> w.emoji, by |-> w.editor]
    BY <2>1
  <2>3. [emoji |-> w.emoji, by |-> w.editor] # NoRow
    BY <1>1, <1>5, EmojiAssumption
  <2> QED
    BY <2>2, <2>3
<1> QED
  BY <1>2, <1>3, <1>4, <1>5

LEMMA CacheLoad ==
    ASSUME EmojiTypeOK, CacheInv, NEW k \in Work, Load(k)
    PROVE  CacheInv'
<1>1. work[k] \in WriteWork /\ Writes(k)
  BY WorkShape DEF Load, Writes
<1>2. work' = [work EXCEPT ![k] = [[work[k] EXCEPT !.op = "commit"] EXCEPT !.row = table[work[k].slot]]]
  BY DEF Load, EmojiTypeOK
<1>3. /\ work'[k].op = "commit" /\ work'[k].slot = work[k].slot
      /\ work'[k].alone = work[k].alone /\ work'[k].row = table[work[k].slot]
  BY <1>1, <1>2 DEF EmojiTypeOK, WriteWork
<1>4. \A j \in Work : j # k => work'[j] = work[j]
  BY <1>2 DEF EmojiTypeOK
<1>5. \A j \in Work : /\ Writes(j)' <=> Writes(j)
                      /\ work'[j].slot = work[j].slot /\ work'[j].alone = work[j].alone
  BY <1>1, <1>3, <1>4 DEF Writes
<1>6. UNCHANGED <<table, cache, settled>>
  BY DEF Load
<1>7. AloneIsAlone' /\ SettledAlone'
  BY <1>5, <1>6 DEF CacheInv, AloneIsAlone, SettledAlone
<1>8. ReadIsCurrent'
  BY <1>3, <1>4, <1>6 DEF CacheInv, ReadIsCurrent
<1>9. CommitStands'
  BY <1>3, <1>4, <1>6 DEF CacheInv, CommitStands, Loaded
<1>10. CacheHolds'
  <2>1. SUFFICES ASSUME NEW t \in settled, \A j \in Writing(t)' : work'[j].op # "store"
                 PROVE  cache[t] = Loaded(table)[t]
    BY <1>6 DEF CacheHolds, Loaded
  <2>2. work[k].op = "load"
    BY DEF Load
  <2>3. \A j \in Writing(t) : work[j].op # "store"
    BY <1>4, <1>5, <2>1, <2>2 DEF Writing
  <2> QED
    BY <2>3 DEF CacheInv, CacheHolds
<1> QED
  BY <1>7, <1>8, <1>9, <1>10 DEF CacheInv

LEMMA CacheCommit ==
    ASSUME EmojiTypeOK, CacheInv, NEW k \in Work, Commit(k)
    PROVE  CacheInv'
<1> DEFINE w == work[k]
<1>1. w \in WriteWork /\ Writes(k) /\ w.op = "commit" /\ w.slot \in Slot
  BY WorkShape DEF Commit, Writes, WriteWork
<1>2. CASE Refused(w)
  BY <1>1, <1>2, CacheFrameOne DEF Commit, Rest
<1>3. CASE ~Refused(w)
  <2>1. /\ work' = [work EXCEPT ![k] = [w EXCEPT !.op = "store"]]
        /\ table' = [table EXCEPT ![w.slot] = Written(w)]
        /\ UNCHANGED <<cache, settled>>
    BY <1>3 DEF Commit, EmojiTypeOK
  <2>2. /\ work'[k].op = "store" /\ work'[k].slot = w.slot /\ work'[k].emoji = w.emoji
        /\ work'[k].alone = w.alone
    BY <1>1, <2>1 DEF EmojiTypeOK, WriteWork
  <2>3. \A j \in Work : j # k => work'[j] = work[j]
    BY <2>1 DEF EmojiTypeOK
  <2>4. \A j \in Work : /\ Writes(j)' <=> Writes(j)
                        /\ work'[j].slot = work[j].slot /\ work'[j].alone = work[j].alone
    BY <1>1, <2>2, <2>3 DEF Writes
  <2>5. /\ \A s \in Slot : s # w.slot => /\ table'[s] = table[s]
                                          /\ Loaded(table')[s] = Loaded(table)[s]
        /\ Loaded(table')[w.slot] = IF Written(w) = NoRow THEN NoEmoji ELSE Written(w).emoji
    BY <1>1, <2>1 DEF EmojiTypeOK, Loaded
  <2>6. \A j \in Work : Writes(j) => work[j].slot \in Slot
    BY WorkShape DEF WriteWork
  <2>7. AloneIsAlone' /\ SettledAlone'
    BY <2>1, <2>4 DEF CacheInv, AloneIsAlone, SettledAlone
  <2>8. \A j \in Work : Writes(j) /\ work[j].alone /\ j # k => work[j].slot # w.slot
    BY <1>1 DEF CacheInv, AloneIsAlone
  <2>9. ReadIsCurrent'
    BY <2>2, <2>3, <2>5, <2>6, <2>8 DEF CacheInv, ReadIsCurrent, Writes
  <2>10. CommitStands'
    <3>1. SUFFICES ASSUME NEW j \in Work, work'[j].op = "store", work'[j].alone
                   PROVE  Loaded(table')[work'[j].slot] = work'[j].emoji
      BY DEF CommitStands, Loaded
    <3>2. CASE j = k
      <4>1. w.row = table[w.slot]
        BY <1>1, <2>2, <3>1, <3>2 DEF CacheInv, ReadIsCurrent
      <4> QED
        BY <1>1, <1>3, <2>2, <2>5, <3>2, <4>1, WrittenAsAsked
    <3>3. CASE j # k
      BY <2>3, <2>5, <2>6, <2>8, <3>1, <3>3 DEF CacheInv, CommitStands, Writes
    <3> QED
      BY <3>2, <3>3
  <2>11. CacheHolds'
    <3>1. SUFFICES ASSUME NEW t \in settled, \A j \in Writing(t)' : work'[j].op # "store"
                   PROVE  cache[t] = Loaded(table')[t]
      BY <2>1 DEF CacheHolds, Loaded
    <3>2. t # w.slot /\ t \in Slot
      BY <1>1, <2>2, <2>4, <3>1 DEF Writing, EmojiTypeOK
    <3>3. \A j \in Writing(t) : work[j].op # "store"
      BY <2>3, <2>4, <3>1, <3>2 DEF Writing
    <3> QED
      BY <2>5, <3>2, <3>3 DEF CacheInv, CacheHolds
  <2> QED
    BY <2>7, <2>9, <2>10, <2>11 DEF CacheInv
<1> QED
  BY <1>2, <1>3

LEMMA CacheStore ==
    ASSUME EmojiTypeOK, CacheInv, NEW k \in Work, SetCustomId(k)
    PROVE  CacheInv'
<1> DEFINE w == work[k]
<1>1. /\ w \in WriteWork /\ Writes(k) /\ w.op = "store" /\ w.slot \in Slot
      /\ w.data \in Draft /\ w.editor \in Editor
  BY WorkShape DEF SetCustomId, Writes, WriteWork
<1>2. AfterStore(w).op \in {"leave", "patch"}
  BY <1>1, NextTyped DEF AfterStore, Leaving
<1>3. /\ work' = [work EXCEPT ![k] = AfterStore(w)]
      /\ cache' = [cache EXCEPT ![w.slot] = w.emoji]
      /\ settled' = IF w.alone THEN settled \cup {w.slot} ELSE settled
      /\ table' = table
  BY DEF SetCustomId, Settles
<1>4. \A j \in Work : /\ Writes(j)' <=> (Writes(j) /\ j # k)
                      /\ j # k => work'[j] = work[j]
  BY <1>2, <1>3 DEF Writes, EmojiTypeOK
<1>5. AloneIsAlone'
  BY <1>4 DEF CacheInv, AloneIsAlone
<1>6. SettledAlone'
  BY <1>1, <1>3, <1>4 DEF CacheInv, SettledAlone, AloneIsAlone
<1>7. ReadIsCurrent'
  BY <1>2, <1>3, <1>4 DEF CacheInv, ReadIsCurrent, Writes
<1>8. CommitStands'
  BY <1>2, <1>3, <1>4 DEF CacheInv, CommitStands, Writes, Loaded
<1>9. CacheHolds'
  <2>1. SUFFICES ASSUME NEW t \in settled', \A j \in Writing(t)' : work'[j].op # "store"
                 PROVE  cache'[t] = Loaded(table)[t]
    BY <1>3 DEF CacheHolds, Loaded
  <2>2. CASE t = w.slot
    <3>1. w.alone
      BY <1>1, <1>3, <2>1, <2>2 DEF CacheInv, SettledAlone
    <3> QED
      BY <1>1, <1>3, <2>2, <3>1 DEF CacheInv, CommitStands, EmojiTypeOK
  <2>3. CASE t # w.slot
    <3>1. t \in settled /\ cache'[t] = cache[t]
      BY <1>3, <2>1, <2>3 DEF EmojiTypeOK
    <3>2. \A j \in Writing(t) : work[j].op # "store"
      BY <1>4, <2>1, <2>3 DEF Writing
    <3> QED
      BY <3>1, <3>2 DEF CacheInv, CacheHolds
  <2> QED
    BY <2>2, <2>3
<1> QED
  BY <1>5, <1>6, <1>7, <1>8, <1>9 DEF CacheInv

LEMMA CacheStep ==
    ASSUME EmojiTypeOK, CacheInv, [EmojiNext]_emojivars
    PROVE  CacheInv'
<1>1. ASSUME NEW k \in Work, NEW a \in Editor, Tap(k, a)
      PROVE  CacheInv'
  <2>1. ASSUME NEW w, Arrives(k, a, w), UNCHANGED settled, w.op \notin {"load", "commit", "store"}
        PROVE  CacheInv'
    <3>1. work[k].op # "store"
      BY <2>1 DEF Arrives, Rest
    <3>2. UNCHANGED <<table, cache, settled>> /\ work' = [work EXCEPT ![k] = w]
      BY <2>1 DEF Arrives
    <3> QED
      BY <2>1, <3>1, <3>2, CacheFrameOne
  <2>2. \A s, d : NextInWizard(a, s, d).op \in {"leave", "patch"}
    BY DEF NextInWizard, Leaving, Patching
  <2>3. ASSUME NEW s \in Slot, admin_emoji_choose(k, a, s)
        PROVE  CacheInv'
    BY <2>1, <2>3 DEF admin_emoji_choose, Patching
  <2>4. ASSUME NEW s \in Slot, admin_emoji_reset(k, a, s)
        PROVE  CacheInv'
    <3>1. ~Writes(k)
      BY <2>4 DEF admin_emoji_reset, Writes, Rest
    <3>2. /\ work' = BeginsWrite(k, a, NoEmoji, s, Blank)
          /\ settled' = IF Writing(s) = {} THEN settled ELSE settled \ {s}
          /\ UNCHANGED <<table, cache>>
      BY <2>4 DEF admin_emoji_reset
    <3> QED
      BY <3>1, <3>2, CacheBegins
  <2>5. ASSUME NEW q, admin_emoji_wizard_start(k, a, q)
        PROVE  CacheInv'
    BY <2>1, <2>5 DEF admin_emoji_wizard_start, Patching
  <2>6. ASSUME admin_emoji_wizard_skip(k, a)
        PROVE  CacheInv'
    BY <2>1, <2>2, <2>6 DEF admin_emoji_wizard_skip
  <2>7. ASSUME leave_editor(k, a)
        PROVE  CacheInv'
    BY <2>1, <2>7 DEF leave_editor, Leaving
  <2>8. ASSUME admin_users_search(k, a)
        PROVE  CacheInv'
    BY <2>8, CacheFrame DEF admin_users_search, Writes
  <2>9. ASSUME NEW e \in Emoji, admin_emoji_receive(k, a, e)
        PROVE  CacheInv'
    BY <2>1, <2>9 DEF admin_emoji_receive
  <2> QED
    BY <1>1, <2>3, <2>4, <2>5, <2>6, <2>7, <2>8, <2>9 DEF Tap
<1>2. ASSUME NEW k \in Work, Proceed(k)
      PROVE  CacheInv'
  <2>1. CASE GetData(k)
    <3>1. /\ work[k].op = "get" /\ work[k].editor \in Editor /\ ~Writes(k)
          /\ draft[work[k].editor].slot \in Slot \cup {NoSlot}
      BY <2>1, WorkShape, TypeFacts DEF GetData, Writes, DialogueWork
    <3>2. CASE draft[work[k].editor].slot = NoSlot
      BY <2>1, <3>1, <3>2, CacheFrameOne DEF GetData, Leaving
    <3>3. CASE draft[work[k].editor].slot # NoSlot
      BY <2>1, <3>1, <3>3, CacheBegins DEF GetData
    <3> QED
      BY <3>2, <3>3
  <2>2. CASE UpdateData(k)
    BY <2>2, CacheFrameOne DEF UpdateData, Rest
  <2>3. CASE ClearState(k)
    <3>1. work[k] \in DialogueWork
      BY <2>3, WorkShape DEF ClearState
    <3>2. work' = [work EXCEPT ![k] = [work[k] EXCEPT !.op = "wipe"]]
      BY <2>3 DEF ClearState, EmojiTypeOK
    <3>3. [work[k] EXCEPT !.op = "wipe"].op = "wipe"
      BY <3>1 DEF DialogueWork
    <3> QED
      BY <2>3, <3>2, <3>3, CacheFrameOne DEF ClearState
  <2>4. CASE ClearData(k)
    BY <2>4, CacheFrameOne DEF ClearData, Rest
  <2>5. CASE HandlerFails(k)
    BY <2>5, CacheFrameOne DEF HandlerFails, Rest
  <2> QED
    BY <1>2, <2>1, <2>2, <2>3, <2>4, <2>5, CacheLoad, CacheCommit, CacheStore DEF Proceed
<1>3. CASE Restart
  <2>1. \A k \in Work : work'[k] = Rest /\ ~Writes(k)'
    BY <1>3 DEF Restart, Rest, Writes
  <2>2. cache' = Loaded(table) /\ table' = table
    BY <1>3 DEF Restart
  <2>3. AloneIsAlone' /\ SettledAlone'
    BY <2>1 DEF AloneIsAlone, SettledAlone
  <2>4. ReadIsCurrent' /\ CommitStands'
    BY <2>1 DEF ReadIsCurrent, CommitStands, Rest
  <2>5. CacheHolds'
    BY <2>2 DEF CacheHolds, Loaded
  <2> QED
    BY <2>3, <2>4, <2>5 DEF CacheInv
<1>4. CASE UNCHANGED emojivars
  BY <1>4, CacheFrame DEF emojivars, Writes
<1> QED
  BY <1>1, <1>2, <1>3, <1>4 DEF EmojiNext

-----------------------------------------------------------------------------
(* The wizard *)

\* What handler j goes on with is what it was at: the same administrator, slot and data.
SameErrand(j) ==
    work'[j] # Rest =>
        /\ work[j] # Rest /\ work'[j].editor = work[j].editor
        /\ work'[j].op = "patch" => work'[j] = work[j]
        /\ Writes(j)' => /\ Writes(j) /\ work'[j].data = work[j].data
                         /\ work'[j].slot = work[j].slot

LEMMA RestShape == \A j \in Work : (work[j].op # "none" => work[j] # Rest)
BY DEF Rest

\* Every handler goes on or ends, and the drafts stay.
LEMMA WizardFrame ==
    ASSUME WizardInv, UNCHANGED <<draft, passed>>, calm' \subseteq calm,
           \A j \in Work : SameErrand(j)
    PROVE  WizardInv'
<1>1. \A j \in Work : /\ work'[j].op = "patch" => work[j] = work'[j]
                      /\ Writes(j)' => /\ Writes(j) /\ work'[j].data = work[j].data
                                       /\ work'[j].slot = work[j].slot
                                       /\ work'[j].editor = work[j].editor
  BY DEF SameErrand, Rest, Writes
<1>2. OneAtATime'
  BY DEF WizardInv, OneAtATime, Of, SameErrand
<1>3. WizardInStep'
  BY DEF WizardInv, WizardInStep
<1>4. StartsAtFirst'
  BY <1>1 DEF WizardInv, StartsAtFirst
<1>5. NextIsNext'
  BY <1>1 DEF WizardInv, NextIsNext
<1>6. WriteIsHere'
  BY <1>1 DEF WizardInv, WriteIsHere
<1> QED
  BY <1>2, <1>3, <1>4, <1>5, <1>6 DEF WizardInv

\* Handler k of administrator a goes on with something new.
LEMMA WizardErrand ==
    ASSUME WizardInv, UNCHANGED <<draft, passed>>, calm' \subseteq calm,
           NEW k \in Work, NEW a, work'[k].editor = a,
           \A j \in Work : j # k => SameErrand(j),
           a \in calm' => Of(a) \subseteq {k},
           work'[k].op = "patch" /\ work'[k].why = "start" =>
               /\ work'[k].data.sequence # <<>>
               /\ work'[k].data.position = 0
               /\ work'[k].data.slot = work'[k].data.sequence[1],
           work'[k].op = "patch" /\ work'[k].why = "next" /\ a \in calm' =>
               Advances(work'[k], draft[a]),
           Writes(k)' /\ a \in calm' /\ work'[k].data.sequence # <<>> =>
               work'[k].data = draft[a] /\ work'[k].slot = draft[a].slot
    PROVE  WizardInv'
<1>1. \A j \in Work : j # k =>
          /\ work'[j].op = "patch" => work[j] = work'[j]
          /\ Writes(j)' => /\ Writes(j) /\ work'[j].data = work[j].data
                           /\ work'[j].slot = work[j].slot
                           /\ work'[j].editor = work[j].editor
  BY DEF SameErrand, Rest, Writes
<1>2. OneAtATime'
  <2>1. SUFFICES ASSUME NEW b \in calm', NEW i \in Of(b)', NEW j \in Of(b)'
                 PROVE  i = j
    BY DEF OneAtATime
  <2>2. i \in Work /\ j \in Work
    BY DEF Of
  <2>3. CASE b = a
    <3>1. ASSUME NEW n \in Of(b)', n # k PROVE FALSE
      <4>1. n \in Of(a)
        BY <2>3, <3>1 DEF Of, SameErrand
      <4> QED
        BY <2>1, <2>3, <3>1, <4>1
    <3> QED
      BY <3>1
  <2>4. CASE b # a
    <3>1. i # k /\ j # k
      BY <2>4 DEF Of
    <3>2. i \in Of(b) /\ j \in Of(b)
      BY <2>2, <3>1 DEF Of, SameErrand
    <3> QED
      BY <3>2 DEF WizardInv, OneAtATime
  <2> QED
    BY <2>3, <2>4
<1>3. WizardInStep'
  BY DEF WizardInv, WizardInStep
<1>4. StartsAtFirst'
  BY <1>1 DEF WizardInv, StartsAtFirst
<1>5. NextIsNext'
  BY <1>1 DEF WizardInv, NextIsNext
<1>6. WriteIsHere'
  BY <1>1 DEF WizardInv, WriteIsHere
<1> QED
  BY <1>2, <1>3, <1>4, <1>5, <1>6 DEF WizardInv

\* Handler k of administrator a ends with a change of the draft.
LEMMA WizardDraft ==
    ASSUME EmojiTypeOK, WizardInv, NEW k \in Work, NEW a, work[k].editor = a, work[k] # Rest,
           work' = [work EXCEPT ![k] = Rest],
           \A b \in Editor : b # a => draft'[b] = draft[b] /\ passed'[b] = passed[b],
           calm' \subseteq Editor, calm' \ {a} \subseteq calm,
           a \in calm' => /\ \A j \in Of(a) : j = k
                          /\ InStep(draft'[a], passed'[a])
    PROVE  WizardInv'
<1>1. \A j \in Work : work'[j] = IF j = k THEN Rest ELSE work[j]
  BY DEF EmojiTypeOK
<1>2. ASSUME NEW j \in Work, work'[j] # Rest
      PROVE  /\ j # k /\ work'[j] = work[j] /\ work[j].editor \in Editor
             /\ work[j].editor \in calm' => work[j].editor # a /\ work[j].editor \in calm
  BY <1>1, <1>2, WorkShape DEF Of
<1>3. \A j \in Work : work'[j].op # "none" => work'[j] # Rest
  BY DEF Rest
<1>4. OneAtATime'
  BY <1>2 DEF WizardInv, OneAtATime, Of
<1>5. WizardInStep'
  BY DEF WizardInv, WizardInStep
<1>6. StartsAtFirst'
  BY <1>2, <1>3 DEF WizardInv, StartsAtFirst
<1>7. NextIsNext'
  BY <1>2, <1>3 DEF WizardInv, NextIsNext
<1>8. WriteIsHere'
  <2>1. \A j \in Work : Writes(j)' => work'[j] # Rest
    BY DEF Writes, Rest
  <2>2. \A j \in Work : work'[j] = work[j] => (Writes(j)' <=> Writes(j))
    BY DEF Writes
  <2> QED
    BY <1>2, <2>1, <2>2 DEF WizardInv, WriteIsHere
<1> QED
  BY <1>4, <1>5, <1>6, <1>7, <1>8 DEF WizardInv

\* The handler that advances the wizard of a draft in step.
LEMMA NextAdvances ==
    ASSUME NEW a, NEW d \in Draft, NEW s, d.sequence # <<>>,
           d.position + 1 < Len(d.sequence) => s = d.sequence[d.position + 1],
           NEW v, v = NextInWizard(a, s, d)
    PROVE  /\ v.editor = a
           /\ v.op = "patch" => v.why = "next" /\ Advances(v, d)
           /\ v.op \notin {"load", "commit", "store"}
<1>1. d.sequence \in Seq(Slot) /\ d.position \in Nat
  BY DEF Draft
<1>2. CASE d.position + 1 >= Len(d.sequence)
  BY <1>2 DEF NextInWizard, Leaving
<1>3. CASE ~(d.position + 1 >= Len(d.sequence))
  <2> DEFINE new == [[d EXCEPT !.position = @ + 1] EXCEPT !.slot = d.sequence[d.position + 2]]
  <2>1. v = Patching(a, "next", s, new)
    BY <1>3 DEF NextInWizard
  <2>2. /\ new.sequence = d.sequence /\ new.position = d.position + 1
        /\ new.slot = d.sequence[d.position + 2]
    BY DEF Draft
  <2>3. Len(d.sequence) \in Nat
    BY <1>1, LenProperties
  <2>4. d.position + 1 < Len(d.sequence) /\ d.position + 2 = (d.position + 1) + 1
    BY <1>1, <1>3, <2>3
  <2> HIDE DEF new
  <2> QED
    BY <2>1, <2>2, <2>4 DEF Patching, Advances
<1> QED
  BY <1>2, <1>3

\* A write that begins takes nothing but their being alone from the others.
LEMMA BeginsErrand ==
    ASSUME EmojiTypeOK, NEW k \in Work, NEW a, NEW e, NEW s, NEW d,
           work' = BeginsWrite(k, a, e, s, d), NEW j \in Work, j # k
    PROVE  SameErrand(j)
<1>1. CASE j \in Writing(s)
  <2>1. work[j] \in WriteWork /\ Writes(j)
    BY <1>1, WorkShape DEF Writing
  <2>2. work'[j] = [work[j] EXCEPT !.alone = FALSE]
    BY <1>1 DEF BeginsWrite
  <2>3. /\ work'[j].op = work[j].op /\ work'[j].editor = work[j].editor
        /\ work'[j].data = work[j].data /\ work'[j].slot = work[j].slot
    BY <2>1, <2>2 DEF WriteWork
  <2> QED
    BY <2>1, <2>3 DEF SameErrand, Writes, Rest
<1>2. CASE j \notin Writing(s)
  <2>1. work'[j] = work[j]
    BY <1>2 DEF BeginsWrite
  <2> QED
    BY <2>1 DEF SameErrand, Writes
<1> QED
  BY <1>1, <1>2

LEMMA WizardTap ==
    ASSUME EmojiTypeOK, WizardInv, NEW k \in Work, NEW a \in Editor, Tap(k, a)
    PROVE  WizardInv'
<1>1. ASSUME NEW w, Arrives(k, a, w), w.editor = a, w.op \notin {"load", "commit", "store"},
             w.op = "patch" /\ w.why = "start" =>
                 /\ w.data.sequence # <<>> /\ w.data.position = 0
                 /\ w.data.slot = w.data.sequence[1],
             w.op = "patch" /\ w.why = "next" /\ a \in calm => Advances(w, draft[a])
      PROVE  WizardInv'
  <2>1. work'[k] = w /\ \A j \in Work : j # k => work'[j] = work[j]
    BY <1>1 DEF Arrives, EmojiTypeOK
  <2>2. \A j \in Work : j # k => SameErrand(j)
    BY <2>1 DEF SameErrand, Writes
  <2>3. calm' \subseteq calm /\ (a \in calm' => Of(a) \subseteq {k})
    BY <1>1 DEF Arrives
  <2>4. ~Writes(k)'
    BY <1>1, <2>1 DEF Writes
  <2>5. UNCHANGED <<draft, passed>>
    BY <1>1 DEF Arrives
  <2> QED
    BY <1>1, <2>1, <2>2, <2>3, <2>4, <2>5, WizardErrand
<1>2. ASSUME NEW s \in Slot, admin_emoji_choose(k, a, s)
      PROVE  WizardInv'
  BY <1>1, <1>2 DEF admin_emoji_choose, Patching
<1>3. ASSUME NEW s \in Slot, admin_emoji_reset(k, a, s)
      PROVE  WizardInv'
  <2>1. /\ work'[k].op = "load" /\ work'[k].editor = a /\ work'[k].data.sequence = <<>>
    BY <1>3 DEF admin_emoji_reset, BeginsWrite, Blank
  <2>2. \A j \in Work : j # k => SameErrand(j)
    BY <1>3, BeginsErrand DEF admin_emoji_reset
  <2>3. calm' \subseteq calm /\ (a \in calm' => Of(a) \subseteq {k})
    BY <1>3 DEF admin_emoji_reset
  <2>4. UNCHANGED <<draft, passed>>
    BY <1>3 DEF admin_emoji_reset
  <2> QED
    BY <2>1, <2>2, <2>3, <2>4, WizardErrand
<1>4. ASSUME NEW q, admin_emoji_wizard_start(k, a, q)
      PROVE  WizardInv'
  BY <1>1, <1>4 DEF admin_emoji_wizard_start, Patching
<1>5. ASSUME admin_emoji_wizard_skip(k, a)
      PROVE  WizardInv'
  <2> DEFINE s == draft[a].sequence[draft[a].position + 1]
             v == NextInWizard(a, s, draft[a])
  <2>1. draft[a].sequence # <<>> /\ Arrives(k, a, v)
    BY <1>5 DEF admin_emoji_wizard_skip
  <2>2. draft[a] \in Draft
    BY TypeFacts
  <2>3. /\ v.editor = a
        /\ v.op = "patch" => v.why = "next" /\ Advances(v, draft[a])
        /\ v.op \notin {"load", "commit", "store"}
    BY <2>1, <2>2, NextAdvances
  <2> HIDE DEF v
  <2> QED
    BY <1>1, <2>1, <2>3
<1>6. ASSUME leave_editor(k, a)
      PROVE  WizardInv'
  BY <1>1, <1>6 DEF leave_editor, Leaving
<1>7. ASSUME admin_users_search(k, a)
      PROVE  WizardInv'
  <2>1. UNCHANGED <<draft, passed, calm, work>>
    BY <1>7 DEF admin_users_search
  <2>2. \A j \in Work : SameErrand(j)
    BY <2>1 DEF SameErrand, Writes
  <2> QED
    BY <2>1, <2>2, WizardFrame
<1>8. ASSUME NEW e \in Emoji, admin_emoji_receive(k, a, e)
      PROVE  WizardInv'
  BY <1>1, <1>8 DEF admin_emoji_receive
<1> QED
  BY <1>2, <1>3, <1>4, <1>5, <1>6, <1>7, <1>8 DEF Tap

LEMMA WizardProceed ==
    ASSUME EmojiTypeOK, WizardInv, NEW k \in Work, Proceed(k)
    PROVE  WizardInv'
<1> DEFINE a == work[k].editor
<1>1. work[k] # Rest
  BY DEF Proceed, GetData, Load, Commit, SetCustomId, UpdateData, ClearState, ClearData,
         HandlerFails, Rest
<1>2. a \in Editor /\ draft[a] \in Draft
  BY <1>1, WorkShape, TypeFacts
<1>3. a \in calm => \A j \in Of(a) : j = k
  BY <1>1 DEF WizardInv, OneAtATime, Of
<1>4. CASE GetData(k)
  <2>1. UNCHANGED <<draft, passed, calm>>
    BY <1>4 DEF GetData
  <2>2. CASE draft[a].slot = NoSlot
    <3>1. work' = [work EXCEPT ![k] = Leaving(a)]
      BY <1>4, <2>2 DEF GetData
    <3>2. \A j \in Work : SameErrand(j)
      BY <1>1, <3>1 DEF SameErrand, Writes, Leaving, EmojiTypeOK
    <3> QED
      BY <2>1, <3>2, WizardFrame
  <2>3. CASE draft[a].slot # NoSlot
    <3>1. work' = BeginsWrite(k, a, work[k].emoji, draft[a].slot, draft[a])
      BY <1>4, <2>3 DEF GetData
    <3>2. /\ work'[k].op = "load" /\ work'[k].editor = a
          /\ work'[k].data = draft[a] /\ work'[k].slot = draft[a].slot
      BY <3>1 DEF BeginsWrite
    <3>3. \A j \in Work : j # k => SameErrand(j)
      BY <3>1, BeginsErrand
    <3> QED
      BY <1>3, <2>1, <3>2, <3>3, WizardErrand
  <2> QED
    BY <2>2, <2>3
<1>5. CASE Load(k)
  <2>1. work[k] \in WriteWork /\ Writes(k)
    BY <1>5, WorkShape DEF Load, Writes
  <2>2. work' = [work EXCEPT ![k] =
                    [[work[k] EXCEPT !.op = "commit"] EXCEPT !.row = table[work[k].slot]]]
    BY <1>5 DEF Load, EmojiTypeOK
  <2>3. /\ work'[k].op = "commit" /\ work'[k].editor = a
        /\ work'[k].data = work[k].data /\ work'[k].slot = work[k].slot
    BY <2>1, <2>2 DEF EmojiTypeOK, WriteWork
  <2>4. \A j \in Work : j # k => work'[j] = work[j]
    BY <2>2 DEF EmojiTypeOK
  <2>5. \A j \in Work : SameErrand(j)
    BY <1>1, <2>1, <2>3, <2>4 DEF SameErrand, Writes
  <2>6. UNCHANGED <<draft, passed, calm>>
    BY <1>5 DEF Load
  <2> QED
    BY <2>5, <2>6, WizardFrame
<1>6. CASE Commit(k)
  <2>1. work[k] \in WriteWork /\ Writes(k)
    BY <1>6, WorkShape DEF Commit, Writes
  <2>2. \A j \in Work : j # k => work'[j] = work[j]
    BY <1>6 DEF Commit, EmojiTypeOK
  <2>3. \/ work'[k] = Rest
        \/ work'[k] = [work[k] EXCEPT !.op = "store"]
    BY <1>6 DEF Commit, EmojiTypeOK
  <2>4. SameErrand(k)
    <3>1. CASE work'[k] = Rest
      BY <3>1 DEF SameErrand
    <3>2. CASE work'[k] = [work[k] EXCEPT !.op = "store"]
      <4>1. /\ work'[k].op = "store" /\ work'[k].editor = a
            /\ work'[k].data = work[k].data /\ work'[k].slot = work[k].slot
        BY <2>1, <3>2 DEF WriteWork
      <4> QED
        BY <1>1, <2>1, <4>1 DEF SameErrand
    <3> QED
      BY <2>3, <3>1, <3>2
  <2>5. \A j \in Work : SameErrand(j)
    BY <2>2, <2>4 DEF SameErrand, Writes
  <2>6. UNCHANGED <<draft, passed, calm>>
    BY <1>6 DEF Commit
  <2> QED
    BY <2>5, <2>6, WizardFrame
<1>7. CASE SetCustomId(k)
  <2> DEFINE w == work[k]
             v == AfterStore(w)
  <2>1. w \in WriteWork /\ Writes(k) /\ w.data \in Draft
    BY <1>7, WorkShape DEF SetCustomId, Writes, WriteWork
  <2>2. work' = [work EXCEPT ![k] = v] /\ UNCHANGED <<draft, passed, calm>>
    BY <1>7 DEF SetCustomId
  <2>3. work'[k] = v /\ \A j \in Work : j # k => work'[j] = work[j]
    BY <2>2 DEF EmojiTypeOK
  <2>4. \A j \in Work : j # k => SameErrand(j)
    BY <2>3 DEF SameErrand, Writes
  <2>5. CASE w.data.sequence = <<>> \/ a \notin calm
    <3>1. v.editor = a /\ v.op \notin {"load", "commit", "store"}
          /\ (v.op = "patch" => v.why = "next")
      BY DEF AfterStore, NextInWizard, Leaving, Patching
    <3>2. w.data.sequence = <<>> => v.op = "leave"
      BY DEF AfterStore, Leaving
    <3>3. ~Writes(k)'
      BY <2>3, <3>1 DEF Writes
    <3>4. UNCHANGED <<draft, passed>> /\ calm' \subseteq calm
      BY <2>2
    <3>5. /\ work'[k].editor = a
          /\ ~(work'[k].op = "patch" /\ work'[k].why = "start")
      BY <2>3, <3>1
    <3>6. ~(work'[k].op = "patch" /\ work'[k].why = "next" /\ a \in calm')
      BY <2>3, <2>5, <3>2, <3>4
    <3>7. a \in calm' => Of(a) \subseteq {k}
      BY <1>3, <3>4
    <3> QED
      BY <2>4, <3>3, <3>4, <3>5, <3>6, <3>7, WizardErrand
  <2>6. CASE w.data.sequence # <<>> /\ a \in calm
    <3>1. w.data = draft[a] /\ w.slot = draft[a].slot
      BY <2>1, <2>6 DEF WizardInv, WriteIsHere
    <3>2. InStep(draft[a], passed[a])
      BY <2>6 DEF WizardInv, WizardInStep
    <3>3. v = NextInWizard(a, w.slot, w.data)
      BY <2>6 DEF AfterStore
    <3>4. w.slot = draft[a].sequence[draft[a].position + 1]
      BY <2>6, <3>1, <3>2 DEF InStep
    <3>5. /\ v.editor = a
          /\ v.op = "patch" => v.why = "next" /\ Advances(v, draft[a])
          /\ v.op \notin {"load", "commit", "store"}
      BY <1>2, <2>6, <3>1, <3>3, <3>4, NextAdvances
    <3>6. ~Writes(k)'
      BY <2>3, <3>5 DEF Writes
    <3> QED
      BY <1>3, <2>2, <2>3, <2>4, <3>5, <3>6, WizardErrand
  <2> QED
    BY <2>5, <2>6
<1>8. CASE UpdateData(k)
  <2> DEFINE w == work[k]
  <2>1. w \in PatchWork /\ w.op = "patch"
    BY <1>8, WorkShape DEF UpdateData
  <2>2. w.why \in {"choose", "start", "next"} /\ w.data \in Draft
    BY <2>1 DEF PatchWork
  <2>3. /\ work' = [work EXCEPT ![k] = Rest]
        /\ draft' = [draft EXCEPT ![a] = Patched(draft[a], w)]
        /\ passed' = [passed EXCEPT ![a] = CASE w.why = "choose" -> passed[a]
                                              [] w.why = "start" -> {}
                                              [] w.why = "next" -> passed[a] \cup {w.slot}]
        /\ calm' = CASE w.why = "start" /\ Of(a) = {k} -> calm \cup {a}
                     [] w.why = "choose" /\ draft[a].sequence # <<>> -> calm \ {a}
                     [] OTHER -> calm
    BY <1>8 DEF UpdateData
  <2>4. \A b \in Editor : b # a => draft'[b] = draft[b] /\ passed'[b] = passed[b]
    BY <2>3 DEF EmojiTypeOK
  <2>5. draft'[a] = Patched(draft[a], w)
    BY <1>2, <2>3 DEF EmojiTypeOK
  <2>6. calm' \subseteq Editor /\ calm' \ {a} \subseteq calm
    BY <1>2, <2>3 DEF EmojiTypeOK
  <2>7. a \in calm' => \A j \in Of(a) : j = k
    BY <1>3, <2>3
  <2>8. a \in calm' => InStep(draft'[a], passed'[a])
    <3>1. SUFFICES ASSUME a \in calm' PROVE InStep(draft'[a], passed'[a])
      OBVIOUS
    <3>2. CASE w.why = "start"
      <4>1. draft'[a] = w.data /\ passed'[a] = {}
        BY <1>2, <2>3, <2>5, <3>2 DEF Patched, EmojiTypeOK
      <4>2. /\ w.data.sequence # <<>> /\ w.data.position = 0
            /\ w.data.slot = w.data.sequence[1]
        BY <2>1, <3>2 DEF WizardInv, StartsAtFirst
      <4>3. w.data.sequence \in Seq(Slot)
        BY <2>2 DEF Draft
      <4>4. Len(w.data.sequence) > 0
        BY <4>2, <4>3, LenProperties, EmptySeq
      <4> QED
        BY <4>1, <4>2, <4>4 DEF InStep
    <3>3. CASE w.why = "choose"
      <4>1. draft[a].sequence = <<>>
        BY <2>3, <3>1, <3>3
      <4>2. draft'[a] = [draft[a] EXCEPT !.slot = w.slot]
        BY <2>5, <3>3 DEF Patched
      <4>3. draft'[a].sequence = <<>>
        BY <1>2, <4>1, <4>2 DEF Draft
      <4> QED
        BY <4>3 DEF InStep
    <3>4. CASE w.why = "next"
      <4>1. a \in calm
        BY <2>3, <3>1, <3>4
      <4>2. Advances(w, draft[a]) /\ InStep(draft[a], passed[a])
        BY <2>1, <3>4, <4>1 DEF WizardInv, NextIsNext, WizardInStep
      <4>3. draft'[a] = [[draft[a] EXCEPT !.slot = w.data.slot] EXCEPT !.position = w.data.position]
        BY <2>5, <3>4 DEF Patched
      <4>4. /\ draft'[a].sequence = draft[a].sequence /\ draft'[a].slot = w.data.slot
            /\ draft'[a].position = w.data.position
        BY <1>2, <4>3 DEF Draft
      <4>5. passed'[a] = passed[a] \cup {w.slot}
        BY <1>2, <2>3, <3>4 DEF EmojiTypeOK
      <4>6. draft[a].position \in Nat
        BY <1>2 DEF Draft
      <4>7. \A i \in 1..(draft[a].position + 1) : i \in 1..draft[a].position \/ i = draft[a].position + 1
        BY <4>6
      <4> QED
        BY <4>2, <4>4, <4>5, <4>7 DEF Advances, InStep
    <3> QED
      BY <2>2, <3>2, <3>3, <3>4
  <2> QED
    BY <1>1, <2>3, <2>4, <2>6, <2>7, <2>8, WizardDraft
<1>9. CASE ClearState(k)
  <2>1. work[k] \in DialogueWork
    BY <1>9, WorkShape DEF ClearState
  <2>2. /\ work' = [work EXCEPT ![k] = [work[k] EXCEPT !.op = "wipe"]]
        /\ UNCHANGED <<draft, passed, calm>>
    BY <1>9 DEF ClearState, EmojiTypeOK
  <2>3. work'[k].op = "wipe" /\ work'[k].editor = a
    BY <2>1, <2>2 DEF DialogueWork, EmojiTypeOK
  <2>4. \A j \in Work : j # k => work'[j] = work[j]
    BY <2>2 DEF EmojiTypeOK
  <2>5. \A j \in Work : SameErrand(j)
    BY <1>1, <2>3, <2>4 DEF SameErrand, Writes
  <2> QED
    BY <2>2, <2>5, WizardFrame
<1>10. CASE ClearData(k)
  <2>1. /\ work' = [work EXCEPT ![k] = Rest] /\ draft' = [draft EXCEPT ![a] = Blank]
        /\ UNCHANGED <<passed, calm>>
    BY <1>10 DEF ClearData
  <2>2. draft'[a] = Blank /\ \A b \in Editor : b # a => draft'[b] = draft[b]
    BY <1>2, <2>1 DEF EmojiTypeOK
  <2>3. InStep(draft'[a], passed'[a])
    BY <2>2 DEF InStep, Blank
  <2>4. calm' \subseteq Editor
    BY <2>1 DEF EmojiTypeOK
  <2> QED
    BY <1>1, <1>3, <2>1, <2>2, <2>3, <2>4, WizardDraft
<1>11. CASE HandlerFails(k)
  <2>1. work' = [work EXCEPT ![k] = Rest] /\ UNCHANGED <<draft, passed, calm>>
    BY <1>11 DEF HandlerFails
  <2>2. \A j \in Work : SameErrand(j)
    BY <2>1 DEF SameErrand, Writes, EmojiTypeOK
  <2> QED
    BY <2>1, <2>2, WizardFrame
<1> QED
  BY <1>4, <1>5, <1>6, <1>7, <1>8, <1>9, <1>10, <1>11 DEF Proceed

-----------------------------------------------------------------------------
(* The theorems of the editor *)

LEMMA EmojiInitInv ==
    ASSUME EmojiInit
    PROVE  EInv
<1>1. EmojiTypeOK
  <2>1. <<>> \in Seq(Slot)
    BY EmptySeq
  <2>2. Blank \in Draft
    BY <2>1 DEF Blank, Draft
  <2>3. cache \in [Slot -> Emoji \cup {NoEmoji}]
    BY DEF EmojiInit, Loaded
  <2> QED
    BY <2>2, <2>3 DEF EmojiInit, EmojiTypeOK
<1>2. \A k \in Work : work[k] = Rest /\ work[k].op = "none" /\ ~Writes(k)
  BY DEF EmojiInit, Rest, Writes
<1>3. CacheInv
  <2>1. AloneIsAlone /\ SettledAlone /\ ReadIsCurrent /\ CommitStands
    BY <1>2 DEF AloneIsAlone, SettledAlone, ReadIsCurrent, CommitStands
  <2>2. CacheHolds
    BY DEF EmojiInit, CacheHolds, Loaded
  <2> QED
    BY <2>1, <2>2 DEF CacheInv
<1>4. WizardInv
  <2>1. OneAtATime
    BY <1>2 DEF OneAtATime, Of
  <2>2. WizardInStep
    BY DEF EmojiInit, WizardInStep, InStep, Blank
  <2>3. StartsAtFirst /\ NextIsNext /\ WriteIsHere
    BY <1>2 DEF StartsAtFirst, NextIsNext, WriteIsHere
  <2> QED
    BY <2>1, <2>2, <2>3 DEF WizardInv
<1> QED
  BY <1>1, <1>3, <1>4 DEF EInv

LEMMA EmojiStep ==
    ASSUME EInv, [EmojiNext]_emojivars
    PROVE  EInv'
<1>1. EmojiTypeOK /\ CacheInv /\ WizardInv
  BY DEF EInv
<1>2. CacheInv'
  BY <1>1, CacheStep
<1>3. ASSUME NEW k \in Work, \E a \in Editor : Tap(k, a)
      PROVE  EmojiTypeOK' /\ WizardInv'
  BY <1>1, <1>3, TapTyped, WizardTap
<1>4. ASSUME NEW k \in Work, Proceed(k)
      PROVE  EmojiTypeOK' /\ WizardInv'
  BY <1>1, <1>4, ProceedTyped, WizardProceed
<1>5. CASE Restart
  <2>1. EmojiTypeOK'
    BY <1>1, <1>5, TypeFacts DEF Restart, EmojiTypeOK
  <2>2. \A j \in Work : SameErrand(j)
    BY <1>5 DEF Restart, SameErrand
  <2>3. WizardInv'
    BY <1>1, <1>5, <2>2, WizardFrame DEF Restart
  <2> QED
    BY <1>2, <2>1, <2>3 DEF EInv
<1>6. CASE UNCHANGED emojivars
  <2>1. EmojiTypeOK'
    BY <1>1, <1>6 DEF emojivars, EmojiTypeOK
  <2>2. \A j \in Work : SameErrand(j)
    BY <1>6 DEF emojivars, SameErrand, Writes
  <2>3. WizardInv'
    BY <1>1, <1>6, <2>2, WizardFrame DEF emojivars
  <2> QED
    BY <1>2, <2>1, <2>3 DEF EInv
<1> QED
  BY <1>2, <1>3, <1>4, <1>5, <1>6 DEF EInv, EmojiNext

\* The inductive invariant of the editor holds in every reachable state.
THEOREM EditorInvariant == EmojiSpec => []EInv
<1>1. EmojiInit => EInv
  BY EmojiInitInv
<1>2. EInv /\ [EmojiNext]_emojivars => EInv'
  BY EmojiStep
<1> QED
  BY <1>1, <1>2, PTL DEF EmojiSpec

\* Table, cache, dialogues and handlers of the editor keep their types.
THEOREM EditorTypesCorrect == EmojiSpec => []EmojiTypeOK
<1>1. EInv => EmojiTypeOK
  BY DEF EInv
<1> QED
  BY <1>1, EditorInvariant, PTL

\* However the handlers of all administrators interleave, fail or are cut off by a restart, a slot
\* whose last write was alone shows on every screen what the table holds (admin.py:541-557).
THEOREM ScreensShowTheTable == EmojiSpec => []CacheMatchesTable
<1>1. EInv => CacheMatchesTable
  <2>1. SUFFICES ASSUME EInv, NEW s \in settled, Writing(s) = {}
                 PROVE  cache[s] = Loaded(table)[s]
    BY DEF CacheMatchesTable
  <2> QED
    BY <2>1 DEF EInv, CacheInv, CacheHolds
<1> QED
  BY <1>1, EditorInvariant, PTL

\* A wizard that runs by itself leaves no slot of its sequence out, also after failed handlers and
\* restarts (admin.py:509-523, 562-571).
THEOREM WizardLeavesNothingOut == EmojiSpec => []WizardMissesNothing
<1>1. EInv => WizardMissesNothing
  BY DEF EInv, WizardInv, WizardInStep, InStep, WizardMissesNothing
<1> QED
  BY <1>1, EditorInvariant, PTL

-----------------------------------------------------------------------------
(* Asking and answering: the inductive invariant *)

\* What a handler has to do, at each point of its way.
Page3 == <<"clear_state", "clear_data", "page">>
Page2 == <<"clear_data", "page">>
Page1 == <<"page">>
Home3 == <<"clear_state", "clear_data", "home">>
Home2 == <<"clear_data", "home">>
Home1 == <<"home">>
Ask5 == <<"look", "to_submitting", "fetch", "put", "ask">>
Ask4 == <<"to_submitting", "fetch", "put", "ask">>
Ask3 == <<"fetch", "put", "ask">>
Ask2 == <<"put", "ask">>
Ask1 == <<"ask">>
Prompt2 == <<"to_entering", "ask_prompt">>
Prompt1 == <<"ask_prompt">>
Answer5 == <<"which", "fulfil", "clear_state", "clear_data", "home">>
Answer4 == <<"fulfil", "clear_state", "clear_data", "home">>
Create4 == <<"create", "clear_state", "clear_data", "home">>
Other4 == <<"fetch", "put", "to_another", "home">>
Other3 == <<"put", "to_another", "home">>
Other2 == <<"to_another", "home">>

Todos == {Page3, Page2, Page1, Home3, Home2, Home1, Ask5, Ask4, Ask3, Ask2, Ask1,
          Prompt2, Prompt1, Answer5, Answer4, Create4, Other4, Other3, Other2}

\* The handlers that work for one request.
ForRequest == {Page3, Page2, Page1, Ask5, Ask4, Ask3, Ask2, Ask1, Answer4}

Handler == [todo: Todos \cup {<<>>}, user: Sender \cup {"nobody"}, request: Request \cup {NoRequest},
            copy: Request \cup {NoRequest}, text: Purpose, alone: BOOLEAN]

\* In state st, with request_id rid, the next message is taken for what its sender means.
Expects(m, st, rid) ==
    /\ m = "request" => st = "entering_prompt"
    /\ m \in Request => st = "submitting_secret" /\ rid = m
    /\ m = "other" => st \notin {"entering_prompt", "submitting_secret"}

\* How far a handler that is alone has brought its user's state and request_id.
InPlace(h, st, rid) ==
    /\ h.todo \in {Page2, Page1, Home2, Home1} => st \notin {"entering_prompt", "submitting_secret"}
    /\ h.todo \in {Ask3, Ask2, Ask1} => st = "submitting_secret"
    /\ h.todo = Ask1 => rid = h.request
    /\ h.todo = Prompt1 => st = "entering_prompt"
    /\ h.todo = Answer5 => h.text = "unsure" \/ (h.text \in Request /\ rid = h.text)
    /\ h.todo = Answer4 => h.text = "unsure" \/ h.text = h.request
    /\ h.todo = Create4 => h.text \in {"unsure", "request"}

Shaped(h) ==
    h # Idling => /\ h.todo \in Todos /\ h.user \in Sender
                  /\ h.todo \in ForRequest => h.request \in Request

HandlersInPlace ==
    \A k \in Update :
        /\ Shaped(handler[k])
        /\ handler[k] # Idling /\ handler[k].alone =>
               InPlace(handler[k], state[handler[k].user], requestId[handler[k].user])

\* A handler that counts as alone has no other one of its user beside it.
AloneAtWork ==
    \A j, k \in Update :
        /\ handler[j] # Idling /\ handler[k] # Idling
        /\ handler[j].user = handler[k].user /\ handler[j].alone
        => j = k

\* Whoever is told what the next message will be has no handler at work, and state and request_id
\* are what that message needs.
MeantStands ==
    \A u \in Sender :
        meant[u] # "unsure" => BusyFor(u) = {} /\ Expects(meant[u], state[u], requestId[u])

DialogueInv ==
    /\ AnswerTypeOK
    /\ handler \in [Update -> Handler]
    /\ HandlersInPlace
    /\ AloneAtWork
    /\ MeantStands
    /\ AnswersWhereMeant

LEMMA FirstCommands ==
    /\ Head(Page3) = "clear_state" /\ Head(Page2) = "clear_data" /\ Head(Page1) = "page"
    /\ Head(Home3) = "clear_state" /\ Head(Home2) = "clear_data" /\ Head(Home1) = "home"
    /\ Head(Ask5) = "look" /\ Head(Ask4) = "to_submitting" /\ Head(Ask3) = "fetch"
    /\ Head(Ask2) = "put" /\ Head(Ask1) = "ask"
    /\ Head(Prompt2) = "to_entering" /\ Head(Prompt1) = "ask_prompt"
    /\ Head(Answer5) = "which" /\ Head(Answer4) = "fulfil" /\ Head(Create4) = "create"
    /\ Head(Other4) = "fetch" /\ Head(Other3) = "put" /\ Head(Other2) = "to_another"
BY DEF Page3, Page2, Page1, Home3, Home2, Home1, Ask5, Ask4, Ask3, Ask2, Ask1, Prompt2, Prompt1,
       Answer5, Answer4, Create4, Other4, Other3, Other2

LEMMA RemainingCommands ==
    /\ Tail(Page3) = Page2 /\ Tail(Page2) = Page1
    /\ Tail(Home3) = Home2 /\ Tail(Home2) = Home1
    /\ Tail(Ask5) = Ask4 /\ Tail(Ask4) = Ask3 /\ Tail(Ask3) = Ask2 /\ Tail(Ask2) = Ask1
    /\ Tail(Prompt2) = Prompt1
    /\ Tail(Answer5) = Answer4 /\ Tail(Answer4) = Home3 /\ Tail(Create4) = Home3
    /\ Tail(Other4) = Other3 /\ Tail(Other3) = Other2 /\ Tail(Other2) = Home1
BY DEF Page3, Page2, Page1, Home3, Home2, Home1, Ask5, Ask4, Ask3, Ask2, Ask1, Prompt2, Prompt1,
       Answer5, Answer4, Create4, Other4, Other3, Other2

LEMMA CommandsLeft ==
    /\ \A t \in {Page1, Home1, Ask1, Prompt1} : Len(t) = 1
    /\ \A t \in Todos \ {Page1, Home1, Ask1, Prompt1} : Len(t) # 1
    /\ \A t \in Todos : t # <<>>
BY DEF Todos, Page3, Page2, Page1, Home3, Home2, Home1, Ask5, Ask4, Ask3, Ask2, Ask1, Prompt2,
       Prompt1, Answer5, Answer4, Create4, Other4, Other3, Other2

-----------------------------------------------------------------------------
(* The steps of a handler: what they share *)

Last == {Page1, Home1, Ask1, Prompt1}

\* Which ways a command is on.
LEMMA CommandOf ==
    ASSUME NEW t \in Todos
    PROVE  /\ Head(t) = "clear_state" => t \in {Page3, Home3}
           /\ Head(t) = "clear_data" => t \in {Page2, Home2}
           /\ Head(t) = "page" => t = Page1
           /\ Head(t) = "home" => t = Home1
           /\ Head(t) = "look" => t = Ask5
           /\ Head(t) = "to_submitting" => t = Ask4
           /\ Head(t) = "fetch" => t \in {Ask3, Other4}
           /\ Head(t) = "put" => t \in {Ask2, Other3}
           /\ Head(t) = "ask" => t = Ask1
           /\ Head(t) = "to_entering" => t = Prompt2
           /\ Head(t) = "ask_prompt" => t = Prompt1
           /\ Head(t) = "which" => t = Answer5
           /\ Head(t) = "fulfil" => t = Answer4
           /\ Head(t) = "create" => t = Create4
           /\ Head(t) = "to_another" => t = Other2
<1>1. CASE t \in {Page3, Page2, Page1, Home3, Home2, Home1}
  BY <1>1, FirstCommands
<1>2. CASE t \in {Ask5, Ask4, Ask3, Ask2, Ask1, Prompt2, Prompt1}
  BY <1>2, FirstCommands
<1>3. CASE t \in {Answer5, Answer4, Create4, Other4, Other3, Other2}
  BY <1>3, FirstCommands
<1> QED
  BY <1>1, <1>2, <1>3 DEF Todos

LEMMA LastCommands == \A t \in Last : Head(t) \in {"page", "home", "ask", "ask_prompt"}
BY FirstCommands DEF Last

\* What is left of a way is one; it serves a request if the way did or has just found it.
LEMMA Continues ==
    ASSUME NEW t \in Todos, t \notin Last
    PROVE  /\ Tail(t) \in Todos
           /\ Tail(t) \in ForRequest => t \in ForRequest \cup {Answer5}
<1>1. CASE t \in {Page3, Page2, Ask5, Ask4, Ask3, Ask2, Answer5}
  BY <1>1, RemainingCommands DEF Todos, ForRequest
<1>2. CASE t \in {Home3, Home2, Prompt2, Answer4, Create4, Other4, Other3, Other2}
  <2>1. Tail(t) \in {Home3, Home2, Home1, Prompt1, Other3, Other2}
    BY <1>2, RemainingCommands
  <2>2. \A x \in {Home3, Home2, Home1, Prompt1, Other3, Other2} : x \notin ForRequest /\ x \in Todos
    <3>1. \A x \in {Home3, Home2, Home1, Prompt1, Other3, Other2} : x \in Todos
      BY DEF Todos
    <3>2. Home3 \notin ForRequest /\ Home2 \notin ForRequest /\ Home1 \notin ForRequest
      BY FirstCommands, RemainingCommands DEF ForRequest
    <3>3. Prompt1 \notin ForRequest /\ Other3 \notin ForRequest /\ Other2 \notin ForRequest
      BY FirstCommands, RemainingCommands DEF ForRequest
    <3> QED
      BY <3>1, <3>2, <3>3
  <2> QED
    BY <2>1, <2>2
<1> QED
  BY <1>1, <1>2 DEF Todos, Last

\* An update handled: the next command, or none.
LEMMA Advance ==
    ASSUME handler \in [Update -> Handler], NEW k \in Update, NEW h \in Handler,
           h.todo \in Todos, GoesOn(k, h)
    PROVE  /\ handler' = [handler EXCEPT ![k] = handler'[k]]
           /\ handler'[k] \in Handler
           /\ h.todo \in Last => handler'[k] = Idling
           /\ h.todo \notin Last =>
                 /\ handler'[k] # Idling
                 /\ handler'[k].todo = Tail(h.todo)
                 /\ handler'[k].user = h.user /\ handler'[k].request = h.request
                 /\ handler'[k].copy = h.copy /\ handler'[k].text = h.text
                 /\ handler'[k].alone = h.alone
<1>1. Idling \in Handler
  BY DEF Idling, Handler, Purpose
<1>2. CASE h.todo \in Last
  <2>1. Len(h.todo) = 1
    BY <1>2, CommandsLeft DEF Last
  <2>2. handler' = [handler EXCEPT ![k] = Idling]
    BY <2>1 DEF GoesOn
  <2> QED
    BY <1>1, <1>2, <2>2
<1>3. CASE h.todo \notin Last
  <2>1. Len(h.todo) # 1 /\ Tail(h.todo) \in Todos
    BY <1>3, CommandsLeft, Continues DEF Last
  <2>2. handler' = [handler EXCEPT ![k] = [h EXCEPT !.todo = Tail(h.todo)]]
    BY <2>1 DEF GoesOn
  <2>3. handler'[k] = [h EXCEPT !.todo = Tail(h.todo)]
    BY <2>2
  <2>4. /\ [h EXCEPT !.todo = Tail(h.todo)] \in Handler
        /\ [h EXCEPT !.todo = Tail(h.todo)].todo = Tail(h.todo)
        /\ [h EXCEPT !.todo = Tail(h.todo)].user = h.user
        /\ [h EXCEPT !.todo = Tail(h.todo)].request = h.request
        /\ [h EXCEPT !.todo = Tail(h.todo)].copy = h.copy
        /\ [h EXCEPT !.todo = Tail(h.todo)].text = h.text
        /\ [h EXCEPT !.todo = Tail(h.todo)].alone = h.alone
    BY <2>1 DEF Handler
  <2>5. handler'[k] # Idling
    <3>1. Tail(h.todo) # <<>>
      BY <2>1, CommandsLeft
    <3>2. Idling.todo = <<>>
      BY DEF Idling
    <3> QED
      BY <2>3, <2>4, <3>1, <3>2
  <2> QED
    BY <1>3, <2>2, <2>3, <2>4, <2>5
<1> QED
  BY <1>2, <1>3

\* The type invariant without what it says of the handlers, which follows from their ways.
DialogueTyped ==
    /\ open \subseteq Request
    /\ state \in [Sender -> {"none", "entering_prompt", "submitting_secret", "another"}]
    /\ requestId \in [Sender -> Request \cup {NoRequest}]
    /\ pages \subseteq Sender \X Request
    /\ inputs \in Nat /\ failures \in Nat
    /\ meant \in [Sender -> Purpose]
    /\ received \subseteq [text: Purpose, as: Request \cup {"request"}, alone: BOOLEAN]

LEMMA TypesOfHandlers ==
    ASSUME DialogueTyped', handler' \in [Update -> Handler], HandlersInPlace'
    PROVE  AnswerTypeOK'
<1>1. \A j \in Update : Shaped(handler'[j])
  BY DEF HandlersInPlace, Shaped
<1>2. ASSUME NEW j \in Update, AtWork(j, "fulfil")' PROVE handler'[j].request \in Request
  <2>1. handler'[j] # Idling /\ Head(handler'[j].todo) = "fulfil" /\ handler'[j].todo \in Todos
    BY <1>1, <1>2 DEF AtWork, Shaped
  <2>2. handler'[j].todo = Answer4
    BY <2>1, CommandOf
  <2> QED
    BY <1>1, <2>1, <2>2 DEF Shaped, ForRequest
<1>3. \A j \in Update : /\ handler'[j].copy \in Request \cup {NoRequest}
                         /\ handler'[j].text \in Purpose
  BY DEF Handler
<1> QED
  BY <1>2, <1>3 DEF DialogueTyped, AnswerTypeOK

\* One step of handler k of user u, after which it is g: what it must leave behind.
LEMMA OneHandler ==
    ASSUME DialogueInv, NEW k \in Update, handler[k] # Idling, NEW u, u = handler[k].user,
           NEW g \in Handler, handler' = [handler EXCEPT ![k] = g],
           g # Idling => /\ g.todo \in Todos /\ g.user = u /\ g.alone = handler[k].alone
                         /\ g.todo \in ForRequest => g.request \in Request,
           g # Idling /\ g.alone => InPlace(g, state'[u], requestId'[u]),
           \A v \in Sender : v # u => /\ state'[v] = state[v] /\ requestId'[v] = requestId[v]
                                      /\ meant'[v] = meant[v],
           \/ meant'[u] \in {meant[u], "unsure"}
           \/ /\ handler[k].alone /\ g = Idling
              /\ Expects(meant'[u], state'[u], requestId'[u]),
           DialogueTyped', AnswersWhereMeant'
    PROVE  DialogueInv'
<1>1. handler \in [Update -> Handler] /\ handler' \in [Update -> Handler]
  BY DEF DialogueInv
<1>2. handler'[k] = g /\ \A j \in Update : j # k => handler'[j] = handler[j]
  BY <1>1
<1>3. \A j \in Update : Shaped(handler[j])
  BY DEF DialogueInv, HandlersInPlace
<1>4. u \in Sender
  BY <1>3 DEF Shaped
<1>5. HandlersInPlace'
  <2>1. SUFFICES ASSUME NEW j \in Update
                 PROVE  /\ Shaped(handler'[j])
                        /\ handler'[j] # Idling /\ handler'[j].alone =>
                               InPlace(handler'[j], state'[handler'[j].user],
                                       requestId'[handler'[j].user])
    BY DEF HandlersInPlace, Shaped
  <2>2. CASE j = k
    BY <1>2, <1>4, <2>2 DEF Shaped
  <2>3. CASE j # k
    <3>1. handler'[j] = handler[j]
      BY <1>2, <2>3
    <3>2. CASE handler[j] # Idling /\ handler[j].alone
      <4>1. handler[j].user \in Sender /\ handler[j].user # u
        BY <1>3, <2>3, <3>2 DEF Shaped, DialogueInv, AloneAtWork
      <4> QED
        BY <1>3, <3>1, <3>2, <4>1 DEF DialogueInv, HandlersInPlace
    <3> QED
      BY <1>3, <3>1, <3>2
  <2> QED
    BY <2>2, <2>3
<1>6. AloneAtWork'
  BY <1>2 DEF DialogueInv, AloneAtWork
<1>7. MeantStands'
  <2>1. SUFFICES ASSUME NEW v \in Sender, meant'[v] # "unsure"
                 PROVE  BusyFor(v)' = {} /\ Expects(meant'[v], state'[v], requestId'[v])
    BY DEF MeantStands
  <2>2. CASE v = u
    <3>1. k \in BusyFor(u)
      BY DEF BusyFor
    <3>2. meant[u] = "unsure"
      BY <1>4, <3>1 DEF DialogueInv, MeantStands
    <3>3. /\ handler[k].alone /\ g = Idling
          /\ Expects(meant'[u], state'[u], requestId'[u])
      BY <2>1, <2>2, <3>2
    <3>4. BusyFor(u)' = {}
      BY <1>2, <3>3 DEF BusyFor, DialogueInv, AloneAtWork
    <3> QED
      BY <2>2, <3>3, <3>4
  <2>3. CASE v # u
    <3>1. BusyFor(v) = {} /\ Expects(meant[v], state[v], requestId[v])
      BY <2>1, <2>3 DEF DialogueInv, MeantStands
    <3>2. BusyFor(v)' = {}
      BY <1>2, <2>3, <3>1 DEF BusyFor
    <3> QED
      BY <2>3, <3>1, <3>2
  <2> QED
    BY <2>2, <2>3
<1>8. AnswerTypeOK'
  BY <1>1, <1>5, TypesOfHandlers
<1> QED
  BY <1>1, <1>5, <1>6, <1>7, <1>8 DEF DialogueInv

\* What DialogueInv says of a handler that is at a command.
LEMMA AtCommand ==
    ASSUME DialogueInv, NEW k \in Update, NEW op, AtWork(k, op)
    PROVE  /\ handler[k] # Idling /\ handler[k] \in Handler
           /\ handler[k].todo \in Todos /\ Head(handler[k].todo) = op
           /\ handler[k].user \in Sender
           /\ handler[k].todo \in ForRequest => handler[k].request \in Request
           /\ handler[k].alone => InPlace(handler[k], state[handler[k].user],
                                          requestId[handler[k].user])
BY DEF DialogueInv, HandlersInPlace, Shaped, AtWork

LEMMA TypesKept == DialogueInv => DialogueTyped
BY DEF DialogueInv, AnswerTypeOK, DialogueTyped

LEMMA ToStep ==
    ASSUME DialogueInv, NEW k \in Update,
           NEW op, NEW s \in {"none", "entering_prompt", "submitting_secret", "another"},
           <<op, s>> \in {<<"clear_state", "none">>, <<"to_submitting", "submitting_secret">>,
                          <<"to_entering", "entering_prompt">>, <<"to_another", "another">>},
           To(k, op, s)
    PROVE  DialogueInv'
<1> DEFINE h == handler[k]
           u == h.user
           g == handler'[k]
<1>1. AtWork(k, op)
  BY DEF To
<1>2. /\ h # Idling /\ h \in Handler /\ h.todo \in Todos /\ Head(h.todo) = op /\ u \in Sender
      /\ h.todo \in ForRequest => h.request \in Request
  BY <1>1, AtCommand
<1>3. handler \in [Update -> Handler]
  BY DEF DialogueInv
<1>4. \/ h.todo \in {Page3, Home3} /\ s = "none"
      \/ h.todo = Ask4 /\ s = "submitting_secret"
      \/ h.todo = Prompt2 /\ s = "entering_prompt"
      \/ h.todo = Other2 /\ s = "another"
  BY <1>2, CommandOf
<1>5. h.todo \notin Last
  <2>1. op \notin {"page", "home", "ask", "ask_prompt"}
    OBVIOUS
  <2> QED
    BY <1>2, <2>1, LastCommands
<1>6. GoesOn(k, h)
  BY DEF To, Proceeds
<1>7. /\ handler' = [handler EXCEPT ![k] = g] /\ g \in Handler
      /\ g # Idling /\ g.todo = Tail(h.todo) /\ g.user = u /\ g.request = h.request
      /\ g.text = h.text /\ g.alone = h.alone
  BY <1>2, <1>3, <1>5, <1>6, Advance
<1>8. g.todo \in Todos /\ (g.todo \in ForRequest => g.request \in Request)
  <2>1. h.todo # Answer5
    BY <1>4, FirstCommands
  <2> QED
    BY <1>2, <1>5, <1>7, <2>1, Continues
<1>9. /\ state' = [state EXCEPT ![u] = s]
      /\ UNCHANGED <<open, requestId, pages, inputs, failures, meant, received>>
  BY DEF To
<1>10. DialogueTyped
  BY TypesKept
<1>11. state'[u] = s /\ \A v \in Sender : v # u => state'[v] = state[v]
  BY <1>2, <1>9, <1>10 DEF DialogueTyped
<1>12. InPlace(g, state'[u], requestId'[u])
  <2>1. \/ g.todo \in {Page2, Home2} /\ s = "none"
        \/ g.todo = Ask3 /\ s = "submitting_secret"
        \/ g.todo = Prompt1 /\ s = "entering_prompt"
        \/ g.todo = Home1 /\ s = "another"
    BY <1>4, <1>7, RemainingCommands
  <2>2. g.todo \notin {Answer5, Answer4, Create4, Ask1}
    BY <2>1, FirstCommands
  <2>3. g.todo = Prompt1 => s = "entering_prompt"
    BY <2>1, FirstCommands
  <2>4. g.todo \in {Ask3, Ask2, Ask1} => s = "submitting_secret"
    BY <2>1, FirstCommands
  <2>5. g.todo \in {Page2, Page1, Home2, Home1} => s \in {"none", "another"}
    BY <2>1, FirstCommands
  <2> QED
    BY <1>11, <2>2, <2>3, <2>4, <2>5 DEF InPlace
<1>13. DialogueTyped'
  BY <1>2, <1>9, <1>10 DEF DialogueTyped
<1>14. AnswersWhereMeant'
  BY <1>9 DEF DialogueInv, AnswersWhereMeant
<1> HIDE DEF g
<1> QED
  BY <1>2, <1>7, <1>8, <1>9, <1>11, <1>12, <1>13, <1>14, OneHandler

\* A step after which handler k goes on as h: what remains to be shown of it.
LEMMA OnwardStep ==
    ASSUME DialogueInv, NEW k \in Update, NEW op, AtWork(k, op),
           NEW h \in Handler, GoesOn(k, h),
           h.todo = handler[k].todo, h.user = handler[k].user, h.alone = handler[k].alone,
           h.todo \notin Last /\ Tail(h.todo) \in ForRequest => h.request \in Request,
           \A g \in Handler :
               /\ h.todo \notin Last /\ h.alone
               /\ g.todo = Tail(h.todo) /\ g.text = h.text /\ g.request = h.request
               => InPlace(g, state'[h.user], requestId'[h.user]),
           \A v \in Sender : v # h.user => /\ state'[v] = state[v] /\ requestId'[v] = requestId[v]
                                           /\ meant'[v] = meant[v],
           \/ meant'[h.user] \in {meant[h.user], "unsure"}
           \/ /\ h.alone /\ h.todo \in Last
              /\ Expects(meant'[h.user], state'[h.user], requestId'[h.user]),
           DialogueTyped', AnswersWhereMeant'
    PROVE  DialogueInv'
<1> DEFINE g == handler'[k]
<1>1. handler[k] # Idling /\ h.todo \in Todos
  BY AtCommand
<1>2. handler \in [Update -> Handler]
  BY DEF DialogueInv
<1>3. /\ handler' = [handler EXCEPT ![k] = g] /\ g \in Handler
      /\ h.todo \in Last => g = Idling
      /\ h.todo \notin Last =>
             /\ g # Idling /\ g.todo = Tail(h.todo) /\ g.user = h.user
             /\ g.request = h.request /\ g.text = h.text /\ g.alone = h.alone
  BY <1>1, <1>2, Advance
<1>4. h.todo \notin Last => Tail(h.todo) \in Todos
  BY <1>1, Continues
<1> HIDE DEF g
<1>5. g # Idling => /\ g.todo \in Todos /\ g.user = h.user /\ g.alone = handler[k].alone
                    /\ g.todo \in ForRequest => g.request \in Request
  BY <1>3, <1>4
<1>6. g # Idling /\ g.alone => InPlace(g, state'[h.user], requestId'[h.user])
  BY <1>3
<1>7. \/ meant'[h.user] \in {meant[h.user], "unsure"}
      \/ /\ handler[k].alone /\ g = Idling
         /\ Expects(meant'[h.user], state'[h.user], requestId'[h.user])
  BY <1>3
<1> QED
  BY <1>1, <1>3, <1>5, <1>6, <1>7, OneHandler

\* Nothing but the draft, the page, the look at the request or the copy changes.
LEMMA ClearDraftStep ==
    ASSUME DialogueInv, NEW k \in Update, ClearDraft(k)
    PROVE  DialogueInv'
<1> DEFINE h == handler[k]
<1>1. AtWork(k, "clear_data") /\ GoesOn(k, h)
  BY DEF ClearDraft, Proceeds
<1>2. h \in Handler /\ h.todo \in {Page2, Home2} /\ h.user \in Sender
      /\ (h.todo \in ForRequest => h.request \in Request)
      /\ (h.alone => InPlace(h, state[h.user], requestId[h.user]))
  BY <1>1, AtCommand, CommandOf
<1>3. /\ requestId' = [requestId EXCEPT ![h.user] = NoRequest]
      /\ UNCHANGED <<open, state, pages, inputs, failures, meant, received>>
  BY DEF ClearDraft
<1>4. DialogueTyped
  BY TypesKept
<1>5. Tail(h.todo) \in {Page1, Home1} /\ (Tail(h.todo) = Page1 => h.todo = Page2)
  BY <1>2, RemainingCommands, FirstCommands
<1>6. Tail(h.todo) \in ForRequest => h.request \in Request
  <2>1. Home1 \notin ForRequest
    BY FirstCommands DEF ForRequest
  <2> QED
    BY <1>2, <1>5, <2>1 DEF ForRequest
<1>7. ASSUME NEW g \in Handler, h.alone, g.todo = Tail(h.todo)
      PROVE  InPlace(g, state'[h.user], requestId'[h.user])
  <2>1. state[h.user] \notin {"entering_prompt", "submitting_secret"}
    BY <1>2, <1>7 DEF InPlace
  <2>2. g.todo \notin {Ask3, Ask2, Ask1, Prompt1, Answer5, Answer4, Create4}
    BY <1>5, <1>7, FirstCommands
  <2> QED
    BY <1>3, <2>1, <2>2 DEF InPlace
<1>8. \A v \in Sender : v # h.user => requestId'[v] = requestId[v]
  BY <1>3, <1>4 DEF DialogueTyped
<1>9. DialogueTyped'
  BY <1>3, <1>4 DEF DialogueTyped
<1>10. AnswersWhereMeant'
  BY <1>3 DEF DialogueInv, AnswersWhereMeant
<1>11. meant'[h.user] \in {meant[h.user], "unsure"}
  BY <1>3
<1> QED
  BY <1>1, <1>2, <1>3, <1>6, <1>7, <1>8, <1>9, <1>10, <1>11, OnwardStep

LEMMA ToldMeant ==
    ASSUME DialogueTyped, NEW k \in Update, NEW what \in Purpose, Told(k, what),
           handler[k].user \in Sender
    PROVE  /\ meant' \in [Sender -> Purpose]
           /\ meant'[handler[k].user] = IF handler[k].alone THEN what ELSE "unsure"
           /\ \A v \in Sender : v # handler[k].user => meant'[v] = meant[v]
BY DEF DialogueTyped, Told, Purpose

\* The last command of a handler: its user is told what the next message will be.
LEMMA ToldStep ==
    ASSUME DialogueInv, NEW k \in Update, NEW op, AtWork(k, op), Proceeds(k),
           handler[k].todo \in Last, NEW what \in Purpose, Told(k, what),
           handler[k].alone => Expects(what, state[handler[k].user], requestId[handler[k].user]),
           pages' \subseteq Sender \X Request,
           UNCHANGED <<open, state, requestId, inputs, failures, received>>
    PROVE  DialogueInv'
<1> DEFINE h == handler[k]
<1>1. h \in Handler /\ h.user \in Sender
  BY AtCommand
<1>2. DialogueTyped
  BY TypesKept
<1>3. /\ meant' \in [Sender -> Purpose]
      /\ meant'[h.user] = IF h.alone THEN what ELSE "unsure"
      /\ \A v \in Sender : v # h.user => meant'[v] = meant[v]
  BY <1>1, <1>2, ToldMeant
<1>4. DialogueTyped'
  BY <1>2, <1>3 DEF DialogueTyped
<1>5. AnswersWhereMeant'
  BY DEF DialogueInv, AnswersWhereMeant
<1>6. GoesOn(k, h)
  BY DEF Proceeds
<1>7. \/ meant'[h.user] \in {meant[h.user], "unsure"}
      \/ /\ h.alone /\ h.todo \in Last
         /\ Expects(meant'[h.user], state'[h.user], requestId'[h.user])
  BY <1>3
<1> QED
  BY <1>1, <1>3, <1>4, <1>5, <1>6, <1>7, OnwardStep

LEMMA PageStep ==
    ASSUME DialogueInv, NEW k \in Update, Page(k)
    PROVE  DialogueInv'
<1> DEFINE h == handler[k]
<1>1. AtWork(k, "page") /\ Proceeds(k) /\ Told(k, "other")
      /\ UNCHANGED <<open, state, requestId, inputs, failures, received>>
  BY DEF Page
<1>2. /\ h.todo = Page1 /\ h.user \in Sender
      /\ h.alone => InPlace(h, state[h.user], requestId[h.user])
      /\ h.todo \in ForRequest => h.request \in Request
  BY <1>1, AtCommand, CommandOf
<1>3. h.request \in Request
  BY <1>2 DEF ForRequest
<1>4. pages' \subseteq Sender \X Request
  BY <1>2, <1>3 DEF Page, DialogueInv, AnswerTypeOK
<1>5. "other" \in Purpose /\ "other" \notin Request
  BY AnswerAssumption DEF Purpose
<1>6. h.alone => Expects("other", state[h.user], requestId[h.user])
  BY <1>2, <1>5 DEF InPlace, Expects
<1> QED
  BY <1>1, <1>2, <1>4, <1>5, <1>6, ToldStep DEF Last

LEMMA AskStep ==
    ASSUME DialogueInv, NEW k \in Update, Ask(k)
    PROVE  DialogueInv'
<1> DEFINE h == handler[k]
<1>1. Proceeds(k) /\ UNCHANGED <<open, state, requestId, pages, inputs, failures, received>>
  BY DEF Ask
<1>2. pages' \subseteq Sender \X Request
  BY <1>1 DEF DialogueInv, AnswerTypeOK
<1>3. CASE AtWork(k, "ask") /\ Told(k, h.request)
  <2>1. /\ h.todo = Ask1
        /\ h.alone => InPlace(h, state[h.user], requestId[h.user])
        /\ h.todo \in ForRequest => h.request \in Request
    BY <1>3, AtCommand, CommandOf
  <2>2. h.request \in Request /\ h.request \in Purpose /\ h.request \notin {"request", "other"}
    BY <2>1, AnswerAssumption DEF ForRequest, Purpose
  <2>3. h.alone => Expects(h.request, state[h.user], requestId[h.user])
    BY <2>1, <2>2 DEF InPlace, Expects
  <2> QED
    BY <1>1, <1>2, <1>3, <2>1, <2>2, <2>3, ToldStep DEF Last
<1>4. CASE AtWork(k, "ask_prompt") /\ Told(k, "request")
  <2>1. h.todo = Prompt1 /\ (h.alone => InPlace(h, state[h.user], requestId[h.user]))
    BY <1>4, AtCommand, CommandOf
  <2>2. "request" \in Purpose /\ "request" \notin Request
    BY AnswerAssumption DEF Purpose
  <2>3. h.alone => Expects("request", state[h.user], requestId[h.user])
    BY <2>1, <2>2 DEF InPlace, Expects
  <2> QED
    BY <1>1, <1>2, <1>4, <2>1, <2>2, <2>3, ToldStep DEF Last
<1>5. CASE AtWork(k, "home") /\ Told(k, "other")
  <2>1. h.todo = Home1 /\ (h.alone => InPlace(h, state[h.user], requestId[h.user]))
    BY <1>5, AtCommand, CommandOf
  <2>2. "other" \in Purpose /\ "other" \notin Request
    BY AnswerAssumption DEF Purpose
  <2>3. h.alone => Expects("other", state[h.user], requestId[h.user])
    BY <2>1, <2>2 DEF InPlace, Expects
  <2> QED
    BY <1>1, <1>2, <1>5, <2>1, <2>2, <2>3, ToldStep DEF Last
<1> QED
  BY <1>3, <1>4, <1>5 DEF Ask

\* A handler that ends early.
LEMMA EndStep ==
    ASSUME DialogueInv, NEW k \in Update, handler[k] # Idling, Returns(k), failures' \in Nat,
           UNCHANGED <<open, state, requestId, pages, inputs, meant, received>>
    PROVE  DialogueInv'
<1>1. Idling \in Handler
  BY DEF Idling, Handler, Purpose
<1>2. DialogueTyped'
  BY TypesKept DEF DialogueTyped
<1>3. AnswersWhereMeant'
  BY DEF DialogueInv, AnswersWhereMeant
<1>4. handler' = [handler EXCEPT ![k] = Idling]
  BY DEF Returns
<1> QED
  BY <1>1, <1>2, <1>3, <1>4, OneHandler

LEMMA LookStep ==
    ASSUME DialogueInv, NEW k \in Update, Look(k)
    PROVE  DialogueInv'
<1> DEFINE h == handler[k]
<1>1. AtWork(k, "look") /\ UNCHANGED <<open, state, requestId, pages, inputs, failures, meant, received>>
  BY DEF Look
<1>2. h \in Handler /\ h # Idling /\ h.todo = Ask5 /\ h.user \in Sender
      /\ (h.todo \in ForRequest => h.request \in Request)
  BY <1>1, AtCommand, CommandOf
<1>3. CASE h.request \in open
  <2>1. GoesOn(k, h)
    BY <1>3 DEF Look, Proceeds
  <2>2. h.request \in Request
    BY <1>2 DEF ForRequest
  <2>3. ASSUME NEW g \in Handler, g.todo = Tail(h.todo)
        PROVE  InPlace(g, state'[h.user], requestId'[h.user])
    <3>1. g.todo = Ask4
      BY <1>2, <2>3, RemainingCommands
    <3> QED
      BY <3>1, FirstCommands DEF InPlace
  <2>4. DialogueTyped'
    BY <1>1, TypesKept DEF DialogueTyped
  <2>5. AnswersWhereMeant'
    BY <1>1 DEF DialogueInv, AnswersWhereMeant
  <2>6. meant'[h.user] \in {meant[h.user], "unsure"}
    BY <1>1
  <2> QED
    BY <1>1, <1>2, <2>1, <2>2, <2>3, <2>4, <2>5, <2>6, OnwardStep
<1>4. CASE h.request \notin open
  <2>1. Returns(k)
    BY <1>4 DEF Look
  <2>2. failures' \in Nat
    BY <1>1, TypesKept DEF DialogueTyped
  <2> QED
    BY <1>1, <1>2, <2>1, <2>2, EndStep
<1> QED
  BY <1>3, <1>4

LEMMA FetchStep ==
    ASSUME DialogueInv, NEW k \in Update, Fetch(k)
    PROVE  DialogueInv'
<1> DEFINE h == [handler[k] EXCEPT !.copy = requestId[handler[k].user]]
<1>1. /\ AtWork(k, "fetch") /\ GoesOn(k, h)
      /\ UNCHANGED <<open, state, requestId, pages, inputs, failures, meant, received>>
  BY DEF Fetch
<1>2. /\ handler[k] \in Handler /\ handler[k].todo \in {Ask3, Other4} /\ handler[k].user \in Sender
      /\ handler[k].todo \in ForRequest => handler[k].request \in Request
      /\ handler[k].alone => InPlace(handler[k], state[handler[k].user], requestId[handler[k].user])
  BY <1>1, AtCommand, CommandOf
<1>3. requestId[handler[k].user] \in Request \cup {NoRequest}
  BY <1>2, TypesKept DEF DialogueTyped
<1>4. /\ h \in Handler /\ h.todo = handler[k].todo /\ h.user = handler[k].user
      /\ h.alone = handler[k].alone /\ h.request = handler[k].request
  BY <1>2, <1>3 DEF Handler
<1> HIDE DEF h
<1>5. \/ h.todo = Ask3 /\ Tail(h.todo) = Ask2
      \/ h.todo = Other4 /\ Tail(h.todo) = Other3
  BY <1>2, <1>4, RemainingCommands
<1>6. Tail(h.todo) \in ForRequest => h.request \in Request
  <2>1. Other3 \notin ForRequest
    BY FirstCommands, RemainingCommands DEF ForRequest
  <2> QED
    BY <1>2, <1>4, <1>5, <2>1 DEF ForRequest
<1>7. ASSUME NEW g \in Handler, h.alone, g.todo = Tail(h.todo)
      PROVE  InPlace(g, state'[h.user], requestId'[h.user])
  <2>1. CASE h.todo = Ask3
    <3>1. state[h.user] = "submitting_secret"
      BY <1>2, <1>4, <1>7, <2>1 DEF InPlace
    <3>2. g.todo = Ask2
      BY <1>7, <2>1, RemainingCommands
    <3>3. g.todo \notin {Page2, Page1, Home2, Home1, Ask1, Prompt1, Answer5, Answer4, Create4}
      BY <3>2, FirstCommands
    <3> QED
      BY <1>1, <3>1, <3>3 DEF InPlace
  <2>2. CASE h.todo = Other4
    <3>1. g.todo = Other3
      BY <1>7, <2>2, RemainingCommands
    <3>2. Other3 # Ask2
      BY RemainingCommands, FirstCommands
    <3>3. g.todo \notin {Page2, Page1, Home2, Home1, Ask3, Ask2, Ask1, Prompt1, Answer5, Answer4, Create4}
      BY <3>1, <3>2, FirstCommands
    <3> QED
      BY <3>3 DEF InPlace
  <2> QED
    BY <1>5, <2>1, <2>2
<1>8. DialogueTyped'
  BY <1>1, TypesKept DEF DialogueTyped
<1>9. AnswersWhereMeant'
  BY <1>1 DEF DialogueInv, AnswersWhereMeant
<1>10. meant'[h.user] \in {meant[h.user], "unsure"}
  BY <1>1
<1> QED
  BY <1>1, <1>4, <1>6, <1>7, <1>8, <1>9, <1>10, OnwardStep

LEMMA PutStep ==
    ASSUME DialogueInv, NEW k \in Update, Put(k)
    PROVE  DialogueInv'
<1> DEFINE h0 == handler[k]
           h == [handler[k] EXCEPT !.copy = NoRequest]
<1>1. /\ AtWork(k, "put") /\ GoesOn(k, h)
      /\ requestId' = [requestId EXCEPT ![h0.user] = Merged(h0)]
      /\ UNCHANGED <<open, state, pages, inputs, failures, meant, received>>
  BY DEF Put
<1>2. /\ h0 \in Handler /\ h0.todo \in {Ask2, Other3} /\ h0.user \in Sender
      /\ h0.todo \in ForRequest => h0.request \in Request
      /\ h0.alone => InPlace(h0, state[h0.user], requestId[h0.user])
  BY <1>1, AtCommand, CommandOf
<1>3. Merged(h0) \in Request \cup {NoRequest}
  BY <1>2 DEF Merged, Handler
<1>4. /\ h \in Handler /\ h.todo = h0.todo /\ h.user = h0.user
      /\ h.alone = h0.alone /\ h.request = h0.request
  BY <1>2 DEF Handler
<1> HIDE DEF h, h0
<1>5. \/ h.todo = Ask2 /\ Tail(h.todo) = Ask1
      \/ h.todo = Other3 /\ Tail(h.todo) = Other2
  BY <1>2, <1>4, RemainingCommands
<1>6. Tail(h.todo) \in ForRequest => h.request \in Request
  <2>1. Other2 \notin ForRequest
    BY FirstCommands DEF ForRequest
  <2> QED
    BY <1>2, <1>4, <1>5, <2>1 DEF ForRequest
<1>7. DialogueTyped
  BY TypesKept
<1>8. /\ requestId'[h.user] = Merged(h0)
      /\ \A v \in Sender : v # h.user => requestId'[v] = requestId[v]
  BY <1>1, <1>2, <1>4, <1>7 DEF DialogueTyped
<1>9. ASSUME NEW g \in Handler, h.alone, g.todo = Tail(h.todo), g.request = h.request
      PROVE  InPlace(g, state'[h.user], requestId'[h.user])
  <2>1. CASE h.todo = Ask2
    <3>1. state[h.user] = "submitting_secret" /\ h.request \in Request
      BY <1>2, <1>4, <1>9, <2>1 DEF InPlace, ForRequest
    <3>2. requestId'[h.user] = g.request
      BY <1>4, <1>8, <1>9, <3>1, AnswerAssumption DEF Merged
    <3>3. g.todo = Ask1
      BY <1>9, <2>1, RemainingCommands
    <3>4. g.todo \notin {Page2, Page1, Home2, Home1, Prompt1, Answer5, Answer4, Create4}
      BY <3>3, FirstCommands
    <3> QED
      BY <1>1, <3>1, <3>2, <3>4 DEF InPlace
  <2>2. CASE h.todo = Other3
    <3>1. g.todo = Other2
      BY <1>9, <2>2, RemainingCommands
    <3>2. g.todo \notin {Page2, Page1, Home2, Home1, Ask3, Ask2, Ask1, Prompt1, Answer5, Answer4, Create4}
      BY <3>1, FirstCommands
    <3> QED
      BY <3>2 DEF InPlace
  <2> QED
    BY <1>5, <2>1, <2>2
<1>10. DialogueTyped'
  BY <1>1, <1>3, <1>7 DEF DialogueTyped
<1>11. AnswersWhereMeant'
  BY <1>1 DEF DialogueInv, AnswersWhereMeant
<1>12. meant'[h.user] \in {meant[h.user], "unsure"}
  BY <1>1
<1>13. h.todo = handler[k].todo /\ h.user = handler[k].user /\ h.alone = handler[k].alone
  BY <1>4 DEF h0
<1> QED
  BY <1>1, <1>4, <1>6, <1>8, <1>9, <1>10, <1>11, <1>12, <1>13, OnwardStep

LEMMA WhichStep ==
    ASSUME DialogueInv, NEW k \in Update, Which(k)
    PROVE  DialogueInv'
<1> DEFINE h0 == handler[k]
           r == requestId[h0.user]
           h == [h0 EXCEPT !.request = r]
<1>1. /\ AtWork(k, "which")
      /\ UNCHANGED <<open, state, requestId, pages, inputs, failures, meant, received>>
  BY DEF Which
<1>2. /\ h0 # Idling /\ h0 \in Handler /\ h0.todo = Answer5 /\ h0.user \in Sender
      /\ h0.alone => InPlace(h0, state[h0.user], requestId[h0.user])
  BY <1>1, AtCommand, CommandOf
<1>3. DialogueTyped
  BY TypesKept
<1>4. CASE r = NoRequest
  <2>1. Returns(k)
    BY <1>4 DEF Which
  <2>2. failures' \in Nat
    BY <1>1, <1>3 DEF DialogueTyped
  <2> QED
    BY <1>1, <1>2, <2>1, <2>2, EndStep
<1>5. CASE r # NoRequest
  <2>1. GoesOn(k, h)
    BY <1>5 DEF Which
  <2>2. r \in Request
    BY <1>2, <1>3, <1>5 DEF DialogueTyped
  <2>3. /\ h \in Handler /\ h.todo = h0.todo /\ h.user = h0.user /\ h.alone = h0.alone
        /\ h.request = r /\ h.text = h0.text
    BY <1>2, <2>2 DEF Handler
  <2> HIDE DEF h
  <2>4. ASSUME NEW g \in Handler, h.alone, g.todo = Tail(h.todo), g.text = h.text,
               g.request = h.request
        PROVE  InPlace(g, state'[h.user], requestId'[h.user])
    <3>1. g.todo = Answer4
      BY <1>2, <2>3, <2>4, RemainingCommands
    <3>2. h0.text = "unsure" \/ h0.text = r
      BY <1>2, <2>3, <2>4 DEF InPlace
    <3>3. g.todo \notin {Page2, Page1, Home2, Home1, Ask3, Ask2, Ask1, Prompt1, Answer5, Create4}
      BY <3>1, FirstCommands
    <3> QED
      BY <2>3, <2>4, <3>2, <3>3 DEF InPlace
  <2>5. DialogueTyped'
    BY <1>1, <1>3 DEF DialogueTyped
  <2>6. AnswersWhereMeant'
    BY <1>1 DEF DialogueInv, AnswersWhereMeant
  <2>7. meant'[h.user] \in {meant[h.user], "unsure"}
    BY <1>1
  <2> QED
    BY <1>1, <2>1, <2>2, <2>3, <2>4, <2>5, <2>6, <2>7, OnwardStep
<1> QED
  BY <1>4, <1>5

\* What a message became is recorded as its handler is: an answer or a new request.
LEMMA ReceivesStep ==
    ASSUME DialogueInv, NEW k \in Update, NEW op, AtWork(k, op), Proceeds(k),
           handler[k].todo \in {Answer4, Create4},
           NEW as \in Request \cup {"request"},
           UNCHANGED received \/ Receives(handler[k], as),
           handler[k].alone => handler[k].text \in {"unsure", as},
           open' \subseteq Request,
           UNCHANGED <<state, requestId, pages, inputs, failures, meant>>
    PROVE  DialogueInv'
<1> DEFINE h == handler[k]
<1>1. h \in Handler /\ h.todo \in Todos
  BY AtCommand
<1>2. GoesOn(k, h)
  BY DEF Proceeds
<1>3. Tail(h.todo) = Home3
  BY RemainingCommands
<1>4. Home3 \notin ForRequest
  BY FirstCommands, RemainingCommands DEF ForRequest
<1>5. ASSUME NEW g \in Handler, g.todo = Tail(h.todo)
      PROVE  InPlace(g, state'[h.user], requestId'[h.user])
  <2>1. Home3 \notin {Page2, Page1, Home2, Home1, Ask3, Ask2, Ask1, Prompt1, Answer5, Answer4, Create4}
    BY FirstCommands
  <2> QED
    BY <1>3, <1>5, <2>1 DEF InPlace
<1>6. [text |-> h.text, as |-> as, alone |-> h.alone]
          \in [text: Purpose, as: Request \cup {"request"}, alone: BOOLEAN]
  BY <1>1 DEF Handler
<1>7. DialogueTyped'
  <2>1. received \subseteq [text: Purpose, as: Request \cup {"request"}, alone: BOOLEAN]
    BY TypesKept DEF DialogueTyped
  <2>2. received' \subseteq [text: Purpose, as: Request \cup {"request"}, alone: BOOLEAN]
    BY <1>6, <2>1 DEF Receives
  <2> QED
    BY <2>2, TypesKept DEF DialogueTyped
<1>8. AnswersWhereMeant'
  <2> DEFINE new == [text |-> h.text, as |-> as, alone |-> h.alone]
  <2>1. SUFFICES ASSUME NEW m \in received', m.alone, m.text # "unsure" PROVE m.as = m.text
    BY DEF AnswersWhereMeant
  <2>2. CASE m \in received
    BY <2>1, <2>2 DEF DialogueInv, AnswersWhereMeant
  <2>3. CASE m = new
    <3>1. m.text = h.text /\ m.as = as /\ m.alone = h.alone
      BY <2>3
    <3> QED
      BY <2>1, <3>1
  <2>4. received' = received \/ received' = received \cup {new}
    BY DEF Receives
  <2> HIDE DEF new
  <2> QED
    BY <2>1, <2>2, <2>3, <2>4
<1>9. meant'[h.user] \in {meant[h.user], "unsure"}
  OBVIOUS
<1> QED
  BY <1>1, <1>2, <1>3, <1>4, <1>5, <1>7, <1>8, <1>9, OnwardStep

LEMMA FulfilStep ==
    ASSUME DialogueInv, NEW k \in Update, Fulfil(k)
    PROVE  DialogueInv'
<1> DEFINE h == handler[k]
<1>1. AtWork(k, "fulfil") /\ Proceeds(k)
      /\ UNCHANGED <<state, requestId, pages, inputs, failures, meant>>
  BY DEF Fulfil
<1>2. /\ h.todo = Answer4 /\ (h.todo \in ForRequest => h.request \in Request)
      /\ h.alone => InPlace(h, state[h.user], requestId[h.user])
  BY <1>1, AtCommand, CommandOf
<1>3. h.request \in Request /\ (h.alone => h.text \in {"unsure", h.request})
  BY <1>2 DEF ForRequest, InPlace
<1>4. UNCHANGED received \/ Receives(h, h.request)
  BY DEF Fulfil
<1>5. open' \subseteq Request
  BY DEF Fulfil, DialogueInv, AnswerTypeOK
<1> QED
  BY <1>1, <1>2, <1>3, <1>4, <1>5, ReceivesStep

LEMMA CreateStep ==
    ASSUME DialogueInv, NEW k \in Update, CreateRequest(k)
    PROVE  DialogueInv'
<1> DEFINE h == handler[k]
<1>1. AtWork(k, "create") /\ Proceeds(k) /\ Receives(h, "request")
      /\ UNCHANGED <<open, state, requestId, pages, inputs, failures, meant>>
  BY DEF CreateRequest
<1>2. h.todo = Create4 /\ (h.alone => InPlace(h, state[h.user], requestId[h.user]))
  BY <1>1, AtCommand, CommandOf
<1>3. h.alone => h.text \in {"unsure", "request"}
  BY <1>2 DEF InPlace
<1>4. open' \subseteq Request
  BY <1>1 DEF DialogueInv, AnswerTypeOK
<1> QED
  BY <1>1, <1>2, <1>3, <1>4, ReceivesStep

LEMMA HandleStep ==
    ASSUME DialogueInv, NEW k \in Update, Handle(k)
    PROVE  DialogueInv'
<1>1. CASE SetState(k)
  BY <1>1, ToStep DEF SetState
<1>2. CASE AnswerFails(k)
  <2>1. failures' \in Nat
    BY <1>2 DEF AnswerFails, Failed, DialogueInv, AnswerTypeOK
  <2> QED
    BY <1>2, <2>1, EndStep DEF AnswerFails
<1> QED
  BY <1>1, <1>2, ClearDraftStep, PageStep, AskStep, LookStep, FetchStep, PutStep, WhichStep,
     FulfilStep, CreateStep DEF Handle

-----------------------------------------------------------------------------
(* Buttons and messages *)

\* A button or a message whose handler, if it is alone, starts where its user is.
LEMMA IncomingStep ==
    ASSUME DialogueInv, NEW k \in Update, NEW u \in Sender, NEW r \in Request \cup {NoRequest},
           NEW text \in Purpose, NEW todo \in Todos, Incoming(k, u, r, text, todo),
           todo \in ForRequest => r \in Request,
           \A g \in Handler :
               g.todo = todo /\ g.text = text /\ BusyFor(u) = {} =>
                   InPlace(g, state[u], requestId[u])
    PROVE  DialogueInv'
<1> DEFINE new == [todo |-> todo, user |-> u, request |-> r, copy |-> NoRequest,
                   text |-> text, alone |-> BusyFor(u) = {}]
<1>1. /\ handler[k] = Idling /\ inputs' = inputs + 1
      /\ handler' = [j \in Update |->
             IF j = k THEN new
             ELSE IF j \in BusyFor(u) THEN [handler[j] EXCEPT !.alone = FALSE] ELSE handler[j]]
      /\ meant' = [meant EXCEPT ![u] = "unsure"]
      /\ UNCHANGED <<open, state, requestId, pages, failures, received>>
  BY DEF Incoming
<1>2. new \in Handler /\ new # Idling
  <2>1. new \in Handler
    BY DEF Handler
  <2>2. new.todo # <<>> /\ Idling.todo = <<>>
    BY CommandsLeft DEF Idling
  <2> QED
    BY <2>1, <2>2
<1>3. /\ new.todo = todo /\ new.user = u /\ new.request = r /\ new.text = text
      /\ new.alone = (BusyFor(u) = {})
  OBVIOUS
<1> HIDE DEF new
<1>4. handler \in [Update -> Handler]
  BY DEF DialogueInv
<1>5. handler'[k] = new
  BY <1>1
<1>6. ASSUME NEW j \in BusyFor(u)
      PROVE  /\ j \in Update /\ j # k /\ handler[j] # Idling /\ handler[j].user = u
             /\ handler'[j] \in Handler /\ handler'[j] # Idling
             /\ handler'[j].todo = handler[j].todo /\ handler'[j].user = u
             /\ handler'[j].request = handler[j].request
             /\ handler'[j].alone = FALSE
  <2>1. j \in Update /\ j # k /\ handler[j] # Idling /\ handler[j].user = u
    BY <1>1, <1>6 DEF BusyFor
  <2>2. handler'[j] = [handler[j] EXCEPT !.alone = FALSE]
    BY <1>1, <1>6, <2>1
  <2>3. handler[j] \in Handler /\ handler[j].todo \in Todos
    BY <1>4, <2>1 DEF DialogueInv, HandlersInPlace, Shaped
  <2>4. /\ handler'[j] \in Handler /\ handler'[j].todo = handler[j].todo
        /\ handler'[j].user = handler[j].user /\ handler'[j].request = handler[j].request
        /\ handler'[j].alone = FALSE
    BY <2>2, <2>3 DEF Handler
  <2>5. handler'[j] # Idling
    BY <2>3, <2>4, CommandsLeft DEF Idling
  <2> QED
    BY <2>1, <2>4, <2>5
<1>7. \A j \in Update : j # k /\ j \notin BusyFor(u) => handler'[j] = handler[j]
  BY <1>1
<1>8. handler' \in [Update -> Handler]
  <2>1. \A j \in Update : handler'[j] \in Handler
    BY <1>2, <1>4, <1>5, <1>6, <1>7
  <2> QED
    BY <1>1, <2>1
<1>9. HandlersInPlace'
  <2>1. SUFFICES ASSUME NEW j \in Update
                 PROVE  /\ Shaped(handler'[j])
                        /\ handler'[j] # Idling /\ handler'[j].alone =>
                               InPlace(handler'[j], state[handler'[j].user],
                                       requestId[handler'[j].user])
    BY <1>1 DEF HandlersInPlace, Shaped
  <2>2. CASE j = k
    BY <1>2, <1>3, <1>5, <2>2 DEF Shaped
  <2>3. CASE j \in BusyFor(u)
    BY <1>6, <2>3 DEF DialogueInv, HandlersInPlace, Shaped
  <2>4. CASE j # k /\ j \notin BusyFor(u)
    BY <1>7, <2>4 DEF DialogueInv, HandlersInPlace
  <2> QED
    BY <2>2, <2>3, <2>4
<1>10. \A j \in Update : handler[j] # Idling /\ handler[j].user = u <=> j \in BusyFor(u)
  BY DEF BusyFor
<1>11. AloneAtWork'
  <2>1. SUFFICES ASSUME NEW i \in Update, NEW j \in Update,
                        handler'[i] # Idling, handler'[j] # Idling,
                        handler'[i].user = handler'[j].user, handler'[i].alone, i # j
                 PROVE  FALSE
    BY DEF AloneAtWork, Idling
  <2>2. CASE i = k
    BY <1>3, <1>5, <1>7, <1>10, <2>1, <2>2
  <2>3. CASE j = k
    BY <1>3, <1>5, <1>6, <1>7, <1>10, <2>1, <2>3
  <2>4. CASE i # k /\ j # k
    <3>1. i \notin BusyFor(u) /\ handler'[i] = handler[i]
      BY <1>6, <1>7, <2>1, <2>4
    <3>2. handler[i].user # u
      BY <1>10, <2>1, <3>1
    <3>3. j \notin BusyFor(u)
      BY <1>6, <2>1, <3>1, <3>2
    <3> QED
      BY <1>7, <2>1, <2>4, <3>1, <3>3 DEF DialogueInv, AloneAtWork
  <2> QED
    BY <2>2, <2>3, <2>4
<1>12. meant' \in [Sender -> Purpose] /\ meant'[u] = "unsure"
       /\ \A v \in Sender : v # u => meant'[v] = meant[v]
  BY <1>1, TypesKept DEF DialogueTyped, Purpose
<1>13. MeantStands'
  <2>1. SUFFICES ASSUME NEW v \in Sender, meant'[v] # "unsure"
                 PROVE  BusyFor(v)' = {} /\ Expects(meant'[v], state[v], requestId[v])
    BY <1>1 DEF MeantStands
  <2>2. v # u /\ BusyFor(v) = {} /\ Expects(meant[v], state[v], requestId[v])
    BY <1>12, <2>1 DEF DialogueInv, MeantStands
  <2>3. BusyFor(v)' = {}
    <3>1. SUFFICES ASSUME NEW j \in Update, handler'[j] # Idling, handler'[j].user = v PROVE FALSE
      BY DEF BusyFor, Idling
    <3>2. j # k /\ j \notin BusyFor(u)
      BY <1>3, <1>5, <1>6, <2>2, <3>1
    <3> QED
      BY <1>7, <2>2, <3>1, <3>2 DEF BusyFor
  <2> QED
    BY <1>12, <2>2, <2>3
<1>14. DialogueTyped'
  BY <1>1, <1>12, TypesKept DEF DialogueTyped
<1>15. AnswersWhereMeant'
  BY <1>1 DEF DialogueInv, AnswersWhereMeant
<1> QED
  BY <1>8, <1>9, <1>11, <1>13, <1>14, <1>15, TypesOfHandlers DEF DialogueInv

\* Ways that begin without a condition on the draft.
LEMMA FreshWays ==
    ASSUME NEW t \in {Page3, Home3, Ask5, Prompt2, Other4}
    PROVE  /\ t \in Todos
           /\ \A g : g.todo = t => \A st, rid : InPlace(g, st, rid)
<1>1. t \in Todos
  BY DEF Todos
<1>2. t \notin {Page2, Page1, Home2, Home1, Ask3, Ask2, Ask1, Prompt1, Answer5, Answer4, Create4}
  <2>1. Head(t) \in {"clear_state", "look", "to_entering", "fetch"}
    BY FirstCommands
  <2>2. t # Ask3
    <3>1. Head(Tail(Ask3)) = "put" /\ Head(Tail(Tail(Ask3))) = "ask"
      BY FirstCommands, RemainingCommands
    <3>2. Head(Tail(Tail(Other4))) = "to_another"
      BY FirstCommands, RemainingCommands
    <3> QED
      BY <3>1, <3>2, FirstCommands
  <2> QED
    BY <2>1, <2>2, FirstCommands
<1> QED
  BY <1>1, <1>2 DEF InPlace

\* Concatenations of short sequences, element by element: how ClearAll is joined
\* to what a handler does before and after it.
LEMMA TwoAndOne ==
    ASSUME NEW a, NEW b, NEW c
    PROVE  <<a, b>> \o <<c>> = <<a, b, c>>
<1> DEFINE S == {a, b, c}
<1>1. <<a, b>> \in Seq(S) /\ <<c>> \in Seq(S) /\ <<a, b, c>> \in Seq(S)
  OBVIOUS
<1>2. Len(<<a, b>>) = 2 /\ Len(<<c>>) = 1 /\ Len(<<a, b, c>>) = 3
  OBVIOUS
<1>3. /\ <<a, b>> \o <<c>> \in Seq(S)
      /\ Len(<<a, b>> \o <<c>>) = 3
      /\ \A i \in 1..3 :
             (<<a, b>> \o <<c>>)[i] = IF i <= 2 THEN <<a, b>>[i] ELSE <<c>>[i - 2]
  <2> HIDE DEF S
  <2> QED
    BY <1>1, <1>2, ConcatProperties
<1>4. \A i \in 1..3 : (<<a, b>> \o <<c>>)[i] = <<a, b, c>>[i]
  BY <1>3
<1> HIDE DEF S
<1> QED
  BY <1>1, <1>2, <1>3, <1>4, SeqEqual

LEMMA OneAndTwo ==
    ASSUME NEW a, NEW b, NEW c
    PROVE  <<a>> \o <<b, c>> = <<a, b, c>>
<1> DEFINE S == {a, b, c}
<1>1. <<a>> \in Seq(S) /\ <<b, c>> \in Seq(S) /\ <<a, b, c>> \in Seq(S)
  OBVIOUS
<1>2. Len(<<a>>) = 1 /\ Len(<<b, c>>) = 2 /\ Len(<<a, b, c>>) = 3
  OBVIOUS
<1>3. /\ <<a>> \o <<b, c>> \in Seq(S)
      /\ Len(<<a>> \o <<b, c>>) = 3
      /\ \A i \in 1..3 :
             (<<a>> \o <<b, c>>)[i] = IF i <= 1 THEN <<a>>[i] ELSE <<b, c>>[i - 1]
  <2> HIDE DEF S
  <2> QED
    BY <1>1, <1>2, ConcatProperties
<1>4. \A i \in 1..3 : (<<a>> \o <<b, c>>)[i] = <<a, b, c>>[i]
  BY <1>3
<1> HIDE DEF S
<1> QED
  BY <1>1, <1>2, <1>3, <1>4, SeqEqual

LEMMA TwoAndTwo ==
    ASSUME NEW a, NEW b, NEW c, NEW d
    PROVE  <<a, b>> \o <<c, d>> = <<a, b, c, d>>
<1> DEFINE S == {a, b, c, d}
<1>1. <<a, b>> \in Seq(S) /\ <<c, d>> \in Seq(S) /\ <<a, b, c, d>> \in Seq(S)
  OBVIOUS
<1>2. Len(<<a, b>>) = 2 /\ Len(<<c, d>>) = 2 /\ Len(<<a, b, c, d>>) = 4
  OBVIOUS
<1>3. /\ <<a, b>> \o <<c, d>> \in Seq(S)
      /\ Len(<<a, b>> \o <<c, d>>) = 4
      /\ \A i \in 1..4 :
             (<<a, b>> \o <<c, d>>)[i] = IF i <= 2 THEN <<a, b>>[i] ELSE <<c, d>>[i - 2]
  <2> HIDE DEF S
  <2> QED
    BY <1>1, <1>2, ConcatProperties
<1>4. \A i \in 1..4 : (<<a, b>> \o <<c, d>>)[i] = <<a, b, c, d>>[i]
  BY <1>3
<1> HIDE DEF S
<1> QED
  BY <1>1, <1>2, <1>3, <1>4, SeqEqual

LEMMA ThreeAndOne ==
    ASSUME NEW a, NEW b, NEW c, NEW d
    PROVE  <<a, b, c>> \o <<d>> = <<a, b, c, d>>
<1> DEFINE S == {a, b, c, d}
<1>1. <<a, b, c>> \in Seq(S) /\ <<d>> \in Seq(S) /\ <<a, b, c, d>> \in Seq(S)
  OBVIOUS
<1>2. Len(<<a, b, c>>) = 3 /\ Len(<<d>>) = 1 /\ Len(<<a, b, c, d>>) = 4
  OBVIOUS
<1>3. /\ <<a, b, c>> \o <<d>> \in Seq(S)
      /\ Len(<<a, b, c>> \o <<d>>) = 4
      /\ \A i \in 1..4 :
             (<<a, b, c>> \o <<d>>)[i] = IF i <= 3 THEN <<a, b, c>>[i] ELSE <<d>>[i - 3]
  <2> HIDE DEF S
  <2> QED
    BY <1>1, <1>2, ConcatProperties
<1>4. \A i \in 1..4 : (<<a, b, c>> \o <<d>>)[i] = <<a, b, c, d>>[i]
  BY <1>3
<1> HIDE DEF S
<1> QED
  BY <1>1, <1>2, <1>3, <1>4, SeqEqual

LEMMA FourAndOne ==
    ASSUME NEW a, NEW b, NEW c, NEW d, NEW e
    PROVE  <<a, b, c, d>> \o <<e>> = <<a, b, c, d, e>>
<1> DEFINE S == {a, b, c, d, e}
<1>1. <<a, b, c, d>> \in Seq(S) /\ <<e>> \in Seq(S) /\ <<a, b, c, d, e>> \in Seq(S)
  OBVIOUS
<1>2. Len(<<a, b, c, d>>) = 4 /\ Len(<<e>>) = 1 /\ Len(<<a, b, c, d, e>>) = 5
  OBVIOUS
<1>3. /\ <<a, b, c, d>> \o <<e>> \in Seq(S)
      /\ Len(<<a, b, c, d>> \o <<e>>) = 5
      /\ \A i \in 1..5 :
             (<<a, b, c, d>> \o <<e>>)[i] = IF i <= 4 THEN <<a, b, c, d>>[i] ELSE <<e>>[i - 4]
  <2> HIDE DEF S
  <2> QED
    BY <1>1, <1>2, ConcatProperties
<1>4. \A i \in 1..5 : (<<a, b, c, d>> \o <<e>>)[i] = <<a, b, c, d, e>>[i]
  BY <1>3
<1> HIDE DEF S
<1> QED
  BY <1>1, <1>2, <1>3, <1>4, SeqEqual

\* The ways of the handlers, written out.
LEMMA Ways ==
    /\ ClearAll \o <<"page">> = Page3
    /\ ClearAll \o <<"home">> = Home3
    /\ <<"look", "to_submitting", "fetch", "put", "ask">> = Ask5
    /\ <<"which", "fulfil">> \o ClearAll \o <<"home">> = Answer5
    /\ <<"to_entering", "ask_prompt">> = Prompt2
    /\ <<"create">> \o ClearAll \o <<"home">> = Create4
    /\ <<"fetch", "put", "to_another", "home">> = Other4
<1>1. ClearAll \o <<"page">> = Page3 /\ ClearAll \o <<"home">> = Home3
  BY TwoAndOne DEF ClearAll, Page3, Home3
<1>2. <<"which", "fulfil">> \o ClearAll \o <<"home">> = Answer5
  <2>1. <<"which", "fulfil">> \o ClearAll
            = <<"which", "fulfil", "clear_state", "clear_data">>
    BY TwoAndTwo DEF ClearAll
  <2> QED
    BY <2>1, FourAndOne DEF Answer5
<1>3. <<"create">> \o ClearAll \o <<"home">> = Create4
  <2>1. <<"create">> \o ClearAll = <<"create", "clear_state", "clear_data">>
    BY OneAndTwo DEF ClearAll
  <2> QED
    BY <2>1, ThreeAndOne DEF Create4
<1> QED
  BY <1>1, <1>2, <1>3 DEF Ask5, Prompt2, Other4

LEMMA InputStep ==
    ASSUME DialogueInv, NEW k \in Update, NEW u \in Sender, Input(k, u)
    PROVE  DialogueInv'
<1>1. "unsure" \in Purpose /\ meant[u] \in Purpose
  BY TypesKept DEF Purpose, DialogueTyped
<1>2. /\ Home3 \notin ForRequest /\ Prompt2 \notin ForRequest /\ Other4 \notin ForRequest
      /\ Answer5 \notin ForRequest /\ Create4 \notin ForRequest
  <2>1. Home3 \notin ForRequest
    BY FirstCommands, RemainingCommands DEF ForRequest
  <2>2. Prompt2 \notin ForRequest
    BY FirstCommands DEF ForRequest
  <2>3. Other4 \notin ForRequest
    BY FirstCommands, RemainingCommands DEF ForRequest
  <2>4. Answer5 \notin ForRequest /\ Create4 \notin ForRequest
    BY FirstCommands DEF ForRequest
  <2> QED
    BY <2>1, <2>2, <2>3, <2>4
<1>3. ASSUME NEW t \in {Page3, Ask5}, NEW r \in Request, Incoming(k, u, r, "unsure", t)
      PROVE  DialogueInv'
  BY <1>1, <1>3, FreshWays, IncomingStep
<1>4. ASSUME NEW t \in {Home3, Prompt2, Other4}, Incoming(k, u, NoRequest, "unsure", t)
      PROVE  DialogueInv'
  BY <1>1, <1>2, <1>4, FreshWays, IncomingStep
<1>5. BusyFor(u) = {} /\ meant[u] # "unsure" => Expects(meant[u], state[u], requestId[u])
  BY DEF DialogueInv, MeantStands
<1>6. CASE request_submit_value(k, u)
  <2>1. state[u] = "submitting_secret" /\ Incoming(k, u, NoRequest, meant[u], Answer5)
    BY <1>6, Ways DEF request_submit_value
  <2>3. ASSUME NEW g \in Handler, g.todo = Answer5, g.text = meant[u], BusyFor(u) = {}
        PROVE  InPlace(g, state[u], requestId[u])
    <3>1. g.todo \notin {Page2, Page1, Home2, Home1, Ask3, Ask2, Ask1, Prompt1, Answer4, Create4}
      BY <2>3, FirstCommands
    <3>2. g.text = "unsure" \/ (g.text \in Request /\ requestId[u] = g.text)
      BY <1>1, <1>5, <2>1, <2>3 DEF Expects, Purpose
    <3> QED
      BY <3>1, <3>2 DEF InPlace
  <2>4. Answer5 \in Todos
    BY DEF Todos
  <2> QED
    BY <1>1, <1>2, <2>1, <2>3, <2>4, IncomingStep
<1>7. CASE request_prompt_value(k, u)
  <2>1. state[u] = "entering_prompt" /\ Incoming(k, u, NoRequest, meant[u], Create4)
    BY <1>7, Ways DEF request_prompt_value
  <2>2. ASSUME NEW g \in Handler, g.todo = Create4, g.text = meant[u], BusyFor(u) = {}
        PROVE  InPlace(g, state[u], requestId[u])
    <3>1. g.todo \notin {Page2, Page1, Home2, Home1, Ask3, Ask2, Ask1, Prompt1, Answer5, Answer4}
      BY <2>2, FirstCommands
    <3>2. g.text \in {"unsure", "request"}
      BY <1>1, <1>5, <2>1, <2>2 DEF Expects, Purpose
    <3> QED
      BY <3>1, <3>2 DEF InPlace
  <2>3. Create4 \in Todos
    BY DEF Todos
  <2> QED
    BY <1>1, <1>2, <2>1, <2>2, <2>3, IncomingStep
<1>8. ASSUME NEW r \in Request, start(k, u, r) \/ request_submit_start(k, u, r)
      PROVE  DialogueInv'
  BY <1>3, <1>8, Ways DEF start, request_submit_start
<1>9. CASE request_create_start(k, u) \/ menu_callback(k, u) \/ another_dialogue(k, u)
  BY <1>4, <1>9, Ways DEF request_create_start, menu_callback, another_dialogue
<1> QED
  BY <1>6, <1>7, <1>8, <1>9 DEF Input

-----------------------------------------------------------------------------
(* The theorem of the dialogue *)

LEMMA AnswerInitInv ==
    ASSUME AnswerInit
    PROVE  DialogueInv
<1>1. Idling \in Handler
  BY DEF Idling, Handler, Purpose
<1>2. handler \in [Update -> Handler] /\ \A k \in Update : handler[k] = Idling
  BY <1>1 DEF AnswerInit
<1>3. AnswerTypeOK
  <2>1. \A k \in Update : handler[k].copy \in Request \cup {NoRequest} /\ handler[k].text \in Purpose
    BY <1>2 DEF Handler
  <2>2. \A k \in Update : ~AtWork(k, "fulfil")
    BY <1>2 DEF AtWork
  <2> QED
    BY <2>1, <2>2 DEF AnswerInit, AnswerTypeOK, Purpose
<1>4. HandlersInPlace /\ AloneAtWork
  BY <1>2 DEF HandlersInPlace, AloneAtWork, Shaped
<1>5. MeantStands
  BY <1>2, AnswerAssumption DEF MeantStands, AnswerInit, Expects, BusyFor
<1>6. AnswersWhereMeant
  BY DEF AnswerInit, AnswersWhereMeant
<1> QED
  BY <1>2, <1>3, <1>4, <1>5, <1>6 DEF DialogueInv

\* The steps that are nobody's: a request ends, or the bot is started again.
LEMMA AroundStep ==
    ASSUME DialogueInv, (\E r \in Request : RequestEnds(r)) \/ BotRestarts \/ UNCHANGED answervars
    PROVE  DialogueInv'
<1>1. Idling \in Handler
  BY DEF Idling, Handler, Purpose
<1>2. UNCHANGED <<state, requestId, pages, inputs, meant, received>>
      /\ open' \subseteq open
      /\ failures' \in Nat
  BY TypesKept DEF RequestEnds, BotRestarts, Failed, answervars, DialogueTyped
<1>3. DialogueTyped'
  BY <1>2, TypesKept DEF DialogueTyped
<1>4. handler' = handler \/ handler' = [k \in Update |-> Idling]
  BY DEF RequestEnds, BotRestarts, answervars
<1>5. handler \in [Update -> Handler]
  BY DEF DialogueInv
<1>6. handler' \in [Update -> Handler] /\ \A k \in Update : handler'[k] \in {handler[k], Idling}
  BY <1>1, <1>4, <1>5
<1>7. HandlersInPlace'
  BY <1>2, <1>6 DEF DialogueInv, HandlersInPlace, Shaped
<1>8. AloneAtWork'
  BY <1>6 DEF DialogueInv, AloneAtWork
<1>9. MeantStands'
  BY <1>2, <1>6 DEF DialogueInv, MeantStands, BusyFor
<1>10. AnswersWhereMeant'
  BY <1>2 DEF DialogueInv, AnswersWhereMeant
<1> QED
  BY <1>3, <1>6, <1>7, <1>8, <1>9, <1>10, TypesOfHandlers DEF DialogueInv

LEMMA AnswerStep ==
    ASSUME DialogueInv, [AnswerNext]_answervars
    PROVE  DialogueInv'
BY HandleStep, InputStep, AroundStep DEF AnswerNext

\* The inductive invariant of the dialogue holds in every reachable state.
THEOREM DialogueInvariant == AnswerSpec => []DialogueInv
<1>1. AnswerInit => DialogueInv
  BY AnswerInitInv
<1>2. DialogueInv /\ [AnswerNext]_answervars => DialogueInv'
  BY AnswerStep
<1> QED
  BY <1>1, <1>2, PTL DEF AnswerSpec

\* State, draft and handlers of the dialogue keep their types.
THEOREM DialogueTypesCorrect == AnswerSpec => []AnswerTypeOK
<1>1. DialogueInv => AnswerTypeOK
  BY DEF DialogueInv
<1> QED
  BY <1>1, DialogueInvariant, PTL

\* However many links a user opens, dialogues he abandons, handlers fail and restarts there are: a
\* message of his with no other update beside it goes where he means it to go (handlers.py:1000-1024).
THEOREM MessagesGoWhereMeant == AnswerSpec => []AnswersWhereMeant
<1>1. DialogueInv => AnswersWhereMeant
  BY DEF DialogueInv
<1> QED
  BY <1>1, DialogueInvariant, PTL

=============================================================================
