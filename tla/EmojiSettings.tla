----------------------------- MODULE EmojiSettings -----------------------------
(***************************************************************************)
(* Custom emojis of the interface: the editor of the administrators        *)
(* (admin_emoji_* in app/admin.py), the table ui_emoji_settings and the    *)
(* cache _custom of app/ui_emoji.py that every screen is rendered from.    *)
(* The table is committed first and the cache written by the coroutine     *)
(* when it runs again; at a start the cache is loaded from the table.      *)
(*                                                                         *)
(* The editor's dialogue is a state and a draft under two keys in Redis,   *)
(* per administrator. A handler is a task whose steps are its commands to  *)
(* Redis and the database; state.update_data is one step here. Any button  *)
(* shown once can be pressed later.                                        *)
(***************************************************************************)
EXTENDS Naturals, Sequences, FiniteSets

CONSTANTS
    Editor,     \* administrators
    Catalog,    \* the slots of CATALOG, in its order
    Emoji,      \* ids of custom emojis
    Work,       \* handlers that may run at the same time
    NoEmoji, NoRow, NoSlot,
    MaxTaps,    \* bound of the buttons and messages that arrive
    MaxMishaps  \* bound of the restarts and failed commands

Slot == {Catalog[i] : i \in DOMAIN Catalog}

ASSUME EmojiAssumption ==
    /\ Catalog \in Seq(Slot) /\ Catalog # <<>>
    /\ NoEmoji \notin Emoji /\ NoSlot \notin Slot
    /\ NoRow \notin [emoji: Emoji, by: Editor]
    /\ MaxTaps \in Nat /\ MaxMishaps \in Nat

VARIABLES
    table,      \* ui_emoji_settings
    cache,      \* _custom
    waiting,    \* administrators in state AdminEmoji.waiting_emoji
    draft,      \* the dialogue's data
    work,       \* what each handler still has to do
    taps,       \* how many buttons and messages there were
    mishaps,    \* how many restarts and failed commands there were
    settled,    \* ghost: slots last written by a handler with no other beside it, or loaded
    calm,       \* ghost: administrators whose wizard ran by itself so far
    passed      \* ghost: slots assigned or skipped in the wizard, by administrator

emojivars == <<table, cache, waiting, draft, work, taps, mishaps, settled, calm, passed>>

Blank == [slot |-> NoSlot, sequence |-> <<>>, position |-> 0]
Draft == [slot: Slot \cup {NoSlot}, sequence: Seq(Slot), position: Nat]

\* A handler: its next command, and what it has read or is going to write.
Rest == [op |-> "none"]
DialogueWork == [op: {"get", "leave", "wipe"}, editor: Editor, emoji: Emoji \cup {NoEmoji}]
PatchWork == [op: {"patch"}, editor: Editor, emoji: Emoji \cup {NoEmoji},
              why: {"choose", "start", "next"}, slot: Slot, data: Draft]
WriteWork == [op: {"load", "commit", "store"}, editor: Editor, emoji: Emoji \cup {NoEmoji},
              slot: Slot, data: Draft, row: [emoji: Emoji, by: Editor] \cup {NoRow},
              alone: BOOLEAN]

EmojiTypeOK ==
    /\ table \in [Slot -> [emoji: Emoji, by: Editor] \cup {NoRow}]
    /\ cache \in [Slot -> Emoji \cup {NoEmoji}]
    /\ waiting \subseteq Editor /\ calm \subseteq Editor /\ settled \subseteq Slot
    /\ draft \in [Editor -> Draft]
    /\ work \in [Work -> {Rest} \cup DialogueWork \cup PatchWork \cup WriteWork]
    /\ taps \in Nat /\ mishaps \in Nat
    /\ passed \in [Editor -> SUBSET Slot]

\* load_ui_emojis
Loaded(t) == [s \in Slot |-> IF t[s] = NoRow THEN NoEmoji ELSE t[s].emoji]

EmojiInit ==
    /\ table = [s \in Slot |-> NoRow]
    /\ cache = Loaded(table)
    /\ waiting = {}
    /\ draft = [a \in Editor |-> Blank]
    /\ work = [k \in Work |-> Rest]
    /\ taps = 0 /\ mishaps = 0
    /\ settled = Slot
    /\ calm = Editor
    /\ passed = [a \in Editor |-> {}]

-----------------------------------------------------------------------------
(* Buttons and messages *)

Of(a) == {k \in Work : work[k] # Rest /\ work[k].editor = a}
Writes(k) == work[k].op \in {"load", "commit", "store"}
Writing(s) == {k \in Work : Writes(k) /\ work[k].slot = s}

Arrives(k, a, w) ==
    /\ work[k] = Rest
    /\ taps < MaxTaps
    /\ taps' = taps + 1
    /\ work' = [work EXCEPT ![k] = w]
    /\ calm' = IF Of(a) = {} THEN calm ELSE calm \ {a}
    /\ UNCHANGED <<table, cache, draft, mishaps, passed>>

Patching(a, why, slot, data) ==
    [op |-> "patch", editor |-> a, emoji |-> NoEmoji, why |-> why, slot |-> slot, data |-> data]

Leaving(a) == [op |-> "leave", editor |-> a, emoji |-> NoEmoji]

admin_emoji_choose(k, a, s) ==
    /\ Arrives(k, a, Patching(a, "choose", s, [draft[a] EXCEPT !.slot = s]))
    /\ waiting' = waiting \cup {a}
    /\ UNCHANGED settled

\* The slots with no emoji in the order of the catalog: a set with that one sequence.
Missing ==
    LET unset == {i \in DOMAIN Catalog : cache[Catalog[i]] = NoEmoji}
        Orders == {p \in [1..Cardinality(unset) -> unset] :
                      \A m, n \in DOMAIN p : m < n => p[m] < p[n]}
    IN  {[n \in DOMAIN p |-> Catalog[p[n]]] : p \in Orders}

admin_emoji_wizard_start(k, a, sequence) ==
    /\ sequence # <<>>
    /\ Arrives(k, a, Patching(a, "start", sequence[1],
                     [slot |-> sequence[1], sequence |-> sequence, position |-> 0]))
    /\ waiting' = waiting \cup {a}
    /\ UNCHANGED settled

\* What follows in the wizard once the slot at the draft's position is dealt with.
NextInWizard(a, slot, d) ==
    IF d.position + 1 >= Len(d.sequence) THEN Leaving(a)
    ELSE Patching(a, "next", slot, [d EXCEPT !.position = @ + 1,
                                             !.slot = d.sequence[d.position + 2]])

admin_emoji_wizard_skip(k, a) ==
    /\ draft[a].sequence # <<>>
    /\ Arrives(k, a, NextInWizard(a, draft[a].sequence[draft[a].position + 1], draft[a]))
    /\ UNCHANGED <<waiting, settled>>

\* Every screen that calls state.clear: admin_emoji_home, _list, _wizard_stop, admin_home, ...
leave_editor(k, a) ==
    /\ Arrives(k, a, Leaving(a))
    /\ UNCHANGED <<waiting, settled>>

\* Another state, the same draft.
admin_users_search(k, a) ==
    /\ a \in waiting
    /\ waiting' = waiting \ {a}
    /\ UNCHANGED <<table, cache, draft, work, taps, mishaps, settled, calm, passed>>

\* One custom emoji while the state is waiting_emoji.
admin_emoji_receive(k, a, e) ==
    /\ a \in waiting
    /\ Arrives(k, a, [op |-> "get", editor |-> a, emoji |-> e])
    /\ UNCHANGED <<waiting, settled>>

\* A write to slot s by k: no other one that still runs counts as alone any more.
BeginsWrite(k, a, e, s, d) ==
    [j \in Work |->
        IF j = k THEN [op |-> "load", editor |-> a, emoji |-> e, slot |-> s, data |-> d,
                       row |-> NoRow, alone |-> Writing(s) = {}]
        ELSE IF j \in Writing(s) THEN [work[j] EXCEPT !.alone = FALSE] ELSE work[j]]

admin_emoji_reset(k, a, s) ==
    /\ work[k] = Rest
    /\ taps < MaxTaps
    /\ taps' = taps + 1
    /\ work' = BeginsWrite(k, a, NoEmoji, s, Blank)
    /\ settled' = IF Writing(s) = {} THEN settled ELSE settled \ {s}
    /\ calm' = IF Of(a) = {} THEN calm ELSE calm \ {a}
    /\ UNCHANGED <<table, cache, waiting, draft, mishaps, passed>>

-----------------------------------------------------------------------------
(* The steps of a handler *)

\* data = await state.get_data(); without a slot the editor is left.
GetData(k) ==
    LET w == work[k]
        s == draft[w.editor].slot
    IN  /\ w.op = "get"
        /\ IF s = NoSlot
           THEN work' = [work EXCEPT ![k] = Leaving(w.editor)] /\ UNCHANGED settled
           ELSE /\ work' = BeginsWrite(k, w.editor, w.emoji, s, draft[w.editor])
                /\ settled' = IF Writing(s) = {} THEN settled ELSE settled \ {s}
        /\ UNCHANGED <<table, cache, waiting, draft, taps, mishaps, calm, passed>>

\* session.get
Load(k) ==
    /\ work[k].op = "load"
    /\ work' = [work EXCEPT ![k].op = "commit", ![k].row = table[work[k].slot]]
    /\ UNCHANGED <<table, cache, waiting, draft, taps, mishaps, settled, calm, passed>>

\* What the UPDATE of a row read as old writes: only the columns that differ from what was read.
Updated(now, old, e, a) ==
    [emoji |-> IF e = old.emoji THEN now.emoji ELSE e, by |-> IF a = old.by THEN now.by ELSE a]

Unchanged(w) == w.row # NoRow /\ w.row = [emoji |-> w.emoji, by |-> w.editor]

\* Two INSERTs of one slot, or an UPDATE of a row deleted since: the commit raises.
Refused(w) ==
    /\ w.emoji # NoEmoji
    /\ ~Unchanged(w)
    /\ (w.row = NoRow) # (table[w.slot] = NoRow)

\* A mutant of Written: a reset leaves an empty row.
WrittenBlank(w) ==
    CASE w.emoji = NoEmoji /\ w.row = NoRow -> table[w.slot]
      [] w.emoji = NoEmoji -> [emoji |-> NoEmoji, by |-> w.editor]
      [] w.emoji # NoEmoji /\ w.row = NoRow -> [emoji |-> w.emoji, by |-> w.editor]
      [] OTHER -> Updated(table[w.slot], w.row, w.emoji, w.editor)

\* DELETE of a row that was read, INSERT of one that was not, UPDATE, or nothing at all.
Written(w) ==
    CASE w.emoji = NoEmoji -> IF w.row = NoRow THEN table[w.slot] ELSE NoRow
      [] w.emoji # NoEmoji /\ w.row = NoRow -> [emoji |-> w.emoji, by |-> w.editor]
      [] Unchanged(w) -> table[w.slot]
      [] OTHER -> Updated(table[w.slot], w.row, w.emoji, w.editor)

Commit(k) ==
    /\ work[k].op = "commit"
    /\ IF Refused(work[k])
       THEN work' = [work EXCEPT ![k] = Rest] /\ UNCHANGED table
       ELSE /\ table' = [table EXCEPT ![work[k].slot] = Written(work[k])]
            /\ work' = [work EXCEPT ![k].op = "store"]
    /\ UNCHANGED <<cache, waiting, draft, taps, mishaps, settled, calm, passed>>

AfterStore(w) ==
    IF w.data.sequence = <<>> THEN Leaving(w.editor)
    ELSE NextInWizard(w.editor, w.slot, w.data)

Settles(w) == settled' = IF w.alone THEN settled \cup {w.slot} ELSE settled

\* A mutant of SetCustomId: the slot the dialogue is at by now.
SetCustomIdNow(k) ==
    LET w == work[k]
        s == draft[w.editor].slot
    IN  /\ w.op = "store"
        /\ cache' = IF s = NoSlot THEN cache ELSE [cache EXCEPT ![s] = w.emoji]
        /\ work' = [work EXCEPT ![k] = AfterStore(w)]
        /\ Settles(w)
        /\ UNCHANGED <<table, waiting, draft, taps, mishaps, calm, passed>>

\* set_custom_id, when the handler goes on after its commit.
SetCustomId(k) ==
    LET w == work[k]
    IN  /\ w.op = "store"
        /\ cache' = [cache EXCEPT ![w.slot] = w.emoji]
        /\ work' = [work EXCEPT ![k] = AfterStore(w)]
        /\ Settles(w)
        /\ UNCHANGED <<table, waiting, draft, taps, mishaps, calm, passed>>

\* A mutant of Patched: the position advances and the slot stays.
PatchedKeepsSlot(d, w) ==
    CASE w.why = "choose" -> [d EXCEPT !.slot = w.slot]
      [] w.why = "start" -> w.data
      [] w.why = "next" -> [d EXCEPT !.position = w.data.position]

\* Each handler updates the keys it names.
Patched(d, w) ==
    CASE w.why = "choose" -> [d EXCEPT !.slot = w.slot]
      [] w.why = "start" -> w.data
      [] w.why = "next" -> [d EXCEPT !.slot = w.data.slot, !.position = w.data.position]

\* state.update_data. A single slot chosen beside a running wizard disturbs it.
UpdateData(k) ==
    LET w == work[k]
        a == w.editor
    IN  /\ w.op = "patch"
        /\ draft' = [draft EXCEPT ![a] = Patched(@, w)]
        /\ passed' = [passed EXCEPT ![a] = CASE w.why = "choose" -> @
                                              [] w.why = "start" -> {}
                                              [] w.why = "next" -> @ \cup {w.slot}]
        /\ calm' = CASE w.why = "start" /\ Of(a) = {k} -> calm \cup {a}
                     [] w.why = "choose" /\ draft[a].sequence # <<>> -> calm \ {a}
                     [] OTHER -> calm
        /\ work' = [work EXCEPT ![k] = Rest]
        /\ UNCHANGED <<table, cache, waiting, taps, mishaps, settled>>

\* state.clear: set_state(None), then set_data({}).
ClearState(k) ==
    /\ work[k].op = "leave"
    /\ waiting' = waiting \ {work[k].editor}
    /\ work' = [work EXCEPT ![k].op = "wipe"]
    /\ UNCHANGED <<table, cache, draft, taps, mishaps, settled, calm, passed>>

ClearData(k) ==
    /\ work[k].op = "wipe"
    /\ draft' = [draft EXCEPT ![work[k].editor] = Blank]
    /\ work' = [work EXCEPT ![k] = Rest]
    /\ UNCHANGED <<table, cache, waiting, taps, mishaps, settled, calm, passed>>

\* The command fails (the database or Redis is away) and so does the handler. What follows the
\* commit is not a command.
HandlerFails(k) ==
    /\ work[k].op \notin {"none", "store"}
    /\ mishaps < MaxMishaps
    /\ mishaps' = mishaps + 1
    /\ work' = [work EXCEPT ![k] = Rest]
    /\ UNCHANGED <<table, cache, waiting, draft, taps, settled, calm, passed>>

\* The process ends at any moment and starts again; the dialogues are in Redis.
Restart ==
    /\ mishaps < MaxMishaps
    /\ mishaps' = mishaps + 1
    /\ work' = [k \in Work |-> Rest]
    /\ cache' = Loaded(table)
    /\ settled' = Slot
    /\ UNCHANGED <<table, waiting, draft, taps, calm, passed>>

-----------------------------------------------------------------------------

Tap(k, a) ==
    \/ \E s \in Slot : admin_emoji_choose(k, a, s) \/ admin_emoji_reset(k, a, s)
    \/ admin_emoji_wizard_start(k, a, Catalog)
    \/ \E q \in Missing : admin_emoji_wizard_start(k, a, q)
    \/ admin_emoji_wizard_skip(k, a)
    \/ leave_editor(k, a)
    \/ admin_users_search(k, a)
    \/ \E e \in Emoji : admin_emoji_receive(k, a, e)

Proceed(k) ==
    \/ GetData(k) \/ Load(k) \/ Commit(k) \/ SetCustomId(k)
    \/ UpdateData(k) \/ ClearState(k) \/ ClearData(k) \/ HandlerFails(k)

EmojiNext ==
    \/ \E k \in Work : Proceed(k) \/ \E a \in Editor : Tap(k, a)
    \/ Restart

EmojiSpec == EmojiInit /\ [][EmojiNext]_emojivars

-----------------------------------------------------------------------------
(* Properties *)

\* The screens show what the table holds: a slot whose last write had no other write to the same
\* slot beside it is the same in the cache and in the table, whatever happened to other
\* slots, whichever write failed and wherever the process died. Two writes at once leave
\* it open until the slot is written again or the bot restarts (admin.py:557).
CacheMatchesTable ==
    \A s \in settled : Writing(s) = {} => cache[s] = Loaded(table)[s]

\* A wizard that runs by itself (no second handler of the administrator, no single slot chosen
\* beside it) leaves nothing out: what lies behind its position was assigned or skipped,
\* and the slot it asks for is the one at its position, also after failed handlers and restarts.
WizardMissesNothing ==
    \A a \in calm :
        LET d == draft[a]
        IN  d.sequence # <<>> /\ Of(a) = {} =>
                /\ d.position < Len(d.sequence)
                /\ d.slot = d.sequence[d.position + 1]
                /\ \A i \in 1..d.position : d.sequence[i] \in passed[a]

=============================================================================
