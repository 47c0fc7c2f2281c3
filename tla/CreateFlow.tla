------------------------------ MODULE CreateFlow ------------------------------
(***************************************************************************)
(* The creation dialogue of one user (app/handlers.py): buttons and        *)
(* messages that fill a draft, upload a file, and turn the draft into a    *)
(* secret. aiogram keeps the dialogue's state and the draft under two keys *)
(* in Redis and handles every update in a task of its own. The state       *)
(* filter of a handler is tested when the update comes in; each Redis      *)
(* command afterwards is a step. state.update_data is two of them, a GET   *)
(* and a SET of the whole draft; state.clear is two as well.               *)
(*                                                                         *)
(* A handler is the sequence of steps it takes, in the order of its code.  *)
(* A step that decides something puts the steps it chose in front of the   *)
(* rest. Any button ever shown can be pressed later: Telegram keeps old    *)
(* messages, and only some handlers filter on the state.                   *)
(***************************************************************************)
EXTENDS Sequences, FiniteSets, Naturals

CONSTANTS
    Task,       \* update tasks of the user that may run at once
    Secret,     \* ids of secrets; an INSERT that finds none left fails
    Path,       \* names of encrypted files
    Recipient,  \* telegram ids a user may bind a secret to
    Charset,    \* the generator's options modelled, of the four gen_* fields
    Pressed,    \* the handlers users of this instance reach
    MaxFaults,  \* bound of the crashes and failed handlers
    NoUser, NoPath

ASSUME FlowAssumption ==
    /\ NoUser \notin Recipient /\ NoPath \notin Path /\ MaxFaults \in Nat
    /\ Charset # {}
    /\ Charset \subseteq {"gen_upper", "gen_lower", "gen_digits", "gen_symbols"}

VARIABLES
    fsm,        \* the dialogue's state in Redis
    data,       \* the draft in Redis
    disk,       \* encrypted files
    plaintext,  \* downloads in the temporary directory: by which task of which life
    task,       \* what each task still has to do
    secrets,    \* the secrets created
    life,       \* how often the bot process was started again
    faults,     \* how many crashes and failed handlers there were
    calm        \* ghost: no two tasks overlapped and none failed so far

vars == <<fsm, data, disk, plaintext, task, secrets, life, faults, calm>>

-----------------------------------------------------------------------------
(* The draft *)

\* What the draft holds of the keys that matter: content_type ("text" stands for password and
\* generated too, which nothing treats differently), the kind of payload that nonce
\* and auth_tag belong to, encrypted_file_path, whether ttl and views are there, the recipient
\* fields, the generator's options. PIN, timer, confirmation and notifications are written by
\* the same read and write, with nothing in them a property tells apart.
Blank == [f \in {"content", "payload", "path", "ttl", "views", "mode", "recipient"} \cup Charset |->
    CASE f = "content" -> "none"
      [] f = "payload" -> "none"
      [] f = "path" -> NoPath
      [] f = "mode" -> "unset"
      [] f = "recipient" -> NoUser
      [] f \in {"ttl", "views"} -> FALSE
      [] OTHER -> TRUE]                     \* data.get("gen_upper", True)

IsDraft(d) ==
    /\ DOMAIN d = DOMAIN Blank
    /\ d.content \in {"none", "text", "file"}
    /\ d.payload \in {"none", "text", "file"}
    /\ d.path \in Path \cup {NoPath}
    /\ d.mode \in {"unset", "any", "first", "specific"}
    /\ d.recipient \in Recipient \cup {NoUser}
    /\ \A f \in {"ttl", "views"} \cup Charset : d[f] \in BOOLEAN

\* dict.update
Merge(d, patch) == [f \in DOMAIN d |-> IF f \in DOMAIN patch THEN patch[f] ELSE d[f]]

Enabled(d) == {c \in Charset : d[c]}

-----------------------------------------------------------------------------
(* The steps handlers are made of *)

Get == [op |-> "get"]                           \* data = await state.get_data()
Fetch == [op |-> "fetch"]                       \* the GET inside update_data
Put(patch) == [op |-> "put", patch |-> patch]   \* the SET inside update_data
To(state) == [op |-> "to", state |-> state]     \* state.set_state
Wipe == [op |-> "wipe"]                         \* set_data({})
Unlink == [op |-> "unlink"]                     \* file_store.delete(old["encrypted_file_path"])
Default(f) == [op |-> "default", field |-> f]   \* if f not in data: update_data
Toggle(c) == [op |-> "toggle", field |-> c]
Do(what) == [op |-> what]

Update(patch) == <<Fetch, Put(patch)>>
Nothing == <<>>
Rewrite == Update([f \in {} |-> {}])            \* fields the draft above leaves out
Clear == <<To("none"), Wipe>>

On(states, steps) == [states |-> states, steps |-> steps]

States == {"none", "choosing_type", "waiting_text", "waiting_password", "waiting_file",
           "choosing_ttl", "choosing_views", "protection", "entering_custom_pin",
           "choosing_recipient", "entering_recipient_id", "forwarding_recipient",
           "notifications", "destroy_timer", "choosing_kind", "choosing_password_length",
           "preview", "other"}

\* What a field that is missing gets when the user goes on without choosing.
DefaultOf(f) == CASE f = "ttl" -> [ttl |-> TRUE]
                  [] f = "views" -> [views |-> TRUE]
                  [] f = "mode" -> [mode |-> "any", recipient |-> NoUser]

-----------------------------------------------------------------------------
(* The handlers *)

start == On(States, <<Get, Unlink>> \o Clear)
menu_callback == On(States, <<Get, Unlink>> \o Clear)
cancel_callback == On(States, <<Get, Unlink>> \o Clear)
begin_create == On(States, <<Get, Unlink>> \o Clear \o <<To("choosing_type")>>)

choose_text == On(States, Update([content |-> "text"]) \o <<To("waiting_text")>>)
choose_password == On(States, Update([content |-> "text"]) \o <<To("waiting_password")>>)
choose_file == On(States, Update([content |-> "file"]) \o <<To("waiting_file")>>)

receive_plaintext ==
    On({"waiting_text", "waiting_password"}, <<Get, Do("encrypt"), To("choosing_ttl")>>)
receive_file ==
    On({"waiting_file"}, <<Do("download"), Do("save"), To("choosing_ttl")>>)

save_generated ==
    Update([content |-> "text", payload |-> "text"]) \o <<To("preview")>>
generator_start == On(States, <<To("choosing_kind")>>)
generator_password ==
    On({"choosing_kind"},
       Update([c \in Charset |-> TRUE]) \o <<To("choosing_password_length")>>)
generator_toggle_option(c) == On({"choosing_password_length"}, <<Get, Toggle(c)>>)
generator_password_value == On({"choosing_password_length"}, <<Get, Do("password")>>)
generator_other == On({"choosing_kind"}, save_generated)
\* "generated:new" makes another password or another value of the other kinds.
generator_repeat ==
    {On({"preview"}, <<Get, Do("password")>>), On({"preview"}, <<Get>> \o save_generated)}
generator_transfer ==
    On({"preview"}, Update([ttl |-> TRUE, views |-> TRUE]) \o <<To("choosing_ttl")>>)

choose_ttl == On({"choosing_ttl"}, Update([ttl |-> TRUE]))
continue_after_ttl ==
    On({"choosing_ttl"}, <<Get, Default("ttl"), Default("views"), To("choosing_views")>>)
back_to_ttl == On(States, <<To("choosing_ttl")>>)
back_to_views == On(States, <<To("choosing_views")>>)
choose_views == On({"choosing_views"}, Update([views |-> TRUE]))
continue_after_views ==
    On({"choosing_views"}, <<Get, Default("views"), Default("mode"), To("protection")>>)

protection_back == On(States, <<To("protection")>>)
pin_generate == On(States, Rewrite \o <<To("protection")>>)
pin_custom == On(States, <<To("entering_custom_pin")>>)
pin_custom_value == On({"entering_custom_pin"}, Rewrite \o <<To("protection")>>)
pin_remove == On(States, Rewrite \o <<To("protection")>>)

\* A mutant of recipient_simple: the id chosen before stays in the draft.
recipient_simple_keeps_id(mode) == On(States, Update([mode |-> mode]) \o <<To("protection")>>)

recipient_simple(mode) ==
    On(States, Update([mode |-> mode, recipient |-> NoUser]) \o <<To("protection")>>)
recipient_specific == On(States, <<To("choosing_recipient")>>)
recipient_enter_id == On(States, <<To("entering_recipient_id")>>)
recipient_id_value(u) ==
    On({"entering_recipient_id"},
       Update([mode |-> "specific", recipient |-> u]) \o <<To("protection")>>)
recipient_forward == On(States, <<To("forwarding_recipient")>>)
back_to_recipient_input == On(States, <<To("choosing_recipient")>>)
recipient_forward_value(u) ==
    On({"forwarding_recipient"},
       Update([mode |-> "specific", recipient |-> u]) \o <<To("protection")>>)

toggle_confirmation == On({"protection"}, <<Get>> \o Rewrite)
protection_destroy_timer == On({"protection"}, <<To("destroy_timer")>>)
destroy_timer_value == On({"destroy_timer"}, Rewrite \o <<To("protection")>>)
protection_notifications == On({"protection"}, <<To("notifications")>>)
toggle_notification == On({"notifications"}, <<Get>> \o Rewrite)

\* A mutant of finalize_secret: the draft is left behind.
finalize_secret_keeps_draft == On({"protection"}, <<Get, Do("insert"), To("none")>>)

finalize_secret == On({"protection"}, <<Get, Do("insert")>> \o Clear)

\* Requests, answers and PIN entry are dialogues of other handlers under the same two keys:
\* they take the state over, and clear state and draft without a look at the draft's file.
other_dialogue_starts == {On(States, <<To("other")>>), On(States, <<To("other")>> \o Rewrite)}
other_dialogue_ends == On({"other"}, Clear)

Handlers ==
    {start, menu_callback, cancel_callback, begin_create, choose_text, choose_password,
     choose_file, receive_plaintext, receive_file, generator_start, generator_password,
     generator_password_value, generator_other, generator_transfer, choose_ttl,
     continue_after_ttl, back_to_ttl, back_to_views, choose_views, continue_after_views,
     protection_back, pin_generate, pin_custom, pin_custom_value, pin_remove,
     recipient_specific, recipient_enter_id, recipient_forward, back_to_recipient_input,
     toggle_confirmation, protection_destroy_timer, destroy_timer_value,
     protection_notifications, toggle_notification, finalize_secret, other_dialogue_ends}
    \cup generator_repeat \cup other_dialogue_starts
    \cup {generator_toggle_option(c) : c \in Charset}
    \cup {recipient_simple(mode) : mode \in {"any", "first"}}
    \cup {recipient_id_value(u) : u \in Recipient}
    \cup {recipient_forward_value(u) : u \in Recipient}

-----------------------------------------------------------------------------
(* Running them *)

Free == [todo |-> Nothing, copy |-> Blank, base |-> Blank]

Busy(k) == task[k] # Free

NoSecret == [content |-> "none", path |-> NoPath, mode |-> "unset", recipient |-> NoUser]

FlowTypeOK ==
    /\ fsm \in States
    /\ IsDraft(data)
    /\ disk \subseteq Path
    /\ plaintext \subseteq (Task \X Nat)
    /\ life \in 0..faults
    /\ \A k \in Task : IsDraft(task[k].copy) /\ IsDraft(task[k].base)
    /\ \A s \in Secret :
           secrets[s] = NoSecret \/ /\ secrets[s].content \in {"text", "file"}
                                    /\ secrets[s].mode \in {"any", "first", "specific"}
    /\ faults \in 0..MaxFaults
    /\ calm \in BOOLEAN

Init ==
    /\ fsm = "none"
    /\ data = Blank
    /\ disk = {}
    /\ plaintext = {}
    /\ task = [k \in Task |-> Free]
    /\ secrets = [s \in Secret |-> NoSecret]
    /\ life = 0
    /\ faults = 0
    /\ calm = TRUE

AtStep(k, op) == Busy(k) /\ Head(task[k].todo).op = op

\* The steps that look at the copy of the draft read before.
Looks == {"unlink", "default", "toggle", "password", "encrypt", "insert"}

\* Go on, with the steps `more` before the rest; a task with nothing left to do is free. (A
\* copy of the draft that no later step looks at is blanked.)
Resume(k, t, more) ==
    LET todo == more \o Tail(t.todo)
        copy == IF \E i \in DOMAIN todo : todo[i].op \in Looks THEN t.copy ELSE Blank
    IN  task' = [task EXCEPT ![k] = IF todo = Nothing THEN Free
                                    ELSE [t EXCEPT !.todo = todo, !.copy = copy]]

Continue(k) == Resume(k, task[k], Nothing)

Return(k) == task' = [task EXCEPT ![k] = Free]

\* An update comes in and passes the filter on the state as it is now.
Dispatch(k, h) ==
    /\ ~Busy(k)
    /\ fsm \in h.states
    /\ task' = [task EXCEPT ![k] = [Free EXCEPT !.todo = h.steps]]
    /\ calm' = (calm /\ \A j \in Task : ~Busy(j))
    /\ UNCHANGED <<fsm, data, disk, plaintext, secrets, life, faults>>

GetData(k) ==
    /\ AtStep(k, "get")
    /\ Resume(k, [task[k] EXCEPT !.copy = data], Nothing)
    /\ UNCHANGED <<fsm, data, disk, plaintext, secrets, life, faults, calm>>

FetchData(k) ==
    /\ AtStep(k, "fetch")
    /\ Resume(k, [task[k] EXCEPT !.base = data], Nothing)
    /\ UNCHANGED <<fsm, data, disk, plaintext, secrets, life, faults, calm>>

PutData(k) ==
    /\ AtStep(k, "put")
    /\ data' = Merge(task[k].base, Head(task[k].todo).patch)
    /\ Resume(k, [task[k] EXCEPT !.base = Blank], Nothing)
    /\ UNCHANGED <<fsm, disk, plaintext, secrets, life, faults, calm>>

SetState(k) ==
    /\ AtStep(k, "to")
    /\ fsm' = Head(task[k].todo).state
    /\ Continue(k)
    /\ UNCHANGED <<data, disk, plaintext, secrets, life, faults, calm>>

WipeData(k) ==
    /\ AtStep(k, "wipe")
    /\ data' = Blank
    /\ Continue(k)
    /\ UNCHANGED <<fsm, disk, plaintext, secrets, life, faults, calm>>

UnlinkFile(k) ==
    /\ AtStep(k, "unlink")
    /\ disk' = disk \ {task[k].copy.path}
    /\ Continue(k)
    /\ UNCHANGED <<fsm, data, plaintext, secrets, life, faults, calm>>

SetDefault(k) ==
    /\ AtStep(k, "default")
    /\ LET f == Head(task[k].todo).field
       IN  Resume(k, task[k], IF task[k].copy[f] = Blank[f] THEN Update(DefaultOf(f)) ELSE Nothing)
    /\ UNCHANGED <<fsm, data, disk, plaintext, secrets, life, faults, calm>>

\* A mutant of ToggleOption: the last character set can be switched off.
ToggleOptionFreely(k) ==
    /\ AtStep(k, "toggle")
    /\ LET c == Head(task[k].todo).field
           copy == task[k].copy
       IN  Resume(k, task[k], Update([f \in {c} |-> ~copy[f]]))
    /\ UNCHANGED <<fsm, data, disk, plaintext, secrets, life, faults, calm>>

\* The last character set cannot be switched off, as far as the draft read before shows.
ToggleOption(k) ==
    /\ AtStep(k, "toggle")
    /\ LET c == Head(task[k].todo).field
           copy == task[k].copy
       IN  IF Enabled(copy) = {c} THEN Return(k)
           ELSE Resume(k, task[k], Update([f \in {c} |-> ~copy[f]]))
    /\ UNCHANGED <<fsm, data, disk, plaintext, secrets, life, faults, calm>>

\* password() raises when no character set is enabled.
MakePassword(k) ==
    /\ AtStep(k, "password")
    /\ IF Enabled(task[k].copy) = {} THEN Return(k)
       ELSE Resume(k, task[k], save_generated)
    /\ UNCHANGED <<fsm, data, disk, plaintext, secrets, life, faults, calm>>

\* receive_plaintext: content_type=data.get("content_type", "text").
StoreText(k) ==
    /\ AtStep(k, "encrypt")
    /\ LET content == IF task[k].copy.content = "none" THEN "text" ELSE task[k].copy.content
       IN  Resume(k, task[k],
                  Update([content |-> content, payload |-> "text", ttl |-> TRUE,
                          views |-> TRUE]))
    /\ UNCHANGED <<fsm, data, disk, plaintext, secrets, life, faults, calm>>

\* The name mkstemp gave task k: no task of an earlier life has it.
Temp(k) == <<k, life>>

Download(k) ==
    /\ AtStep(k, "download")
    /\ plaintext' = plaintext \cup {Temp(k)}
    /\ Continue(k)
    /\ UNCHANGED <<fsm, data, disk, secrets, life, faults, calm>>

\* Random names never collide: a name is fresh when nothing refers to it.
Referred ==
    disk \cup {data.path} \cup {secrets[s].path : s \in Secret}
         \cup {task[k].copy.path : k \in Task} \cup {task[k].base.path : k \in Task}
         \cup {task[k].todo[2].patch.path : k \in
                  {j \in Task : Len(task[j].todo) > 1 /\ task[j].todo[1] = Fetch
                                /\ "path" \in DOMAIN task[j].todo[2].patch}}

\* save_plaintext encrypts into the storage directory and unlinks the plaintext.
SaveFile(k) ==
    /\ AtStep(k, "save")
    /\ \E f \in Path \ Referred :
           /\ disk' = disk \cup {f}
           /\ Resume(k, task[k], Update([content |-> "file", payload |-> "file", path |-> f,
                                         ttl |-> TRUE, views |-> TRUE]))
    /\ plaintext' = plaintext \ {Temp(k)}
    /\ UNCHANGED <<fsm, data, secrets, life, faults, calm>>

\* A mutant of UploadFails: only the size check cleans up.
UploadFailsKeeps(k) ==
    /\ AtStep(k, "save") \/ AtStep(k, "download")
    /\ Return(k)
    /\ UNCHANGED <<fsm, data, disk, plaintext, secrets, life, faults, calm>>

\* Too large, or any other exception: both handlers unlink the plaintext.
UploadFails(k) ==
    /\ AtStep(k, "save") \/ AtStep(k, "download")
    /\ plaintext' = plaintext \ {Temp(k)}
    /\ Return(k)
    /\ UNCHANGED <<fsm, data, disk, secrets, life, faults, calm>>

\* finalize_secret's early return, or a KeyError on a draft without payload, ttl or views.
Refused(draft) ==
    \/ draft.mode = "specific" /\ draft.recipient = NoUser
    \/ draft.payload = "none" \/ ~draft.ttl \/ ~draft.views

\* A mutant of SecretOf: the mode has no default.
SecretOfUnset(draft) ==
    [content |-> IF draft.content = "none" THEN "text" ELSE draft.content,
     path |-> draft.path, mode |-> draft.mode, recipient |-> draft.recipient]

SecretOf(draft) ==
    [content |-> IF draft.content = "none" THEN "text" ELSE draft.content,
     path |-> draft.path,
     mode |-> IF draft.mode = "unset" THEN "any" ELSE draft.mode,
     recipient |-> draft.recipient]

InsertSecret(k) ==
    /\ AtStep(k, "insert")
    /\ IF Refused(task[k].copy) \/ \A s \in Secret : secrets[s] # NoSecret
       THEN Return(k) /\ UNCHANGED secrets
       ELSE \E s \in Secret :
                /\ secrets[s] = NoSecret
                /\ secrets' = [secrets EXCEPT ![s] = SecretOf(task[k].copy)]
                /\ Continue(k)
    /\ UNCHANGED <<fsm, data, disk, plaintext, life, faults, calm>>

\* Redis, the database or Telegram fails: the handler ends where it is.
HandlerFails(k) ==
    /\ faults < MaxFaults
    /\ Busy(k)
    /\ plaintext' = plaintext \ {Temp(k)}
    /\ Return(k)
    /\ faults' = faults + 1
    /\ calm' = FALSE
    /\ UNCHANGED <<fsm, data, disk, secrets, life>>

\* The process dies or is stopped (`except Exception` does not catch the cancellation): a
\* download stays in the temporary directory, where nobody looks for it after the restart.
Crash ==
    /\ faults < MaxFaults
    /\ task' = [k \in Task |-> Free]
    /\ life' = life + 1
    /\ faults' = faults + 1
    /\ calm' = FALSE
    /\ UNCHANGED <<fsm, data, disk, plaintext, secrets>>

Reached == Handlers \cap Pressed

Step(k) ==
    \/ \E h \in Reached : Dispatch(k, h)
    \/ GetData(k) \/ FetchData(k) \/ PutData(k) \/ SetState(k) \/ WipeData(k)
    \/ UnlinkFile(k) \/ SetDefault(k) \/ ToggleOption(k) \/ MakePassword(k) \/ StoreText(k)
    \/ Download(k) \/ SaveFile(k) \/ UploadFails(k) \/ InsertSecret(k) \/ HandlerFails(k)

Next == Crash \/ \E k \in Task : Step(k)

Spec == Init /\ [][Next]_vars

-----------------------------------------------------------------------------
(* Properties *)

Created == {s \in Secret : secrets[s] # NoSecret}

\* However updates overlap, fail or overwrite each other's draft, a secret names a recipient
\* exactly when it is bound to one: both fields travel in one patch (recipient_* handlers).
RecipientFitsMode ==
    \A s \in Created : secrets[s].mode = "specific" <=> secrets[s].recipient # NoUser

\* handlers.py:318: every failed upload path must remove plaintext. Of the downloads made since
\* the process was started, only those of tasks between download and encryption are there;
\* what a process that died left behind is not excluded (nothing removes it).
UploadPlaintextRemoved ==
    \A k \in Task : Temp(k) \in plaintext => AtStep(k, "save")

\* For a user who waits for each answer, while nothing fails: no menu, however old, makes the
\* dialogue delete the file of a secret that was created, or leaves the file to a second secret
\* or to the next draft, which would end it with theirs.
CalmSecretsKeepFiles ==
    calm => \A s \in {t \in Created : secrets[t].path # NoPath} :
        /\ secrets[s].path \in disk
        /\ \A t \in Created \ {s} : secrets[t].path # secrets[s].path
        /\ data.path = secrets[s].path => \E k \in Task : Busy(k)

\* For the same user: the generator always has an alphabet (password() would raise).
CalmAlphabetNotEmpty == calm => Enabled(data) # {}

\* handlers.py:207 tells users that a secret opens exactly the given number of times: it keeps
\* its file until then, also when taps follow each other faster than the bot answers.
SecretsKeepFiles ==
    faults = 0 => \A s \in Created : secrets[s].path = NoPath \/ secrets[s].path \in disk

=============================================================================
