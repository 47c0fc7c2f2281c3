----------------------------- MODULE AnswerDialogue -----------------------------
(***************************************************************************)
(* Asking for a secret and answering: the dialogue in front of             *)
(* SecretRequests (start with an rq_ link, request_* in app/handlers.py).  *)
(* The pages name no request: which one the next message answers is        *)
(* request_id, a field of the user's one draft, and whether a message is   *)
(* an answer or a new request is the user's one state. Both are in Redis,  *)
(* written by a command each, and read by handlers of other updates.       *)
(*                                                                         *)
(* fulfill_request is one step here, SecretRequests opens it up. The file  *)
(* a cleared draft may hold is CreateFlow's matter.                        *)
(***************************************************************************)
EXTENDS Naturals, Sequences

CONSTANTS
    Request,    \* requests whose links are out
    Sender,     \* users who hold those links
    Update,     \* updates handled at the same time
    NoRequest,
    MaxInputs,  \* bound of the buttons and messages that arrive
    MaxFailures \* bound of the failed handlers and restarts

ASSUME AnswerAssumption ==
    /\ NoRequest \notin Request
    /\ Request \cap {"request", "other", "unsure"} = {}  \* what else a message can be meant for
    /\ MaxInputs \in Nat /\ MaxFailures \in Nat

VARIABLES
    open,       \* requests that can be answered
    state,      \* the dialogue's state
    requestId,  \* request_id in the dialogue's data
    pages,      \* «answer» buttons that were sent
    handler,    \* what each update still has to do
    inputs,     \* how many buttons and messages there were
    failures,   \* how many failed handlers and restarts there were
    meant,      \* ghost: what the user takes the next message for
    received    \* ghost: what became of the messages

answervars == <<open, state, requestId, pages, handler, inputs, failures, meant, received>>

Purpose == Request \cup {"request", "other", "unsure"}

\* text: what its sender takes the message for. alone: no second update of the user beside it.
Idling == [todo |-> <<>>, user |-> "nobody", request |-> NoRequest, copy |-> NoRequest,
           text |-> "unsure", alone |-> FALSE]

AtWork(k, op) == handler[k] # Idling /\ Head(handler[k].todo) = op

AnswerTypeOK ==
    /\ open \subseteq Request
    /\ state \in [Sender -> {"none", "entering_prompt", "submitting_secret", "another"}]
    /\ requestId \in [Sender -> Request \cup {NoRequest}]
    /\ pages \subseteq Sender \X Request
    /\ \A k \in Update :
           /\ AtWork(k, "fulfil") => handler[k].request \in Request
           /\ handler[k].copy \in Request \cup {NoRequest} /\ handler[k].text \in Purpose
    /\ inputs \in Nat /\ failures \in Nat
    /\ meant \in [Sender -> Purpose]
    /\ received \subseteq [text: Purpose, as: Request \cup {"request"}, alone: BOOLEAN]

AnswerInit ==
    /\ open = Request
    /\ state = [u \in Sender |-> "none"]
    /\ requestId = [u \in Sender |-> NoRequest]
    /\ pages = {}
    /\ handler = [k \in Update |-> Idling]
    /\ inputs = 0 /\ failures = 0
    /\ meant = [u \in Sender |-> "other"]
    /\ received = {}

-----------------------------------------------------------------------------
(* Buttons and messages *)

BusyFor(u) == {k \in Update : handler[k] # Idling /\ handler[k].user = u}

\* Until the page of this update is shown the user does not know what the next message will be.
Incoming(k, u, r, text, todo) ==
    /\ handler[k] = Idling
    /\ inputs < MaxInputs
    /\ inputs' = inputs + 1
    /\ handler' = [j \in Update |->
           IF j = k THEN [todo |-> todo, user |-> u, request |-> r, copy |-> NoRequest,
                          text |-> text, alone |-> BusyFor(u) = {}]
           ELSE IF j \in BusyFor(u) THEN [handler[j] EXCEPT !.alone = FALSE] ELSE handler[j]]
    /\ meant' = [meant EXCEPT ![u] = "unsure"]
    /\ UNCHANGED <<open, state, requestId, pages, failures, received>>

ClearAll == <<"clear_state", "clear_data">>

\* /start rq_{token}
start(k, u, r) == Incoming(k, u, r, "unsure", ClearAll \o <<"page">>)

request_submit_start(k, u, r) ==
    /\ <<u, r>> \in pages
    /\ Incoming(k, u, r, "unsure", <<"look", "to_submitting", "fetch", "put", "ask">>)

\* The message is deleted from the chat first, which takes Telegram a while; the draft is read
\* after it.
request_submit_value(k, u) ==
    /\ state[u] = "submitting_secret"
    /\ Incoming(k, u, NoRequest, meant[u], <<"which", "fulfil">> \o ClearAll \o <<"home">>)

request_create_start(k, u) ==
    Incoming(k, u, NoRequest, "unsure", <<"to_entering", "ask_prompt">>)

request_prompt_value(k, u) ==
    /\ state[u] = "entering_prompt"
    /\ Incoming(k, u, NoRequest, meant[u], <<"create">> \o ClearAll \o <<"home">>)

\* A mutant of menu_callback: it empties the draft and leaves the state.
menu_callback_keeps_state(k, u) ==
    Incoming(k, u, NoRequest, "unsure", <<"clear_data", "home">>)

\* «menu», «cancel», and every other screen that clears state and data.
menu_callback(k, u) == Incoming(k, u, NoRequest, "unsure", ClearAll \o <<"home">>)

\* A button that begins another dialogue: its state, and its fields in the same draft.
another_dialogue(k, u) ==
    Incoming(k, u, NoRequest, "unsure", <<"fetch", "put", "to_another", "home">>)

-----------------------------------------------------------------------------
(* The steps of a handler *)

GoesOn(k, h) ==
    handler' = [handler EXCEPT ![k] =
        IF Len(h.todo) = 1 THEN Idling ELSE [h EXCEPT !.todo = Tail(@)]]
Proceeds(k) == GoesOn(k, handler[k])
Returns(k) == handler' = [handler EXCEPT ![k] = Idling]

\* FSMContext.set_state
To(k, op, s) ==
    /\ AtWork(k, op)
    /\ state' = [state EXCEPT ![handler[k].user] = s]
    /\ Proceeds(k)
    /\ UNCHANGED <<open, requestId, pages, inputs, failures, meant, received>>

SetState(k) ==
    \/ To(k, "clear_state", "none") \/ To(k, "to_submitting", "submitting_secret")
    \/ To(k, "to_entering", "entering_prompt") \/ To(k, "to_another", "another")

ClearDraft(k) ==
    /\ AtWork(k, "clear_data")
    /\ requestId' = [requestId EXCEPT ![handler[k].user] = NoRequest]
    /\ Proceeds(k)
    /\ UNCHANGED <<open, state, pages, inputs, failures, meant, received>>

\* What the page that ends a handler tells its user, if it is the only one on its way.
Told(k, what) == meant' = [meant EXCEPT ![handler[k].user] =
                               IF handler[k].alone THEN what ELSE "unsure"]

\* The page of a request, with its button if it can be answered.
Page(k) ==
    LET h == handler[k]
    IN  /\ AtWork(k, "page")
        /\ pages' = IF h.request \in open THEN pages \cup {<<h.user, h.request>>} ELSE pages
        /\ Told(k, "other")
        /\ Proceeds(k)
        /\ UNCHANGED <<open, state, requestId, inputs, failures, received>>

Ask(k) ==
    /\ \/ AtWork(k, "ask") /\ Told(k, handler[k].request)
       \/ AtWork(k, "ask_prompt") /\ Told(k, "request")
       \/ AtWork(k, "home") /\ Told(k, "other")
    /\ Proceeds(k)
    /\ UNCHANGED <<open, state, requestId, pages, inputs, failures, received>>

\* The request may have ended since its page was shown.
Look(k) ==
    /\ AtWork(k, "look")
    /\ IF handler[k].request \in open THEN Proceeds(k) ELSE Returns(k)
    /\ UNCHANGED <<open, state, requestId, pages, inputs, failures, meant, received>>

\* FSMContext.update_data reads the whole draft and writes it back with the new fields.
Fetch(k) ==
    /\ AtWork(k, "fetch")
    /\ GoesOn(k, [handler[k] EXCEPT !.copy = requestId[handler[k].user]])
    /\ UNCHANGED <<open, state, requestId, pages, inputs, failures, meant, received>>

\* Other dialogues have no request: what they read they write back.
Merged(h) == IF h.request = NoRequest THEN h.copy ELSE h.request

Put(k) ==
    LET h == handler[k]
    IN  /\ AtWork(k, "put")
        /\ requestId' = [requestId EXCEPT ![h.user] = Merged(h)]
        /\ GoesOn(k, [h EXCEPT !.copy = NoRequest])
        /\ UNCHANGED <<open, state, pages, inputs, failures, meant, received>>

\* A mutant of Which: a draft without the field is no reason to stop.
WhichUnchecked(k) ==
    LET r == requestId[handler[k].user]
    IN  /\ AtWork(k, "which")
        /\ GoesOn(k, [handler[k] EXCEPT !.request = r])
        /\ UNCHANGED <<open, state, requestId, pages, inputs, failures, meant, received>>

\* (await state.get_data())["request_id"]: a KeyError when the data was cleared meanwhile.
Which(k) ==
    LET r == requestId[handler[k].user]
    IN  /\ AtWork(k, "which")
        /\ IF r = NoRequest THEN Returns(k) ELSE GoesOn(k, [handler[k] EXCEPT !.request = r])
        /\ UNCHANGED <<open, state, requestId, pages, inputs, failures, meant, received>>

Receives(h, as) == received' = received \cup {[text |-> h.text, as |-> as, alone |-> h.alone]}

\* fulfill_request: the request is used and its owner gets the secret, or nothing happens.
Fulfil(k) ==
    LET h == handler[k]
    IN  /\ AtWork(k, "fulfil")
        /\ open' = open \ {h.request}
        /\ IF h.request \in open THEN Receives(h, h.request) ELSE UNCHANGED received
        /\ Proceeds(k)
        /\ UNCHANGED <<state, requestId, pages, inputs, failures, meant>>

\* create_request with the text as its prompt, which whoever has the link will read.
CreateRequest(k) ==
    /\ AtWork(k, "create")
    /\ Receives(handler[k], "request")
    /\ Proceeds(k)
    /\ UNCHANGED <<open, state, requestId, pages, inputs, failures, meant>>

-----------------------------------------------------------------------------
(* What happens meanwhile *)

\* Answered by another user, cancelled or expired.
RequestEnds(r) ==
    /\ r \in open
    /\ open' = open \ {r}
    /\ UNCHANGED <<state, requestId, pages, handler, inputs, failures, meant, received>>

Failed == failures < MaxFailures /\ failures' = failures + 1

\* Redis, the database or Telegram is away: the handler ends where it is.
AnswerFails(k) ==
    /\ handler[k] # Idling
    /\ Failed
    /\ Returns(k)
    /\ UNCHANGED <<open, state, requestId, pages, inputs, meant, received>>

BotRestarts ==
    /\ Failed
    /\ handler' = [k \in Update |-> Idling]
    /\ UNCHANGED <<open, state, requestId, pages, inputs, meant, received>>

-----------------------------------------------------------------------------

Input(k, u) ==
    \/ \E r \in Request : start(k, u, r) \/ request_submit_start(k, u, r)
    \/ request_submit_value(k, u) \/ request_create_start(k, u) \/ request_prompt_value(k, u)
    \/ menu_callback(k, u) \/ another_dialogue(k, u)

Handle(k) ==
    \/ SetState(k) \/ ClearDraft(k) \/ Page(k) \/ Ask(k) \/ Look(k) \/ Fetch(k) \/ Put(k)
    \/ Which(k) \/ Fulfil(k) \/ CreateRequest(k) \/ AnswerFails(k)

AnswerNext ==
    \/ \E k \in Update : Handle(k) \/ \E u \in Sender : Input(k, u)
    \/ \E r \in Request : RequestEnds(r)
    \/ BotRestarts

AnswerSpec == AnswerInit /\ [][AnswerNext]_answervars

-----------------------------------------------------------------------------
(* Properties *)

\* A message goes where its sender means it to go, if no other update of the sender's is
\* handled beside it: an answer to the request whose page asked for it, a prompt into a new
\* request, and neither into the other's place, after any number of links opened, abandoned
\* dialogues, failed handlers and restarts. (With another one beside it an answer can go to
\* another request: handlers.py:1009 reads the draft after the chat was cleaned.)
AnswersWhereMeant ==
    \A m \in received : m.alone /\ m.text # "unsure" => m.as = m.text

=============================================================================
