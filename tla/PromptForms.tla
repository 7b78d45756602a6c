----------------------------- MODULE PromptForms -----------------------------
(***************************************************************************)
(* Values only a human can type: the pending-input queue, the loopback web *)
(* surface whose links the human opens, and the calls that enqueue, wait   *)
(* for and fill what was typed.                                            *)
(*                                                                         *)
(* Every agent call and every web connection runs on a thread of its own;  *)
(* a step is one critical section of the queue, of the nonce table, or one *)
(* whole vs_act (its inside is PageOps).  All forms are on one page: forms *)
(* on different pages never meet.  What was typed is not modelled, only    *)
(* where it is.                                                            *)
(***************************************************************************)
EXTENDS Naturals, Sequences, FiniteSets

CONSTANTS
    Agents,       \* threads serving vs_prompt_input, vs_prompt_form, ..._wait
    Humans,       \* browsers and shells the human uses
    Asks,         \* what an agent may ask for: sequences of refs
    MaxFields,    \* the longest of them
    MaxAsks,      \* bound: forms and prompts ever enqueued
    MaxPrompts,   \* bound: how many of them are single prompts
    MaxWaits,     \* bound: vs_prompt_form_wait calls
    MaxLooks,     \* bound: GETs of an entry link
    MaxAged,      \* bound: entries that outlive ORPHAN_TTL
    MaxMoves,     \* bound: times the page moves by itself or for others
    MaxFaults,    \* bound: fills that fail on the page
    MaxTokens     \* bound: the page has one of the state tokens 0..MaxTokens

ASSUME AskAssumption ==
    /\ \A r \in Asks : r \in Seq(Nat) /\ Len(r) \in 1..MaxFields
    /\ Asks # {}

ASSUME LimitAssumption ==
    /\ MaxFields \in Nat /\ MaxAsks \in Nat /\ MaxPrompts \in Nat
    /\ MaxWaits \in Nat /\ MaxLooks \in Nat /\ MaxAged \in Nat /\ MaxMoves \in Nat
    /\ MaxFaults \in Nat /\ MaxTokens \in Nat

Slots == 1..MaxAsks

(* A token is a hash of what the page shows: a page that shows again what it *)
(* showed before has its token of then.                                     *)
Tokens == 0..MaxTokens

VARIABLES
    kind,     \* what each slot was used for: a form or a single prompt
    ask,      \* the refs a slot's entries are for
    state,    \* the queue: entry -> its FulfillState, "absent" when not there
    aged,     \* entries older than ORPHAN_TTL
    nonce,    \* entry links: one per form, 0 is the unscoped one
    agent,    \* the agents' calls
    human,    \* what each human has open or is submitting
    tok,      \* the page's state token
    idem,     \* vs_act rows of a fill: token it ran on -> token it left
    filled,   \* entries whose value reached the page
    replayed, \* entries whose fill was answered from an old row instead
    typed,    \* entries the human was told were delivered
    refused,  \* entries the human was told were cancelled
    dropped,  \* slots superseded by a later ask or with an entry past its TTL
    nwaits, nlooks, nfaults, nmoves

queueVars == <<kind, ask, state, aged>>
pageVars == <<tok, idem, filled, replayed>>
histVars == <<typed, refused, dropped>>
countVars == <<nwaits, nlooks, nfaults, nmoves>>
vars == <<queueVars, nonce, agent, human, pageVars, histVars, countVars>>

(* An entry is its slot and its form_index, from 1; a prompt's only entry   *)
(* has index 0.                                                             *)
Ids == Slots \X (0..MaxFields)

Fields(s) == {<<s, i>> : i \in 1..Len(ask[s])}

Queued(s) == {e \in Fields(s) : state[e] # "absent"}

(* Nothing that was asked for with slot s has outlived ORPHAN_TTL.          *)
Young(s) == \A e \in aged : e[1] # s

Used == Cardinality({s \in Slots : kind[s] # "free"})

Prompts == Cardinality({s \in Slots : kind[s] = "prompt"})

Idle == [pc |-> "idle", slot |-> 0, next |-> 0, due |-> FALSE, held |-> {},
         todo |-> {}, tok |-> 0, answer |-> "none"]

Away == [pc |-> "away", link |-> 0, ids |-> {}]

Init ==
    /\ kind = [s \in Slots |-> "free"]
    /\ ask = [s \in Slots |-> <<>>]
    /\ state = [e \in Ids |-> "absent"]
    /\ aged = {}
    /\ nonce = [n \in 0..MaxAsks |-> "none"]
    /\ agent = [a \in Agents |-> Idle]
    /\ human = [h \in Humans |-> Away]
    /\ tok = 0
    /\ idem = {} /\ filled = {} /\ replayed = {} /\ typed = {} /\ refused = {} /\ dropped = {}
    /\ nwaits = 0 /\ nlooks = 0 /\ nfaults = 0 /\ nmoves = 0

-----------------------------------------------------------------------------
(* The queue.                                                               *)

(* PendingQueue::gc.                                                        *)
gc(st) == [e \in Ids |-> IF e \in aged THEN "absent" ELSE st[e]]

(* A thread blocked on the condvar, woken; notify_all wakes them all.       *)
Woken(r) ==
    CASE r.pc = "parked" -> [r EXCEPT !.pc = "check"]
      [] r.pc = "waiting" -> [r EXCEPT !.pc = "awake"]
      [] OTHER -> r

notify_all(ag) == [a \in Agents |-> Woken(ag[a])]

(* The form's entries still in the queue, by form_index, are for `refs`.    *)
Listed(s, refs) ==
    \E at \in [DOMAIN refs -> DOMAIN ask[s]] :
      /\ \A i, j \in DOMAIN refs : i < j => at[i] < at[j]
      /\ Queued(s) = {<<s, at[i]>> : i \in DOMAIN refs}
      /\ \A i \in DOMAIN refs : refs[i] = ask[s][at[i]]

(* Mutant: forms are compared by how many fields they have.                 *)
DeadByCount(refs) ==
    {s \in Slots :
       /\ kind[s] = "form"
       /\ Queued(s) # {}
       /\ \A e \in Queued(s) : state[e] = "pending"
       /\ Cardinality(Queued(s)) = Len(refs)}

(* PendingQueue::supersede: the forms a fresh ask for `refs` makes dead.    *)
Dead(refs) ==
    {s \in Slots :
       /\ kind[s] = "form"
       /\ Queued(s) # {}
       /\ \A e \in Queued(s) : state[e] = "pending"
       /\ Listed(s, refs)}

-----------------------------------------------------------------------------
(* vs_prompt_form: supersede, then one entry at a time, then the link.      *)

Ask(a, refs) ==
    /\ agent[a].pc = "idle"
    /\ Used < MaxAsks
    /\ LET s == Used + 1
           dead == Dead(refs)
           mine == [agent EXCEPT ![a] = [Idle EXCEPT !.pc = "enqueue", !.slot = s, !.next = 1]]
       IN  /\ kind' = [kind EXCEPT ![s] = "form"]
           /\ ask' = [ask EXCEPT ![s] = refs]
           /\ state' = [e \in Ids |->
                          IF e[1] \in dead /\ e \in Queued(e[1]) THEN "cancelled" ELSE state[e]]
           /\ agent' = IF dead = {} THEN mine ELSE notify_all(mine)
           /\ dropped' = dropped \cup dead
    /\ UNCHANGED <<aged, nonce, human, pageVars, typed, refused, countVars>>

Enqueue(a) ==
    LET s == agent[a].slot
        i == agent[a].next
    IN  /\ agent[a].pc = "enqueue"
        /\ state' = [gc(state) EXCEPT ![<<s, i>>] = "pending"]
        /\ agent' = [agent EXCEPT ![a].next = i + 1,
                                  ![a].pc = IF i = Len(ask[s]) THEN "mint" ELSE "enqueue"]
        /\ UNCHANGED <<kind, ask, aged, nonce, human, pageVars, histVars, countVars>>

MintForm(a) ==
    /\ agent[a].pc = "mint"
    /\ nonce' = [nonce EXCEPT ![agent[a].slot] = "live"]
    /\ agent' = [agent EXCEPT ![a] = [Idle EXCEPT !.answer = "asked", !.slot = agent[a].slot]]
    /\ UNCHANGED <<queueVars, human, pageVars, histVars, countVars>>

-----------------------------------------------------------------------------
(* vs_prompt_form_wait.                                                     *)

Wait(a, s) ==
    /\ agent[a].pc = "idle"
    /\ nwaits < MaxWaits
    /\ kind[s] = "form" /\ nonce[s] # "none"
    /\ nwaits' = nwaits + 1
    /\ agent' = [agent EXCEPT ![a] = [Idle EXCEPT !.pc = "check", !.slot = s]]
    /\ UNCHANGED <<queueVars, nonce, human, pageVars, histVars, nlooks, nfaults, nmoves>>

Answer(a, what) ==
    agent' = [agent EXCEPT ![a] = [Idle EXCEPT !.answer = what, !.slot = agent[a].slot]]

(* One turn of wait_form's loop, under the queue's lock.                    *)
CheckForm(a) ==
    LET s == agent[a].slot
        here == Queued(s)
        without == [e \in Ids |-> IF e[1] = s THEN "absent" ELSE state[e]]
    IN  /\ agent[a].pc = "check"
        /\ \/ /\ \E e \in here : state[e] = "cancelled"
              /\ state' = without
              /\ Answer(a, "cancelled")
           \/ /\ here = {}
              /\ Answer(a, "unknown")
              /\ UNCHANGED state
           \/ /\ here # {}
              /\ \A e \in here : state[e] = "fulfilled"
              /\ state' = without
              /\ agent' = [agent EXCEPT ![a].pc = "token", ![a].held = here, ![a].todo = here]
           \/ /\ \E e \in here : state[e] = "pending"
              /\ \A e \in here : state[e] # "cancelled"
              /\ IF agent[a].due THEN Answer(a, "pending")
                 ELSE agent' = [agent EXCEPT ![a].pc = "parked"]
              /\ UNCHANGED state
        /\ UNCHANGED <<kind, ask, aged, nonce, human, pageVars, histVars, countVars>>

(* The first field goes by the page's current token.                        *)
ReadToken(a) ==
    /\ agent[a].pc = "token"
    /\ agent' = [agent EXCEPT ![a].pc = "fill", ![a].tok = tok]
    /\ UNCHANGED <<queueVars, nonce, human, pageVars, histVars, countVars>>

-----------------------------------------------------------------------------
(* vs_prompt_input: enqueue_and_wait, then one fill.                        *)

Prompt(a, refs) ==
    /\ agent[a].pc = "idle"
    /\ Used < MaxAsks /\ Prompts < MaxPrompts
    /\ LET s == Used + 1
       IN  /\ kind' = [kind EXCEPT ![s] = "prompt"]
           /\ ask' = [ask EXCEPT ![s] = <<refs[1]>>]
           /\ state' = [state EXCEPT ![<<s, 0>>] = "pending"]
           /\ agent' = [agent EXCEPT ![a] =
                          [Idle EXCEPT !.pc = "inserted", !.slot = s, !.tok = tok]]
    /\ UNCHANGED <<aged, nonce, human, pageVars, histVars, countVars>>

(* The lock is taken again, and the condvar waited on before a first look.  *)
ParkPrompt(a) ==
    /\ agent[a].pc = "inserted"
    /\ IF agent[a].due
       THEN Answer(a, "none") /\ state' = [state EXCEPT ![<<agent[a].slot, 0>>] = "absent"]
       ELSE agent' = [agent EXCEPT ![a].pc = "waiting"] /\ UNCHANGED state
    /\ UNCHANGED <<kind, ask, aged, nonce, human, pageVars, histVars, countVars>>

CheckPrompt(a) ==
    LET e == <<agent[a].slot, 0>>
        removed == [state EXCEPT ![e] = "absent"]
    IN  /\ agent[a].pc = "awake"
        /\ \/ /\ state[e] = "fulfilled"
              /\ state' = removed
              /\ agent' = [agent EXCEPT ![a].pc = "fill", ![a].held = {e}, ![a].todo = {e}]
           \/ /\ state[e] \in {"absent", "cancelled"}
              /\ state' = removed
              /\ Answer(a, "none")
           \/ /\ state[e] = "pending"
              /\ agent[a].due
              /\ state' = removed
              /\ Answer(a, "none")
           \/ /\ state[e] = "pending"
              /\ ~agent[a].due
              /\ agent' = [agent EXCEPT ![a].pc = "waiting"]
              /\ UNCHANGED state
        /\ UNCHANGED <<kind, ask, aged, nonce, human, pageVars, histVars, countVars>>

(* A waiter's budget runs out; a parked one is woken by that.               *)
Deadline(a) ==
    /\ agent[a].pc \in {"check", "parked", "inserted", "waiting", "awake"}
    /\ ~agent[a].due
    /\ agent' = [agent EXCEPT ![a] = [Woken(agent[a]) EXCEPT !.due = TRUE]]
    /\ UNCHANGED <<queueVars, nonce, human, pageVars, histVars, countVars>>

(* A condvar may also wake a thread for no reason.                          *)
SpuriousWake(a) ==
    /\ agent[a].pc \in {"parked", "waiting"}
    /\ agent' = [agent EXCEPT ![a] = Woken(agent[a])]
    /\ UNCHANGED <<queueVars, nonce, human, pageVars, histVars, countVars>>

-----------------------------------------------------------------------------
(* The fills: one vs_act per field, in form_index order, each on the token  *)
(* the one before left.  The idempotency key of a fill is the page, the     *)
(* token and the redacted arguments, so it does not tell fields apart.      *)

Field(a) == CHOOSE e \in agent[a].todo : \A f \in agent[a].todo : e[2] <= f[2]

(* Mutants: the loop over the fields ends one too late, or after the first. *)
FilledNoEnd(a, t) ==
    agent' = [agent EXCEPT ![a].todo = @ \ {Field(a)}, ![a].tok = t]

FilledOnce(a, t) ==
    agent' = [agent EXCEPT ![a] = [Idle EXCEPT !.answer = "ok", !.slot = agent[a].slot]]

Filled(a, t) ==
    agent' = [agent EXCEPT ![a] =
                IF agent[a].todo = {Field(a)}
                THEN [Idle EXCEPT !.answer = "ok", !.slot = agent[a].slot]
                ELSE [agent[a] EXCEPT !.todo = @ \ {Field(a)}, !.tok = t]]

Fill(a) ==
    /\ agent[a].pc = "fill"
    /\ agent[a].tok = tok
    /\ \A row \in idem : row.on # tok
    /\ \E t \in Tokens :
         /\ tok' = t
         /\ idem' = idem \cup {[on |-> tok, left |-> t]}
         /\ Filled(a, t)
    /\ filled' = filled \cup {Field(a)}
    /\ UNCHANGED <<queueVars, nonce, human, replayed, histVars, countVars>>

FillHit(a) ==
    /\ agent[a].pc = "fill"
    /\ agent[a].tok = tok
    /\ \E row \in idem : row.on = tok /\ Filled(a, row.left)
    /\ replayed' = replayed \cup {Field(a)}
    /\ UNCHANGED <<queueVars, nonce, human, tok, idem, filled, histVars, countVars>>

(* Mutant: the values of a form that cannot be filled are not restored.     *)
FillErrorDrops(a) ==
    /\ agent[a].pc = "fill"
    /\ \/ agent[a].tok # tok /\ UNCHANGED nfaults
       \/ nfaults < MaxFaults /\ nfaults' = nfaults + 1
    /\ agent' = [agent EXCEPT ![a] = [Idle EXCEPT !.answer = "err", !.slot = agent[a].slot]]
    /\ UNCHANGED <<queueVars, nonce, human, pageVars, histVars, nwaits, nlooks, nmoves>>

(* A stale token, or the ref is gone.  prompt_form_wait restores what it    *)
(* collected, fulfilled; prompt_input_queue does not.                       *)
FillError(a) ==
    /\ agent[a].pc = "fill"
    /\ \/ agent[a].tok # tok /\ UNCHANGED nfaults
       \/ nfaults < MaxFaults /\ nfaults' = nfaults + 1
    /\ LET answered == [agent EXCEPT ![a] =
                          [Idle EXCEPT !.answer = "err", !.slot = agent[a].slot]]
           form == kind[agent[a].slot] = "form"
       IN  /\ agent' = IF form THEN notify_all(answered) ELSE answered
           /\ state' = [e \in Ids |-> IF form /\ e \in agent[a].held THEN "fulfilled"
                                      ELSE state[e]]
    /\ UNCHANGED <<kind, ask, aged, nonce, human, pageVars, histVars, nwaits, nlooks, nmoves>>

(* The page moves on by itself or for another caller; rows run out.         *)
PageMoves ==
    /\ nmoves < MaxMoves
    /\ nmoves' = nmoves + 1
    /\ tok' \in Tokens \ {tok}
    /\ UNCHANGED <<queueVars, nonce, agent, human, idem, filled, replayed, histVars,
                   nwaits, nlooks, nfaults>>

IdemExpire ==
    /\ \E row \in idem : idem' = idem \ {row}
    /\ UNCHANGED <<queueVars, nonce, agent, human, tok, filled, replayed, histVars, countVars>>

-----------------------------------------------------------------------------
(* The web surface: a GET shows what the link covers, a POST spends the     *)
(* link and then fulfills or cancels entry by entry.                        *)

MintUnscoped ==
    /\ nonce[0] = "none"
    /\ nonce' = [nonce EXCEPT ![0] = "live"]
    /\ UNCHANGED <<queueVars, agent, human, pageVars, histVars, countVars>>

NonceExpires(n) ==
    /\ nonce[n] = "live"
    /\ nonce' = [nonce EXCEPT ![n] = "gone"]
    /\ UNCHANGED <<queueVars, agent, human, pageVars, histVars, countVars>>

(* PendingQueue::list, filtered by the link's scope.                        *)
Shown(n) == {e \in Ids : /\ gc(state)[e] = "pending"
                         /\ n = 0 \/ (e[1] = n /\ e[2] # 0)}

Look(h, n) ==
    /\ human[h].pc = "away"
    /\ nonce[n] = "live"
    /\ nlooks < MaxLooks
    /\ nlooks' = nlooks + 1
    /\ state' = gc(state)
    /\ human' = [human EXCEPT ![h] = [pc |-> "reading", link |-> n, ids |-> Shown(n)]]
    /\ UNCHANGED <<kind, ask, aged, nonce, agent, pageVars, histVars, nwaits, nfaults,
                   nmoves>>

(* Mutant: a POST checks the link but does not spend it.                    *)
PostKeepsLink(h, button) ==
    /\ human[h].pc = "reading"
    /\ human' = [human EXCEPT ![h] = IF nonce[human[h].link] = "live"
                                     THEN [human[h] EXCEPT !.pc = button] ELSE Away]
    /\ UNCHANGED <<queueVars, nonce, agent, pageVars, histVars, countVars>>

(* The button pressed: Submit sends what was shown, Cancel covers whatever  *)
(* the link covers by then.                                                 *)
Post(h, button) ==
    /\ human[h].pc = "reading"
    /\ IF nonce[human[h].link] = "live"
       THEN /\ nonce' = [nonce EXCEPT ![human[h].link] = "spent"]
            /\ human' = [human EXCEPT ![h].pc = button]
       ELSE /\ human' = [human EXCEPT ![h] = Away]
            /\ UNCHANGED nonce
    /\ UNCHANGED <<queueVars, agent, pageVars, histVars, countVars>>

CancelList(h) ==
    /\ human[h].pc = "listing"
    /\ state' = gc(state)
    /\ human' = [human EXCEPT ![h].pc = "cancelling", ![h].ids = Shown(human[h].link)]
    /\ UNCHANGED <<kind, ask, aged, nonce, agent, pageVars, histVars, countVars>>

(* Mutants: no notify_all; a cancelled entry leaves the queue at once.      *)
fulfillSilent(e) ==
    IF state[e] = "pending"
    THEN /\ state' = [state EXCEPT ![e] = "fulfilled"]
         /\ typed' = typed \cup {e}
         /\ UNCHANGED <<agent, refused>>
    ELSE UNCHANGED <<state, agent, typed, refused>>

cancelRemoves(e) ==
    IF state[e] = "pending"
    THEN /\ state' = [state EXCEPT ![e] = "absent"]
         /\ refused' = refused \cup {e}
         /\ agent' = notify_all(agent)
         /\ UNCHANGED typed
    ELSE UNCHANGED <<state, agent, typed, refused>>

(* PendingQueue::fulfill and PendingQueue::cancel.                          *)
fulfill(e) ==
    IF state[e] = "pending"
    THEN /\ state' = [state EXCEPT ![e] = "fulfilled"]
         /\ typed' = typed \cup {e}
         /\ agent' = notify_all(agent)
         /\ UNCHANGED refused
    ELSE UNCHANGED <<state, agent, typed, refused>>

cancel(e) ==
    IF state[e] = "pending"
    THEN /\ state' = [state EXCEPT ![e] = "cancelled"]
         /\ refused' = refused \cup {e}
         /\ agent' = notify_all(agent)
         /\ UNCHANGED typed
    ELSE UNCHANGED <<state, agent, typed, refused>>

PostEntry(h) ==
    /\ human[h].pc \in {"submitting", "cancelling"}
    /\ \E e \in human[h].ids :
         /\ IF human[h].pc = "submitting" THEN fulfill(e) ELSE cancel(e)
         /\ human' = [human EXCEPT ![h].ids = @ \ {e}]
    /\ UNCHANGED <<kind, ask, aged, nonce, pageVars, dropped, countVars>>

Posted(h) ==
    /\ human[h].pc \in {"submitting", "cancelling"}
    /\ human[h].ids = {}
    /\ human' = [human EXCEPT ![h] = Away]
    /\ UNCHANGED <<queueVars, nonce, agent, pageVars, histVars, countVars>>

(* vs pending fulfill, cancel and list, at the shell.                       *)
Shell(h) ==
    /\ human[h].pc = "away"
    /\ \/ \E e \in Ids : state[e] = "pending" /\ (fulfill(e) \/ cancel(e))
       \/ state' = gc(state) /\ state' # state /\ UNCHANGED <<agent, typed, refused>>
    /\ UNCHANGED <<kind, ask, aged, nonce, human, pageVars, dropped, countVars>>

(* ORPHAN_TTL passes for an entry, the older ones of its form first.        *)
Age(e) ==
    /\ e \notin aged
    /\ Cardinality(aged) < MaxAged
    /\ state[e] # "absent" \/ \E a \in Agents : e \in agent[a].held
    /\ \A f \in Fields(e[1]) : f[2] < e[2] => f \in aged
    /\ aged' = aged \cup {e}
    /\ dropped' = dropped \cup {e[1]}
    /\ UNCHANGED <<kind, ask, state, nonce, agent, human, pageVars, typed, refused,
                   countVars>>

-----------------------------------------------------------------------------
AgentStep(a) ==
    \/ Enqueue(a) \/ MintForm(a) \/ CheckForm(a) \/ ReadToken(a)
    \/ ParkPrompt(a) \/ CheckPrompt(a)
    \/ Fill(a) \/ FillHit(a) \/ FillError(a)

HumanStep(h) == CancelList(h) \/ PostEntry(h) \/ Posted(h)

(* Nothing is asked and nobody types.                                       *)
Rest ==
    /\ \A a \in Agents : agent[a].pc = "idle"
    /\ UNCHANGED vars

Next ==
    \/ \E a \in Agents : \/ AgentStep(a) \/ Deadline(a) \/ SpuriousWake(a)
                         \/ \E r \in Asks : Ask(a, r) \/ Prompt(a, r)
                         \/ \E s \in Slots : Wait(a, s)
    \/ \E h \in Humans : \/ HumanStep(h) \/ Shell(h)
                         \/ \E n \in 0..MaxAsks : Look(h, n)
                         \/ \E b \in {"submitting", "listing"} : Post(h, b)
    \/ \E n \in 0..MaxAsks : NonceExpires(n)
    \/ \E e \in Ids : Age(e)
    \/ PageMoves \/ IdemExpire \/ MintUnscoped \/ Rest

Spec == Init /\ [][Next]_vars

(* The daemon's threads run on; nobody has to type, and no budget has to    *)
(* run out.                                                                 *)
FairSpec ==
    /\ Spec
    /\ \A a \in Agents : WF_vars(AgentStep(a))
    /\ \A h \in Humans : WF_vars(HumanStep(h))

-----------------------------------------------------------------------------
AgentPcs == {"idle", "enqueue", "mint", "check", "parked", "token", "fill",
             "inserted", "waiting", "awake"}

Answers == {"none", "asked", "ok", "err", "pending", "cancelled", "unknown"}

AgentStates ==
    [pc : AgentPcs, slot : 0..MaxAsks, next : Nat, due : BOOLEAN,
     held : SUBSET Ids, todo : SUBSET Ids, tok : Nat, answer : Answers]

HumanStates ==
    [pc : {"away", "reading", "submitting", "listing", "cancelling"},
     link : 0..MaxAsks, ids : SUBSET Ids]

TypeQueue ==
    /\ kind \in [Slots -> {"free", "form", "prompt"}]
    /\ ask \in [Slots -> Seq(Nat)]
    /\ \A s \in Slots : Len(ask[s]) <= MaxFields
    /\ state \in [Ids -> {"absent", "pending", "fulfilled", "cancelled"}]
    /\ aged \subseteq Ids

TypeAgents ==
    /\ agent \in [Agents -> AgentStates]
    /\ \A a \in Agents :
         /\ agent[a].pc # "idle" => agent[a].slot \in Slots
         /\ agent[a].todo \subseteq agent[a].held
         /\ agent[a].pc \in {"token", "fill"} => agent[a].todo # {}

TypeWeb ==
    /\ nonce \in [0..MaxAsks -> {"none", "live", "spent", "gone"}]
    /\ human \in [Humans -> HumanStates]

TypePage ==
    /\ tok \in Tokens
    /\ idem \subseteq [on : Tokens, left : Tokens]
    /\ filled \subseteq Ids /\ replayed \subseteq Ids

TypeHistory ==
    /\ typed \subseteq Ids /\ refused \subseteq Ids
    /\ dropped \subseteq Slots
    /\ nwaits \in Nat /\ nlooks \in Nat /\ nfaults \in Nat /\ nmoves \in Nat

TypeOK == TypeQueue /\ TypeAgents /\ TypeWeb /\ TypePage /\ TypeHistory

(* What the human typed into a form is never lost: it waits in the queue,   *)
(* is with a call that is filling it, or is on the page - unless the form   *)
(* was cancelled, superseded, or left for longer than ORPHAN_TTL, or the    *)
(* fill of this entry was answered from an old row: the idempotency key     *)
(* (daemon/mod.rs:904) does not tell one redacted fill from another, so on  *)
(* a token some fill has run on already the next one is not carried out.    *)
FormTypingKept ==
    \A e \in typed : e[2] # 0 =>
       \/ state[e] = "fulfilled"
       \/ \E a \in Agents : e \in agent[a].held
       \/ e \in filled
       \/ e \in replayed
       \/ e[1] \in dropped
       \/ refused \cap Fields(e[1]) # {}

(* A vs_prompt_input whose fill failed has not lost the value either.       *)
PromptTypingKept ==
    \A a \in Agents :
      /\ agent[a].answer = "err"
      /\ kind[agent[a].slot] = "prompt"
      => LET e == <<agent[a].slot, 0>> IN state[e] = "fulfilled" \/ e \in filled

(* A vs_prompt_form_wait that succeeds has gone through every field of its  *)
(* form: all are on the page but those whose fill was a replay.             *)
SuccessFills(s) ==
    \A a \in Agents :
      agent[a].answer = "ok" /\ agent[a].slot = s /\ kind[s] = "form"
      => Fields(s) \subseteq filled \cup replayed

(* A vs_prompt_form_wait that succeeds has put every field on the page.     *)
SuccessFillsForm ==
    \A a \in Agents, s \in Slots :
      agent[a].answer = "ok" /\ agent[a].slot = s /\ kind[s] = "form"
      => Fields(s) \subseteq filled

(* A form the human cancelled a field of is not filled, before or after.    *)
CancelKept(s) ==
    \A e \in refused : e[1] = s =>
      /\ \A f \in filled : f[1] # s
      /\ \A a \in Agents, f \in Ids : f[1] = s => f \notin agent[a].held

CancelHonoured == \A s \in Slots : CancelKept(s)

(* The condvar is not waited on while there is something to collect: a      *)
(* parked vs_prompt_form_wait has an open field and no cancelled one.       *)
WaiterWoken(s) ==
    \A a \in Agents : agent[a].pc = "parked" /\ agent[a].slot = s =>
      /\ \E e \in Fields(s) : state[e] = "pending"
      /\ \A e \in Fields(s) : state[e] # "cancelled"

FormWaiterWoken == \A s \in Slots : WaiterWoken(s)

(* The same for a parked vs_prompt_input.                                   *)
PromptWaiterWoken ==
    \A a \in Agents : agent[a].pc = "waiting" => state[<<agent[a].slot, 0>>] = "pending"

(* ask[t] asks for the first fields of ask[s], in order.                    *)
FirstOf(t, s) ==
    Len(ask[t]) <= Len(ask[s]) /\ \A i \in 1..Len(ask[t]) : ask[t][i] = ask[s][i]

(* The step asks for a form that supersedes that of slot s.                 *)
Superseded(s) ==
    \E t \in Slots : /\ kind[t] = "free" /\ kind'[t] = "form"
                     /\ FirstOf(t, s)'
                     /\ nonce[s] # "none" => ask'[t] = ask[s]

(* A form the human may have the link of is superseded by an ask for        *)
(* exactly its fields, in order, and by no other; one that is still being   *)
(* enqueued, also by an ask for the first of them (pending.rs:182-213 sees  *)
(* what is in the queue).  A form with a field past its age is excepted.    *)
SupersededByTwin ==
    [][\A s \in dropped' \ dropped : Young(s)' => Superseded(s)]_vars

(* A link is spent by the submission that uses it: two never both go on.    *)
LinkSingleUse ==
    \A g, h \in Humans :
      /\ g # h
      /\ human[g].pc \in {"submitting", "listing", "cancelling"}
      /\ human[h].pc \in {"submitting", "listing", "cancelling"}
      => human[g].link # human[h].link

(* Once all of a form's fields are typed, its waiter is answered without    *)
(* having to run out of budget.                                             *)
TypedFormAnswered ==
    \A a \in Agents, s \in Slots :
      (/\ agent[a].slot = s
       /\ agent[a].pc \in {"check", "parked"}
       /\ kind[s] = "form"
       /\ \A e \in Fields(s) : state[e] = "fulfilled")
      ~> agent[a].pc = "idle"

(* The queue and its waiters are sound: the state has its type and no form  *)
(* waiter sleeps on something it could collect, unless a field grew too old *)
(* (the sweep wakes nobody).                                                *)
QueueSound == TypeOK /\ \A s \in Slots : Young(s) => WaiterWoken(s)

(* What vs_prompt_form_wait answers is what became of the form: a success   *)
(* filled all of it but the fields whose fill was a replay, and a cancelled *)
(* form was not filled at all, unless a field of it grew too old (what is   *)
(* left then counts as the whole form).                                     *)
FormAnswerTrue == \A s \in Slots : Young(s) => SuccessFills(s) /\ CancelKept(s)

-----------------------------------------------------------------------------
(* The inductive form.  Slots are used one after the other; an entry in the *)
(* queue is a field of its form or a prompt's, and what happened to an      *)
(* entry, or a link to it, is of a slot in use.                             *)
SlotInv ==
    /\ \E n \in 0..MaxAsks : \A s \in Slots : kind[s] # "free" <=> s <= n
    /\ \A s \in Slots : kind[s] # "form" => nonce[s] = "none"
    /\ \A e \in Ids : state[e] # "absent" =>
         IF e[2] = 0 THEN kind[e[1]] = "prompt"
         ELSE kind[e[1]] = "form" /\ e \in Fields(e[1])
    /\ \A e \in typed \cup filled \cup refused : kind[e[1]] # "free"

(* An agent works on a slot of its kind; until its link is minted, a form   *)
(* is its agent's alone.                                                    *)
Asking(a) == agent[a].pc \in {"enqueue", "mint"}
Collecting(a) == agent[a].pc \in {"check", "parked", "token"}
Filling(a) == agent[a].pc \in {"token", "fill"}

SlotOf(a) == agent[a].slot

AgentInv ==
    \A a \in Agents :
      /\ Asking(a) \/ Collecting(a) => kind[SlotOf(a)] = "form"
      /\ agent[a].pc \in {"inserted", "waiting", "awake"} => kind[SlotOf(a)] = "prompt"
      /\ agent[a].pc = "fill" => kind[SlotOf(a)] # "free"
      /\ agent[a].answer = "ok" => SlotOf(a) \in Slots /\ kind[SlotOf(a)] # "free"
      /\ Asking(a) => /\ nonce[SlotOf(a)] = "none"
                      /\ \A b \in Agents : Asking(b) /\ SlotOf(b) = SlotOf(a) => b = a
      /\ Collecting(a) \/ (agent[a].pc = "fill" /\ kind[SlotOf(a)] = "form")
           => nonce[SlotOf(a)] # "none"

(* Fields not enqueued yet: nobody has seen them.                           *)
FreshInv ==
    \A a \in Agents : agent[a].pc = "enqueue" =>
      /\ agent[a].next \in 1..Len(ask[SlotOf(a)])
      /\ \A i \in agent[a].next..Len(ask[SlotOf(a)]) :
           state[<<SlotOf(a), i>>] = "absent" /\ <<SlotOf(a), i>> \notin typed

(* What a call took out of the queue it still has to put on the page,       *)
(* unless the page or an old row has answered for it.                       *)
HoldInv ==
    \A a \in Agents :
      /\ agent[a].held # {} => Filling(a)
      /\ Filling(a) /\ kind[SlotOf(a)] = "form" => agent[a].held \subseteq Fields(SlotOf(a))
      /\ Filling(a) /\ kind[SlotOf(a)] = "prompt" => agent[a].held = {<<SlotOf(a), 0>>}
      /\ agent[a].held \ agent[a].todo \subseteq filled \cup replayed

(* Entries leave the queue for a reason.                                    *)
GoneInv ==
    /\ \A e \in aged : e[1] \in dropped
    /\ \A e \in Ids : state[e] = "cancelled" => e \in refused \/ e[1] \in dropped

(* While nothing of it outlives ORPHAN_TTL, a form's fields are together:   *)
(* all in the queue, or all in the hands of one call, or all gone.          *)
Together(s) ==
    /\ nonce[s] # "none" =>
         \/ \A e \in Fields(s) : state[e] = "absent"
         \/ \A e \in Fields(s) : state[e] # "absent"
    /\ \A a \in Agents : SlotOf(a) = s =>
         /\ agent[a].pc = "enqueue" =>
              \A i \in 1..(agent[a].next - 1) : state[<<s, i>>] # "absent"
         /\ agent[a].pc = "mint" => \A e \in Fields(s) : state[e] # "absent"
         /\ Filling(a) /\ kind[s] = "form" => agent[a].held = Fields(s)

(* No other call and no entry in the queue is about what a call holds; what *)
(* was filled is not asked for again; what was refused is not collected.    *)
Apart(s) ==
    /\ \A a \in Agents : \A e \in agent[a].held, f \in Ids : e[1] = s /\ f[1] = s =>
         /\ state[f] = "absent"
         /\ \A b \in Agents : f \in agent[b].held => b = a
    /\ \A e \in filled, f \in Ids : e[1] = s /\ f[1] = s => state[f] \in {"absent", "fulfilled"}
    /\ \A e \in refused : e[1] = s => \/ state[e] = "cancelled"
                                      \/ \A f \in Ids : f[1] = s => state[f] = "absent"
    /\ \A a \in Agents : Asking(a) /\ SlotOf(a) = s => \A e \in Ids : e[1] = s =>
         /\ e \notin filled
         /\ \A b \in Agents : e \notin agent[b].held
         /\ e \in refused => state[e] = "cancelled"

Whole(s) == /\ Together(s) /\ Apart(s) /\ CancelKept(s) /\ WaiterWoken(s)
            /\ SuccessFills(s)

WholeInv == \A s \in Slots : Young(s) => Whole(s)

(* A form was asked for, and its agent has it until its link is minted.     *)
AskInv ==
    /\ \A s \in Slots : kind[s] = "form" =>
         /\ ask[s] \in Asks
         /\ nonce[s] = "none" => \E a \in Agents : Asking(a) /\ SlotOf(a) = s
    /\ \A s \in dropped : kind[s] # "free"

(* A link in use was spent by whoever uses it.                              *)
LinkInv ==
    /\ \A h \in Humans : human[h].pc \in {"submitting", "listing", "cancelling"} =>
         nonce[human[h].link] = "spent"
    /\ LinkSingleUse

FormInv == /\ TypeOK /\ SlotInv /\ AgentInv /\ FreshInv /\ HoldInv
           /\ GoneInv /\ WholeInv /\ AskInv /\ LinkInv /\ FormTypingKept

=============================================================================
