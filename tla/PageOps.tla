------------------------------- MODULE PageOps -------------------------------
(***************************************************************************)
(* One open page of the daemon and the client calls that address it.       *)
(*                                                                         *)
(* Every wire request runs on a blocking thread of its own, so the calls   *)
(* of several clients interleave.  A step of this module is one critical   *)
(* section of the daemon (the session map, the store) or one job of the    *)
(* engine thread: the grain at which other threads can get in between.     *)
(*                                                                         *)
(* A tree is an opaque value: what the engine's snapshot would return.     *)
(* The state token is a hash of (tree, url, page id); collisions are left  *)
(* out, so a token is the pair <<tree, url>>.  A delta carries the tree it *)
(* was computed from and the tree it leads to.                             *)
(***************************************************************************)
EXTENDS Naturals, FiniteSets

CONSTANTS
    Clients,      \* connections, each with at most one call in flight
    Trees,        \* page contents
    Urls,
    Args,         \* hashes of vs_act's arguments
    NoTree, NoUrl, NoClient,
    Ops,          \* the primitives the clients use
    MaxCalls,     \* bound: calls in a behaviour
    MaxHandles,   \* bound: engine pages ever opened for this page
    MaxPolls,     \* bound: polls of a token-change wait before its deadline
    MaxDrift,     \* bound: mutations by the page itself (timers, sockets)
    MaxFaults,    \* bound: engine calls that fail
    MaxReaps,     \* bound: sweeps that plan to reap this page
    MaxExpiries   \* bound: idempotency keys whose 30 seconds run out

AllOps == {"view", "act", "wait", "token_change", "cursor_op", "type_text",
           "navigate", "viewport", "auth_load", "close"}

ASSUME SentinelAssumption ==
    /\ NoTree \notin Trees
    /\ NoUrl \notin Urls
    /\ NoClient \notin Clients
    /\ Args # {}
    /\ Ops \subseteq AllOps

ASSUME BoundAssumption ==
    /\ MaxCalls \in Nat
    /\ MaxHandles \in Nat \ {0}
    /\ MaxPolls \in Nat
    /\ MaxDrift \in Nat
    /\ MaxFaults \in Nat
    /\ MaxReaps \in Nat
    /\ MaxExpiries \in Nat

(* The bound on handles never stops a reopen: each reaped handle is         *)
(* replaced by at most one engine page per client.                          *)
ASSUME HandleAssumption ==
    IsFiniteSet(Clients) /\ MaxHandles >= 1 + MaxReaps * Cardinality(Clients)

VARIABLES
    (* PageState, under the session-map mutex *)
    exists,         \* the page is in the session's map
    url, last_tree, last_token, force_full,
    engine_handle,  \* 0: dormant
    mutate_lock,    \* the client holding the page's mutation lock
    (* the engine *)
    web,            \* handle -> tree shown, NoTree when not open
    opened,         \* engine pages opened so far
    (* the store *)
    row,            \* the page row: url and state token
    fresh, cached,  \* vs_act rows that lookup_idempotent can still see
    (* the calls *)
    pc, req, reply,
    loc,            \* a call's locals
    (* the reaper thread *)
    reaper,
    (* the clients *)
    agent,          \* the tree each client has rebuilt and its last token
    known,          \* tokens each client has been handed
    (* bounds and history *)
    ncalls, ndrift, nfaults, nreaps, nexpiries,
    epoch,          \* how often last_token has changed
    effects,        \* what the engine did on behalf of vs_act
    ahead,          \* <<d, c>>: both have a row to write, d published first
    misordered      \* a row was written before one published earlier

pageVars == <<exists, url, last_tree, last_token, force_full, engine_handle>>
engineVars == <<web, opened>>
storeVars == <<row, fresh, cached>>
callVars == <<pc, req, reply, loc>>
agentVars == <<agent, known>>
boundVars == <<ncalls, ndrift, nfaults, nreaps, nexpiries>>
histVars == <<epoch, effects, ahead, misordered>>

vars == <<pageVars, mutate_lock, engineVars, storeVars, callVars, reaper,
          agentVars, boundVars, histVars>>

(* Handle 0 stands for no engine page; it is never open. *)
Handles == 0..MaxHandles

Tokens == (Trees \cup {NoTree}) \X (Urls \cup {NoUrl})

(* StateToken::ZERO, also what a page with no token yet compares as. *)
ZERO == <<NoTree, NoUrl>>

(* tokens::compute, for this page's id. *)
compute(tree, u) == <<tree, u>>

IdemKeys == Tokens \X Args

NoReply == [kind |-> "none", form |-> "none", from |-> NoTree,
            to |-> NoTree, token |-> ZERO]

(* id: the call; h, snap: the engine handle and snapshot it holds; chk: the *)
(* epoch its token check passed in; base, burl: what a token-change wait    *)
(* captured before polling; polls: how often it has polled.                 *)
NoLocals == [id |-> 0, h |-> 0, snap |-> NoTree, chk |-> 0,
             base |-> ZERO, burl |-> NoUrl, polls |-> 0]

AnyArg == CHOOSE a \in Args : TRUE

(* What a client may ask.  The token of a vs_act is one it was handed. *)
Requests(c) ==
    [op : Ops \ {"act", "navigate", "view"}, arg : {AnyArg}, before : {ZERO},
     url : {NoUrl}, full : {FALSE}]
    \cup [op : Ops \cap {"view"}, arg : {AnyArg}, before : {ZERO},
          url : {NoUrl}, full : BOOLEAN]
    \cup [op : Ops \cap {"navigate"}, arg : {AnyArg}, before : {ZERO},
          url : Urls, full : {FALSE}]
    \cup [op : Ops \cap {"act"}, arg : Args, before : known[c],
          url : {NoUrl}, full : {FALSE}]

-----------------------------------------------------------------------------
(* The page as vs_open leaves it: a live engine page, the tree and token   *)
(* of its first snapshot, the next view forced full.                       *)
Init ==
    \E t \in Trees, u \in Urls :
      /\ exists = TRUE
      /\ url = u
      /\ last_tree = t
      /\ last_token = compute(t, u)
      /\ force_full = TRUE
      /\ engine_handle = 1
      /\ mutate_lock = NoClient
      /\ web = [i \in Handles |-> IF i = 1 THEN t ELSE NoTree]
      /\ opened = 1
      /\ row = [url |-> u, token |-> compute(t, u)]
      /\ fresh = {}
      /\ cached = [k \in IdemKeys |-> ZERO]
      /\ pc = [c \in Clients |-> "idle"]
      /\ req = [c \in Clients |->
                 [op |-> "view", arg |-> AnyArg,
                  before |-> ZERO, url |-> NoUrl, full |-> FALSE]]
      /\ reply = [c \in Clients |-> NoReply]
      /\ loc = [c \in Clients |-> NoLocals]
      /\ reaper = [pc |-> "sleep", h |-> 0]
      /\ agent = [c \in Clients |-> [tree |-> NoTree, token |-> compute(t, u)]]
      /\ known = [c \in Clients |-> {compute(t, u)}]
      /\ ncalls = 0 /\ ndrift = 0 /\ nfaults = 0 /\ nreaps = 0 /\ nexpiries = 0
      /\ epoch = 0
      /\ effects = {}
      /\ ahead = {} /\ misordered = FALSE

-----------------------------------------------------------------------------
(* Building blocks of the calls.                                            *)

Goto(c, label) == pc' = [pc EXCEPT ![c] = label]

Unlock(c) == mutate_lock' = IF mutate_lock = c THEN NoClient ELSE mutate_lock

(* An early return leaves the closure (dropping the mutation guard, if      *)
(* held) and goes on to the audit row.                                      *)
Return(c, kind, tok) ==
    /\ reply' = [reply EXCEPT ![c] = [NoReply EXCEPT !.kind = kind, !.token = tok]]
    /\ Goto(c, "audit")
    /\ Unlock(c)

SetToken(tok) ==
    /\ last_token' = tok
    /\ epoch' = IF tok = last_token THEN epoch ELSE epoch + 1

(* History: the order in which the calls that have published a token, and   *)
(* released the map's lock, write their rows under the store's.             *)
Published(c) ==
    ahead' = ahead \cup {<<d, c>> : d \in {x \in Clients : pc[x] = "store"}}

RowWritten(c) ==
    /\ ahead' = {p \in ahead : c \notin {p[1], p[2]}}
    /\ misordered' = (misordered \/ \E d \in Clients : <<d, c>> \in ahead)

(* What apply_snapshot hands to the caller. *)
ViewForm(tree, forced) ==
    LET tok == compute(tree, url) IN
    CASE ~forced /\ last_token = tok ->
           [kind |-> "ok", form |-> "same", from |-> NoTree, to |-> NoTree,
            token |-> tok]
      [] ~forced /\ last_token # tok /\ last_tree # NoTree ->
           [kind |-> "ok", form |-> "delta", from |-> last_tree, to |-> tree,
            token |-> tok]
      [] OTHER ->
           [kind |-> "ok", form |-> "full", from |-> NoTree, to |-> tree,
            token |-> tok]

(* Mutant: a delta moves the token but not the tree it was computed from.   *)
apply_snapshotKeepsTree(tree, forced, after) ==
    /\ last_tree' = IF forced THEN tree ELSE last_tree
    /\ SetToken(compute(tree, url))
    /\ force_full' = after

(* PageState::apply_snapshot. `forced` is force_full at the call, `after`  *)
(* what the caller leaves in it.                                            *)
apply_snapshot(tree, forced, after) ==
    LET tok == compute(tree, url)
        same == ~forced /\ last_token = tok
    IN  /\ last_tree' = IF same THEN last_tree ELSE tree
        /\ SetToken(tok)
        /\ force_full' = after

(* Mutant: vs_act does not take the page's mutation lock.                   *)
FirstStepNoLock(op) == IF op = "close" THEN "close" ELSE "handle"

(* The first step of a call's body, and the step after its handle is known. *)
FirstStep(op) ==
    CASE op = "act" -> "lock" [] op = "close" -> "close" [] OTHER -> "handle"

AfterHandle(op) ==
    CASE op = "act" -> "check"
      [] op = "view" -> "snapshot"
      [] op = "token_change" -> "baseline"
      [] OTHER -> "engine"

AfterEngine(op) ==
    CASE op = "type_text" -> "token"
      [] op \in {"viewport", "auth_load"} -> "invalidate"
      [] OTHER -> "snapshot"

-----------------------------------------------------------------------------
(* Steps common to all calls.                                               *)

Begin(c) ==
    /\ pc[c] = "idle"
    /\ ncalls < MaxCalls
    /\ \E r \in Requests(c) :
         /\ req' = [req EXCEPT ![c] = r]
         /\ Goto(c, FirstStep(r.op))
    /\ ncalls' = ncalls + 1
    /\ loc' = [loc EXCEPT ![c] = [NoLocals EXCEPT !.id = ncalls + 1]]
    /\ reply' = [reply EXCEPT ![c] = NoReply]
    /\ UNCHANGED <<pageVars, mutate_lock, engineVars, storeVars, reaper,
                   agentVars, ndrift, nfaults, nreaps, nexpiries, histVars>>

(* engine_handle_for, first half: a live page's handle, or the slow path.   *)
EngineHandleFor(c) ==
    /\ pc[c] = "handle"
    /\ exists
    /\ IF engine_handle # 0
       THEN /\ loc' = [loc EXCEPT ![c].h = engine_handle]
            /\ Goto(c, AfterHandle(req[c].op))
       ELSE /\ Goto(c, "reopen")
            /\ UNCHANGED loc
    /\ UNCHANGED <<pageVars, mutate_lock, engineVars, storeVars, req, reply,
                   reaper, agentVars, boundVars, histVars>>

(* A dormant page is reopened outside the map lock; what it shows then is   *)
(* up to the site.                                                          *)
Reopen(c) ==
    /\ pc[c] = "reopen"
    /\ opened < MaxHandles
    /\ opened' = opened + 1
    /\ \E t \in Trees : web' = [web EXCEPT ![opened + 1] = t]
    /\ loc' = [loc EXCEPT ![c].h = opened + 1]
    /\ Goto(c, "install")
    /\ UNCHANGED <<pageVars, mutate_lock, storeVars, req, reply, reaper,
                   agentVars, boundVars, histVars>>

(* Back under the lock: keep the handle another caller installed meanwhile. *)
Install(c) ==
    /\ pc[c] = "install"
    /\ exists
    /\ IF engine_handle # 0
       THEN /\ web' = [web EXCEPT ![loc[c].h] = NoTree]
            /\ loc' = [loc EXCEPT ![c].h = engine_handle]
            /\ UNCHANGED engine_handle
       ELSE /\ engine_handle' = loc[c].h
            /\ UNCHANGED <<web, loc>>
    /\ Goto(c, AfterHandle(req[c].op))
    /\ UNCHANGED <<exists, url, last_tree, last_token, force_full, mutate_lock,
                   opened, storeVars, req, reply, reaper, agentVars, boundVars,
                   histVars>>

(* The page left the session map (vs_close, or its session closed).  vs_auth *)
(* load has done its work by the time it asks for the token, and answers    *)
(* with the placeholder.                                                    *)
PageGone(c) ==
    /\ pc[c] \in {"lock", "handle", "install", "check", "baseline",
                  "invalidate", "apply", "rebase", "token", "close"}
    /\ ~exists
    /\ Return(c, IF pc[c] = "token" /\ req[c].op = "auth_load" THEN "ok" ELSE "err", ZERO)
    /\ UNCHANGED <<pageVars, engineVars, storeVars, req, loc, reaper,
                   agentVars, boundVars, histVars>>

(* An engine call on a handle that has been closed.                         *)
HandleGone(c) ==
    /\ pc[c] \in {"engine", "snapshot", "poll"}
    /\ web[loc[c].h] = NoTree
    /\ Return(c, "err", ZERO)
    /\ UNCHANGED <<pageVars, engineVars, storeVars, req, loc, reaper,
                   agentVars, boundVars, histVars>>

(* An engine call fails (timeout, script error).  It may have changed the   *)
(* page first: act_and_snapshot is an act and then a snapshot.              *)
EngineFault(c) ==
    /\ pc[c] \in {"reopen", "engine", "snapshot", "poll"}
    /\ nfaults < MaxFaults
    /\ nfaults' = nfaults + 1
    /\ pc[c] # "reopen" => web[loc[c].h] # NoTree
    /\ IF pc[c] = "engine" /\ req[c].op # "wait"
       THEN \E t \in Trees : web' = [web EXCEPT ![loc[c].h] = t]
       ELSE UNCHANGED web
    /\ effects' = IF pc[c] = "engine" /\ req[c].op = "act"
                  THEN effects \cup {[id |-> loc[c].id, epoch |-> loc[c].chk,
                                      arg |-> req[c].arg, before |-> req[c].before,
                                      saw |-> web[loc[c].h], failed |-> TRUE,
                                      moved |-> web'[loc[c].h] # req[c].before[1],
                                      ttl |-> TRUE]}
                  ELSE effects
    /\ Return(c, "err", ZERO)
    /\ UNCHANGED <<pageVars, opened, storeVars, req, loc, reaper, agentVars,
                   ncalls, ndrift, nreaps, nexpiries, epoch, ahead, misordered>>

(* engine.snapshot.                                                         *)
Snapshot(c) ==
    /\ pc[c] = "snapshot"
    /\ web[loc[c].h] # NoTree
    /\ loc' = [loc EXCEPT ![c].snap = web[loc[c].h]]
    /\ Goto(c, IF req[c].op = "navigate" THEN "rebase" ELSE "apply")
    /\ UNCHANGED <<pageVars, mutate_lock, engineVars, storeVars, req, reply,
                   reaper, agentVars, boundVars, histVars>>

(* The snapshot is applied to the page under the map lock.  vs_view --full  *)
(* drops the baseline first; vs_viewport drops it again afterwards.  What   *)
(* vs_wait and vs_viewport were handed stays in the daemon: their response  *)
(* is the token alone.                                                      *)
Apply(c) ==
    LET op == req[c].op
        forced == force_full \/ (op = "view" /\ req[c].full)
        r == ViewForm(loc[c].snap, forced)
    IN  /\ pc[c] = "apply"
        /\ exists
        /\ apply_snapshot(loc[c].snap, forced, op = "viewport")
        /\ reply' = [reply EXCEPT ![c] =
                       IF op \in {"wait", "token_change", "viewport"}
                       THEN [NoReply EXCEPT !.kind = "ok", !.token = r.token]
                       ELSE r]
        /\ Goto(c, "store")
        /\ Published(c)
        /\ UNCHANGED <<exists, url, engine_handle, mutate_lock, engineVars,
                       storeVars, req, loc, reaper, agentVars, boundVars,
                       effects, misordered>>

(* Mutants: the row's url is written for every call; its token never is.    *)
StoreAnyUrl(c) ==
    /\ pc[c] = "store"
    /\ row' = [url |-> req[c].url, token |-> reply[c].token]
    /\ Unlock(c)
    /\ Goto(c, "audit")
    /\ RowWritten(c)
    /\ UNCHANGED <<pageVars, engineVars, fresh, cached, req, reply, loc,
                   reaper, agentVars, boundVars, epoch, effects>>

StoreUrlOnly(c) ==
    /\ pc[c] = "store"
    /\ row' = [row EXCEPT !.url = IF req[c].op = "navigate" THEN req[c].url ELSE @]
    /\ Unlock(c)
    /\ Goto(c, "audit")
    /\ RowWritten(c)
    /\ UNCHANGED <<pageVars, engineVars, fresh, cached, req, reply, loc,
                   reaper, agentVars, boundVars, epoch, effects>>

(* update_page_url / update_page_token, the end of the closure.             *)
Store(c) ==
    /\ pc[c] = "store"
    /\ row' = [url |-> IF req[c].op = "navigate" THEN req[c].url ELSE row.url,
               token |-> reply[c].token]
    /\ Unlock(c)
    /\ Goto(c, "audit")
    /\ RowWritten(c)
    /\ UNCHANGED <<pageVars, engineVars, fresh, cached, req, reply, loc,
                   reaper, agentVars, boundVars, epoch, effects>>

(* audit_call writes the row the closure's outcome fills in, then the       *)
(* response goes out.  Only a successful, executed vs_act row can serve     *)
(* lookup_idempotent later.                                                 *)
Audit(c) ==
    LET r == reply[c]
        key == <<req[c].before, req[c].arg>>
        serves == req[c].op = "act" /\ r.kind = "ok"
        tree == CASE r.form = "full" -> r.to
                  [] r.form = "delta" ->
                       IF agent[c].tree = r.from THEN r.to ELSE NoTree
                  [] OTHER -> agent[c].tree
        ok == r.kind \in {"ok", "hit"} /\ req[c].op # "close"
    IN  /\ pc[c] = "audit"
        /\ fresh' = IF serves THEN fresh \cup {key} ELSE fresh
        /\ cached' = IF serves THEN [cached EXCEPT ![key] = r.token] ELSE cached
        /\ agent' = IF ok THEN [agent EXCEPT ![c] = [tree |-> tree, token |-> r.token]]
                          ELSE agent
        /\ known' = IF ok \/ r.kind = "stale" THEN [known EXCEPT ![c] = known[c] \cup {r.token}]
                          ELSE known
        /\ Goto(c, "idle")
        /\ UNCHANGED <<pageVars, mutate_lock, engineVars, row, req, reply, loc,
                       reaper, boundVars, histVars>>

-----------------------------------------------------------------------------
(* vs_act.                                                                  *)

ActLock(c) ==
    /\ pc[c] = "lock"
    /\ exists
    /\ mutate_lock = NoClient
    /\ mutate_lock' = c
    /\ Goto(c, "handle")
    /\ UNCHANGED <<pageVars, engineVars, storeVars, req, reply, loc, reaper,
                   agentVars, boundVars, histVars>>

(* The stale-token check ...                                                *)
ActStale(c) ==
    /\ pc[c] = "check"
    /\ exists
    /\ last_token # req[c].before
    /\ Return(c, "stale", last_token)
    /\ UNCHANGED <<pageVars, engineVars, storeVars, req, loc, reaper,
                   agentVars, boundVars, histVars>>

ActCheck(c) ==
    /\ pc[c] = "check"
    /\ exists
    /\ last_token = req[c].before
    /\ loc' = [loc EXCEPT ![c].chk = epoch]
    /\ Goto(c, "lookup")
    /\ UNCHANGED <<pageVars, mutate_lock, engineVars, storeVars, req, reply,
                   reaper, agentVars, boundVars, histVars>>

(* ... then, under the store's lock, the idempotency lookup.                *)
ActHit(c) ==
    LET key == <<req[c].before, req[c].arg>> IN
    /\ pc[c] = "lookup"
    /\ key \in fresh
    /\ Return(c, "hit", cached[key])
    /\ UNCHANGED <<pageVars, engineVars, storeVars, req, loc, reaper,
                   agentVars, boundVars, histVars>>

(* Mutant: no idempotency lookup.                                           *)
ActPassNoLookup(c) ==
    /\ pc[c] = "lookup"
    /\ Goto(c, "engine")
    /\ UNCHANGED <<pageVars, mutate_lock, engineVars, storeVars, req, reply,
                   loc, reaper, agentVars, boundVars, histVars>>

ActPass(c) ==
    /\ pc[c] = "lookup"
    /\ <<req[c].before, req[c].arg>> \notin fresh
    /\ Goto(c, "engine")
    /\ UNCHANGED <<pageVars, mutate_lock, engineVars, storeVars, req, reply,
                   loc, reaper, agentVars, boundVars, histVars>>

(* act_and_snapshot: one job on the engine thread.                          *)
ActEngine(c) ==
    /\ pc[c] = "engine"
    /\ req[c].op = "act"
    /\ web[loc[c].h] # NoTree
    /\ \E t \in Trees :
         /\ web' = [web EXCEPT ![loc[c].h] = t]
         /\ loc' = [loc EXCEPT ![c].snap = t]
         /\ effects' = effects \cup
              {[id |-> loc[c].id, epoch |-> loc[c].chk, arg |-> req[c].arg,
                before |-> req[c].before, saw |-> web[loc[c].h],
                failed |-> FALSE, moved |-> t # req[c].before[1], ttl |-> TRUE]}
    /\ Goto(c, "apply")
    /\ UNCHANGED <<pageVars, mutate_lock, opened, storeVars, req, reply, reaper,
                   agentVars, boundVars, epoch, ahead, misordered>>

-----------------------------------------------------------------------------
(* The other calls.                                                         *)

(* The engine call of vs_wait (no effect), of the cursor primitives,        *)
(* vs_type, vs_goto, vs_viewport and vs_auth load (the page may change).    *)
EngineOp(c) ==
    /\ pc[c] = "engine"
    /\ req[c].op # "act"
    /\ web[loc[c].h] # NoTree
    /\ \E t \in Trees :
         /\ req[c].op = "wait" => t = web[loc[c].h]
         /\ web' = [web EXCEPT ![loc[c].h] = t]
    /\ Goto(c, AfterEngine(req[c].op))
    /\ UNCHANGED <<pageVars, mutate_lock, opened, storeVars, req, reply, loc,
                   reaper, agentVars, boundVars, histVars>>

(* vs_viewport and vs_auth load reset the delta baseline.                   *)
InvalidateBaseline(c) ==
    /\ pc[c] = "invalidate"
    /\ exists
    /\ force_full' = TRUE
    /\ Goto(c, IF req[c].op = "viewport" THEN "snapshot" ELSE "token")
    /\ UNCHANGED <<exists, url, last_tree, last_token, engine_handle,
                   mutate_lock, engineVars, storeVars, req, reply, loc, reaper,
                   agentVars, boundVars, histVars>>

(* Mutant: the placeholder token instead of the one on record.              *)
CurrentTokenZero(c) ==
    /\ pc[c] = "token"
    /\ exists
    /\ Return(c, "ok", ZERO)
    /\ UNCHANGED <<pageVars, engineVars, storeVars, req, loc, reaper,
                   agentVars, boundVars, histVars>>

(* vs_type and vs_auth load answer with the token on record.                *)
CurrentToken(c) ==
    /\ pc[c] = "token"
    /\ exists
    /\ Return(c, "ok", last_token)
    /\ UNCHANGED <<pageVars, engineVars, storeVars, req, loc, reaper,
                   agentVars, boundVars, histVars>>

(* vs_goto: the document is replaced, the next view is full.                *)
Rebase(c) ==
    /\ pc[c] = "rebase"
    /\ req[c].op = "navigate"
    /\ exists
    /\ url' = req[c].url
    /\ last_tree' = loc[c].snap
    /\ SetToken(compute(loc[c].snap, req[c].url))
    /\ force_full' = TRUE
    /\ reply' = [reply EXCEPT ![c] =
                   [NoReply EXCEPT !.kind = "ok", !.token = last_token']]
    /\ Goto(c, "store")
    /\ Published(c)
    /\ UNCHANGED <<exists, engine_handle, mutate_lock, engineVars, storeVars,
                   req, loc, reaper, agentVars, boundVars, effects, misordered>>

(* vs_wait token-change: capture what the page last handed out ...          *)
Baseline(c) ==
    /\ pc[c] = "baseline"
    /\ exists
    /\ loc' = [loc EXCEPT ![c].base = last_token, ![c].burl = url]
    /\ Goto(c, "poll")
    /\ UNCHANGED <<pageVars, mutate_lock, engineVars, storeVars, req, reply,
                   reaper, agentVars, boundVars, histVars>>

(* Mutant: the deadline starts anew with every poll.                        *)
PollForever(c) ==
    LET tree == web[loc[c].h] IN
    /\ pc[c] = "poll"
    /\ tree # NoTree
    /\ IF compute(tree, loc[c].burl) # loc[c].base
       THEN /\ loc' = [loc EXCEPT ![c].snap = tree]
            /\ Goto(c, "apply")
       ELSE UNCHANGED <<loc, pc>>
    /\ UNCHANGED <<pageVars, mutate_lock, engineVars, storeVars, req, reply,
                   reaper, agentVars, boundVars, histVars>>

(* ... and poll snapshots until one differs ...                             *)
Poll(c) ==
    LET tree == web[loc[c].h] IN
    /\ pc[c] = "poll"
    /\ tree # NoTree
    /\ IF compute(tree, loc[c].burl) # loc[c].base
       THEN /\ loc' = [loc EXCEPT ![c].snap = tree]
            /\ Goto(c, "apply")
       ELSE /\ loc[c].polls < MaxPolls
            /\ loc' = [loc EXCEPT ![c].polls = @ + 1]
            /\ UNCHANGED pc
    /\ UNCHANGED <<pageVars, mutate_lock, engineVars, storeVars, req, reply,
                   reaper, agentVars, boundVars, histVars>>

(* Mutant: at the deadline the last snapshot is applied as if it differed.  *)
PollTimeoutApplies(c) ==
    /\ pc[c] = "poll"
    /\ web[loc[c].h] # NoTree
    /\ loc[c].polls = MaxPolls
    /\ loc' = [loc EXCEPT ![c].snap = web[loc[c].h]]
    /\ Goto(c, "apply")
    /\ UNCHANGED <<pageVars, mutate_lock, engineVars, storeVars, req, reply,
                   reaper, agentVars, boundVars, histVars>>

(* ... or the deadline passes.                                              *)
PollTimeout(c) ==
    /\ pc[c] = "poll"
    /\ web[loc[c].h] # NoTree
    /\ compute(web[loc[c].h], loc[c].burl) = loc[c].base
    /\ loc[c].polls = MaxPolls
    /\ Return(c, "err", ZERO)
    /\ UNCHANGED <<pageVars, engineVars, storeVars, req, loc, reaper,
                   agentVars, boundVars, histVars>>

(* vs_close: out of the map first, then the engine page goes.               *)
CloseRemove(c) ==
    /\ pc[c] = "close"
    /\ exists
    /\ exists' = FALSE
    /\ loc' = [loc EXCEPT ![c].h = engine_handle]
    /\ Goto(c, "closing")
    /\ UNCHANGED <<url, last_tree, last_token, force_full, engine_handle,
                   mutate_lock, engineVars, storeVars, req, reply, reaper,
                   agentVars, boundVars, histVars>>

CloseEngine(c) ==
    /\ pc[c] = "closing"
    /\ web' = IF loc[c].h = 0 THEN web ELSE [web EXCEPT ![loc[c].h] = NoTree]
    /\ Return(c, "ok", ZERO)
    /\ UNCHANGED <<pageVars, opened, storeVars, req, loc, reaper, agentVars,
                   boundVars, histVars>>

-----------------------------------------------------------------------------
(* The page's own scripts, the clock, the reaper thread.                    *)

Drift ==
    /\ ndrift < MaxDrift
    /\ ndrift' = ndrift + 1
    /\ \E i \in Handles, t \in Trees :
         web[i] # NoTree /\ t # web[i] /\ web' = [web EXCEPT ![i] = t]
    /\ UNCHANGED <<pageVars, mutate_lock, opened, storeVars, callVars, reaper,
                   agentVars, ncalls, nfaults, nreaps, nexpiries, histVars>>

(* IDEMPOTENCY_TTL_SECS pass since the key's newest row.                    *)
Expire ==
    /\ nexpiries < MaxExpiries
    /\ nexpiries' = nexpiries + 1
    /\ \E k \in fresh :
         /\ fresh' = fresh \ {k}
         /\ effects' = {IF <<e.before, e.arg>> = k THEN [e EXCEPT !.ttl = FALSE]
                                                   ELSE e : e \in effects}
    /\ UNCHANGED <<pageVars, mutate_lock, engineVars, row, cached, callVars,
                   reaper, agentVars, ncalls, ndrift, nfaults, nreaps, epoch,
                   ahead, misordered>>

(* reap_once plans under the map lock while nobody has addressed the page   *)
(* for page_idle ...                                                        *)
ReapPlan ==
    /\ reaper.pc = "sleep"
    /\ nreaps < MaxReaps
    /\ exists /\ engine_handle # 0
    /\ \A c \in Clients : pc[c] = "idle"
    /\ nreaps' = nreaps + 1
    /\ reaper' = [reaper EXCEPT !.pc = "take"]
    /\ UNCHANGED <<pageVars, mutate_lock, engineVars, storeVars, callVars,
                   agentVars, ncalls, ndrift, nfaults, nexpiries, histVars>>

(* Mutant: the page keeps the handle it is losing.                          *)
ReapTakeKeepsHandle ==
    /\ reaper.pc = "take"
    /\ exists
    /\ force_full' = TRUE
    /\ reaper' = [pc |-> IF engine_handle = 0 THEN "sleep" ELSE "close",
                  h |-> engine_handle]
    /\ UNCHANGED <<exists, url, last_tree, last_token, engine_handle,
                   mutate_lock, engineVars, storeVars, callVars, agentVars,
                   boundVars, histVars>>

(* ... takes the handle under the lock again, whatever happened meanwhile   *)
(* (and skips a page that is gone) ...                                      *)
ReapTake ==
    /\ reaper.pc = "take"
    /\ IF exists
       THEN /\ force_full' = TRUE
            /\ engine_handle' = 0
            /\ reaper' = [pc |-> IF engine_handle = 0 THEN "sleep" ELSE "close",
                          h |-> engine_handle]
       ELSE /\ reaper' = [pc |-> "sleep", h |-> 0]
            /\ UNCHANGED <<force_full, engine_handle>>
    /\ UNCHANGED <<exists, url, last_tree, last_token, mutate_lock, engineVars,
                   storeVars, callVars, agentVars, boundVars, histVars>>

(* ... and closes the engine page outside it.                               *)
ReapClose ==
    /\ reaper.pc = "close"
    /\ web' = [web EXCEPT ![reaper.h] = NoTree]
    /\ reaper' = [pc |-> "sleep", h |-> 0]
    /\ UNCHANGED <<pageVars, mutate_lock, opened, storeVars, callVars,
                   agentVars, boundVars, histVars>>

-----------------------------------------------------------------------------
CallStep(c) ==
    \/ EngineHandleFor(c) \/ Reopen(c) \/ Install(c)
    \/ PageGone(c) \/ HandleGone(c)
    \/ Snapshot(c) \/ Apply(c) \/ Store(c) \/ Audit(c)
    \/ ActLock(c) \/ ActStale(c) \/ ActCheck(c) \/ ActHit(c) \/ ActPass(c) \/ ActEngine(c)
    \/ EngineOp(c) \/ InvalidateBaseline(c) \/ CurrentToken(c) \/ Rebase(c)
    \/ Baseline(c) \/ Poll(c) \/ PollTimeout(c)
    \/ CloseRemove(c) \/ CloseEngine(c)

ReaperStep == ReapTake \/ ReapClose

(* No call in flight: the daemon waits for the next request.                *)
Rest ==
    /\ \A c \in Clients : pc[c] = "idle"
    /\ UNCHANGED vars

Next ==
    \/ \E c \in Clients : Begin(c) \/ CallStep(c) \/ EngineFault(c)
    \/ Drift \/ Expire \/ ReapPlan \/ ReaperStep \/ Rest

Spec == Init /\ [][Next]_vars

(* Every call runs on its own thread and every engine call returns (the     *)
(* backends bound them), so a call that can go on eventually does.          *)
FairSpec ==
    /\ Spec
    /\ \A c \in Clients : WF_vars(CallStep(c))
    /\ WF_vars(ReaperStep)

-----------------------------------------------------------------------------
Labels == {"idle", "lock", "handle", "reopen", "install", "check", "lookup", "engine",
           "snapshot", "baseline", "poll", "invalidate", "apply", "rebase",
           "token", "store", "close", "closing", "audit"}

Replies == [kind : {"none", "ok", "hit", "stale", "err"},
            form : {"none", "same", "delta", "full"},
            from : Trees \cup {NoTree}, to : Trees \cup {NoTree}, token : Tokens]

Locals == [id : Nat, h : Handles, snap : Trees \cup {NoTree}, chk : Nat,
           base : Tokens, burl : Urls \cup {NoUrl}, polls : Nat]

Effects == [id : Nat, epoch : Nat, arg : Args, before : Tokens,
            saw : Trees \cup {NoTree}, failed : BOOLEAN, moved : BOOLEAN,
            ttl : BOOLEAN]

AllRequests ==
    {r \in [op : AllOps, arg : Args, before : Tokens, url : Urls \cup {NoUrl},
            full : BOOLEAN] : r.op = "navigate" => r.url \in Urls}

TypePage ==
    /\ exists \in BOOLEAN /\ force_full \in BOOLEAN
    /\ url \in Urls
    /\ last_tree \in Trees \cup {NoTree}
    /\ last_token \in Tokens
    /\ engine_handle \in Handles
    /\ mutate_lock \in Clients \cup {NoClient}

TypeEngine ==
    /\ web \in [Handles -> Trees \cup {NoTree}]
    /\ opened \in Handles
    /\ reaper \in [pc : {"sleep", "take", "close"}, h : Handles]

TypeStore ==
    /\ row \in [url : Urls, token : Tokens]
    /\ fresh \subseteq IdemKeys
    /\ cached \in [IdemKeys -> Tokens]

TypeCalls ==
    /\ pc \in [Clients -> Labels]
    /\ req \in [Clients -> AllRequests]
    /\ reply \in [Clients -> Replies]
    /\ loc \in [Clients -> Locals]

TypeAgents ==
    /\ agent \in [Clients -> [tree : Trees \cup {NoTree}, token : Tokens]]
    /\ known \in [Clients -> SUBSET Tokens]

TypeHistory ==
    /\ ncalls \in Nat /\ ndrift \in Nat /\ nfaults \in Nat /\ nreaps \in Nat
    /\ nexpiries \in Nat /\ epoch \in Nat
    /\ effects \subseteq Effects
    /\ ahead \subseteq Clients \X Clients
    /\ misordered \in BOOLEAN

(* Every variable keeps its type.                                           *)
TypeOK ==
    /\ TypePage /\ TypeEngine /\ TypeStore
    /\ TypeCalls /\ TypeAgents /\ TypeHistory

(* An act between the engine call its token check allows and its row.       *)
InWindow(c) ==
    /\ req[c].op = "act"
    /\ pc[c] \in {"handle", "reopen", "install", "check", "lookup", "engine", "apply",
                  "store"}

(* The mutation lock does its job: at most one act at a time is between its *)
(* token check and its row; and of all the acts whose check passed between  *)
(* two changes of the page's token, at most one left the page with another  *)
(* tree than the one it was checked against, but for acts answered with an  *)
(* error: act_and_snapshot may fail after it has acted, and then the page   *)
(* has moved while its token has not, so that the next act with that token  *)
(* is carried out as well.  (PageState's comment: without the lock "two     *)
(* concurrent acts carrying the same before_token would both pass the       *)
(* stale-token check before either mutation lands".)                        *)
ActsSerialised ==
    /\ \A c, d \in Clients : InWindow(c) /\ InWindow(d) => c = d
    /\ \A x, y \in effects :
         x.moved /\ y.moved /\ x.epoch = y.epoch
           => x.id = y.id \/ x.failed \/ y.failed

(* The parts of the inductive invariant behind ActsSerialised.              *)
LockInv == \A c \in Clients : InWindow(c) => mutate_lock = c

LabelInv ==
    \A c \in Clients :
      /\ pc[c] \in {"snapshot", "baseline", "poll", "invalidate", "token", "rebase"}
           => req[c].op # "act"
      /\ pc[c] \in {"check", "lookup"} => req[c].op = "act"

CheckInv ==
    \A c \in Clients :
      req[c].op = "act" /\ pc[c] \in {"lookup", "engine", "apply"}
        => /\ loc[c].chk <= epoch
           /\ loc[c].chk = epoch => last_token = req[c].before

EngineInv ==
    \A c \in Clients :
      req[c].op = "act" /\ pc[c] \in {"lookup", "engine"}
        => \A e \in effects : e.moved /\ ~e.failed => e.epoch # loc[c].chk

(* The act a page-moving effect came from and that has yet to publish the   *)
(* new token.                                                               *)
Unpublished ==
    \E c \in Clients :
      /\ req[c].op = "act" /\ pc[c] = "apply"
      /\ loc[c].chk = epoch
      /\ loc[c].snap # req[c].before[1]

EffectInv ==
    \A e \in effects :
      /\ e.epoch <= epoch
      /\ e.moved /\ ~e.failed /\ e.epoch = epoch /\ exists => Unpublished

(* Inside the lock's window an act stands alone, still checked against the  *)
(* token it will replace; whoever moved the page in the current epoch has   *)
(* the lock and its new token still to publish.                             *)
SerialInv ==
    /\ LockInv /\ LabelInv /\ CheckInv /\ EngineInv /\ EffectInv
    /\ ActsSerialised

(* A call is never handed an engine page the daemon has closed: what the    *)
(* map points to is open, however reaping, reopening and closing race.      *)
MapHandleLive ==
    exists /\ engine_handle # 0 => web[engine_handle] # NoTree

(* The inductive form: handles are handed out once, and the ones the page, *)
(* the reaper and the calls about to install hold are all different.        *)
HandleBound == engine_handle <= opened

ReaperHandle ==
    reaper.pc = "close" => reaper.h \in 1..opened /\ reaper.h # engine_handle

ClosingGone == \A c \in Clients : pc[c] = "closing" => ~exists

InstallHandles ==
    \A c \in Clients : pc[c] = "install" =>
       /\ loc[c].h \in 1..opened
       /\ loc[c].h # engine_handle
       /\ exists => web[loc[c].h] # NoTree
       /\ reaper.pc = "close" => loc[c].h # reaper.h

InstallApart ==
    \A c, d \in Clients :
       c # d /\ pc[c] = "install" /\ pc[d] = "install" => loc[c].h # loc[d].h

HandleInv ==
    /\ MapHandleLive /\ HandleBound /\ ReaperHandle
    /\ ClosingGone /\ InstallHandles /\ InstallApart

(* vs_act is idempotent on (page, before_token, args_hash): while the page  *)
(* has not moved, the same act is not carried out twice within the TTL.     *)
AtMostOnce ==
    \A x, y \in effects :
      x.ttl /\ y.ttl /\ x.epoch = y.epoch /\ x.arg = y.arg => x.id = y.id

(* vs_act acts on the page its token describes.                             *)
NoSilentStaleClick ==
    \A e \in effects : e.saw = e.before[1]

(* A token just handed out by an executed call is the page's token, so the  *)
(* next vs_act may use it.                                                  *)
ExecutedTokenValid ==
    \A c \in Clients :
      pc[c] = "idle" /\ reply[c].kind = "ok" /\ exists
        => agent[c].token = last_token

(* The same for every response, idempotent replays included.                *)
ReturnedTokenValid ==
    \A c \in Clients :
      pc[c] = "idle" /\ reply[c].kind \in {"ok", "hit"} /\ exists
        => agent[c].token = last_token

(* A response with a body (a full tree, a delta, or the empty body of an    *)
(* unchanged page) leaves its reader with the tree of that call's snapshot. *)
ResponseRebuildsPage ==
    \A c \in Clients :
      /\ pc[c] = "idle"
      /\ reply[c].kind = "ok"
      /\ req[c].op \in {"view", "act", "cursor_op"}
      => agent[c].tree = loc[c].snap

(* When no call has a row left to write, the page row holds the url and the *)
(* token of the page in memory, although every call publishes under one     *)
(* lock and writes its row under another, and some fail in between: unless  *)
(* two of them wrote in another order than they published, which nothing in *)
(* the code prevents.                                                       *)
RowAgrees ==
    ~misordered /\ (\A c \in Clients : pc[c] # "store")
      => row.url = url /\ row.token = last_token

(* A repeat of an act whose row lookup_idempotent can still see is never    *)
(* refused as stale.                                                        *)
RetryServed ==
    \A c \in Clients :
      pc[c] = "audit" /\ reply[c].kind = "stale"
        => <<req[c].before, req[c].arg>> \notin fresh

(* A token-change wait returns a token other than the one it started from,  *)
(* whatever navigations and views ran while it polled.                      *)
WaitSawChange ==
    \A c \in Clients :
      pc[c] = "store" /\ req[c].op = "token_change"
        => reply[c].token # loc[c].base

-----------------------------------------------------------------------------
(* The inductive forms.  Which calls come by which label.                   *)
Path(label) ==
    CASE label \in {"lock", "check", "lookup"} -> {"act"}
      [] label \in {"baseline", "poll"} -> {"token_change"}
      [] label \in {"handle", "reopen", "install"} -> AllOps \ {"close"}
      [] label = "engine" -> AllOps \ {"view", "token_change", "close"}
      [] label = "snapshot" -> {"view", "wait", "cursor_op", "navigate", "viewport"}
      [] label = "apply" -> {"view", "act", "wait", "token_change", "cursor_op", "viewport"}
      [] label = "store" -> AllOps \ {"type_text", "auth_load", "close"}
      [] label = "rebase" -> {"navigate"}
      [] label = "invalidate" -> {"viewport", "auth_load"}
      [] label = "token" -> {"type_text", "auth_load"}
      [] label \in {"close", "closing"} -> {"close"}
      [] OTHER -> AllOps

PathInv == \A c \in Clients : req[c].op \in Path(pc[c])

(* The token on record is of the tree and the url on record.                *)
TokenInv == last_token = compute(last_tree, url)

(* The base of a wait is of the url it polls with: a snapshot whose token   *)
(* differs from it shows another tree, whose token differs at every url.    *)
WaitInv ==
    \A c \in Clients : req[c].op = "token_change" =>
      /\ pc[c] = "poll" => loc[c].base[2] = loc[c].burl
      /\ pc[c] = "apply" => loc[c].snap # loc[c].base[1]
      /\ pc[c] = "store" => reply[c].token[1] # loc[c].base[1]

(* A page one client has to itself.                                         *)
Alone == \A c, d \in Clients : c = d

(* The client does not wait: a wait uses up changes without a body.         *)
NeverWaits == Ops \cap {"wait", "token_change"} = {}

(* While rows are written in the order of the publications, the last one to *)
(* write has the page's token, and the last navigation to write its url.    *)
Navigating(c) == pc[c] = "store" /\ req[c].op = "navigate"

RowInv ==
    ~misordered =>
      /\ \A c \in Clients :
           /\ pc[c] = "store" /\ (\A d \in Clients : pc[d] = "store" => <<c, d>> \notin ahead)
                => reply[c].token = last_token
           /\ Navigating(c) /\ (\A d \in Clients : Navigating(d) => <<c, d>> \notin ahead)
                => req[c].url = url
      /\ (\A c \in Clients : ~Navigating(c)) => row.url = url
      /\ RowAgrees

(* What a lone call publishes is what it then writes and answers with.      *)
LoneRowInv ==
    \A c \in Clients :
      pc[c] = "store" => reply[c].kind = "ok" /\ reply[c].token = last_token

AnswerInv ==
    /\ \A c \in Clients : exists /\ pc[c] = "audit" /\ reply[c].kind = "ok" =>
         req[c].op # "close" /\ reply[c].token = last_token
    /\ ExecutedTokenValid

(* Its acts of the current epoch have their row, or are about to write it;  *)
(* one it passes to the engine has none.                                    *)
Due(c) ==
    /\ req[c].op = "act"
    /\ pc[c] \in {"apply", "store"} \/ (pc[c] = "audit" /\ reply[c].kind = "ok")

Key(c) == <<req[c].before, req[c].arg>>

PassInv ==
    /\ \A c \in Clients : req[c].op = "act" =>
         /\ pc[c] \in {"lookup", "engine", "apply"} => exists /\ loc[c].chk = epoch
         /\ pc[c] = "engine" => Key(c) \notin fresh
    /\ \A e \in effects : e.epoch = epoch => e.before = last_token

OnceInv ==
    nfaults = 0 =>
      /\ \A e \in effects : exists /\ e.epoch = epoch /\ e.ttl =>
           <<e.before, e.arg>> \in fresh \cup {Key(c) : c \in {d \in Clients : Due(d)}}
      /\ AtMostOnce

(* Unless the next body is forced to be full, the client's copy is the tree *)
(* the next delta starts from; while a body is on its way, what it leads to *)
(* is.                                                                      *)
BodyOps == {"view", "act", "cursor_op"}

Answering(c) ==
    pc[c] \in {"store", "audit"} /\ reply[c].kind = "ok" /\ req[c].op \in BodyOps

Rebuilt(c) ==
    CASE reply[c].form = "full" -> reply[c].to
      [] reply[c].form = "delta" -> IF agent[c].tree = reply[c].from THEN reply[c].to ELSE NoTree
      [] OTHER -> agent[c].tree

MirrorInv ==
    /\ \A c \in Clients :
         /\ req[c].op \notin {"wait", "token_change"}
         /\ Answering(c) => last_tree = loc[c].snap /\ Rebuilt(c) = last_tree
         /\ ~Answering(c) /\ ~force_full => agent[c].tree = last_tree
         /\ ~Answering(c) /\ pc[c] # "idle" => reply[c].form = "none"
    /\ ResponseRebuildsPage

(* Every call is answered.                                                  *)
CallsFinish ==
    \A c \in Clients : pc[c] # "idle" ~> pc[c] = "idle"

=============================================================================
