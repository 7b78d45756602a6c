# vibesurfer in TLA+

vibesurfer is a browser for agents: a daemon (`vs-daemon`) that keeps web pages
open in an engine (`vs-engine-webkit`), remembers them in SQLite (`vs-store`) and
answers a line protocol (`vs-protocol`) spoken by a command line and an MCP server
(`vs-cli`). This directory holds TLA+ models of it from the command line to the
platform's web views, the TLC configurations that check them and the proofs TLAPS
checks.

## The system

| Part | Source | State | Operations |
|---|---|---|---|
| page operations | `vs-daemon/src/daemon/page_ops.rs`, `page_state.rs`, `tokens.rs` | `PageState`: url, last tree, last token, force_full, engine handle, mutation lock | view, read, find, act, wait, cursor operations, type, goto, viewport, auth_load |
| lifecycle and reaper | `daemon/lifecycle.rs`, `daemon/reaper.rs` | session map, `last_touched` of sessions and pages | session_open, session_close, sweep, open, close, reap_once, resurrect_sessions |
| prompt forms | `daemon/pending.rs`, `daemon/webentry.rs`, `daemon/mod.rs` 646-946 | queue of entries, condvar, nonce table | vs_prompt_input, vs_prompt_form(_wait), GET and POST of a link, `vs pending ...` |
| store | `vs-store/src/store/*` | rows of sessions, pages, actions, marks, annotations, auth blobs | one call per statement, under one mutex |
| engine runtime | `vs-engine-webkit/src/runtime.rs`, the loops of `vs-cli/src/serve.rs` | job channel, waker, replies | one job at a time on one thread; panics are caught |
| engine backends | `vs-engine-webkit/src/backend` | web views and windows, the scripts injected into documents, inspector rings, the X keymap | open, navigate, snapshot, wait, download, auth save and load, cookie events, input |
| server | `vs-daemon/src/server/*` | one connection's lines | parses a request, calls the daemon, formats the answer |
| audit | `daemon/audit.rs`, `daemon/mod.rs` 156-200 | action rows | one row after every call |
| recorder | `daemon/record.rs`, `vs-record` | table of recorder threads | start, frames, stop |
| inspector | `vs-engine-webkit/src/inspector.rs`, `backend/inspector_bridge.rs` | ring buffers per page | push, read since |
| captures, downloads | `captures.rs`, `daemon/engine_ops.rs` | files | write, prune |
| marks, extract, log | `daemon/store_ops.rs` | rows | mark, resolve, annotate, log |
| protocol | `vs-protocol/src` | none | tree and delta, envelope, request and their parsers |
| command line | `vs-cli/src` | `callers/<key>`, socket and pid files | build a request, find or start a daemon, open a session on the way, serve, stop |
| MCP server | `vs-cli/src/mcp` | none | a tool call is a command; its answer or failure is the tool's |

**How they interact.** Every connection is a task and every request runs
`dispatch` on a blocking thread, so calls of different connections interleave. They
share the session map and the store, each behind a mutex taken and released several
times within one call, the engine thread, reached through a channel, and a mutation
lock per page that `vs_act` holds from before its token check until its snapshot
has been applied. The reaper has a thread of its own, and so has every connection
of the web entry surface. Below the channel, the engine's one thread runs a job by
short evals in the page and, while it waits, pumps the platform's event loop, so the
page goes on meanwhile. Above the socket, every command is a process of its own: it
looks for a daemon, may start one, and makes one to three calls on one connection;
commands share only files with each other.

**What is hard.** A call reads state under one lock and uses it after releasing it:
a view's snapshot may be applied after a later act's, the row may be written in
another order than the map, a reopened page may have been reopened twice, the
reaper's plan may be out of date. `vs_act` promises idempotency with a row written
after the act. A form's values exist once, in memory, while several threads ask,
type, cancel, collect and fill. Rows, map and web views are written one after the
other, and the daemon may die in between. A recorder thread keeps the daemon alive
that is to shut down, the reaper's keeps it for good, and a host loop must not sleep on a
job. The platform's
callbacks do not say which navigation they belong to; the scripts' state goes with
the document, in the middle of a job. Two commands may start two daemons, each of
which removes the other's socket. A delta counts as delivered when it is written.
`PROJECT.json` lists these hazards with their lines.

## The models

A step is one critical section, one store call or one job of the engine: the grain
at which another thread can get in between. Data is opaque. Mutated forms of
definitions (`...NoLock`, `...Drops`, ...) stand before the definitions they
mutate; only the sensitivity checks of the properties use them.

### PageOps — one page and the calls on it

`exists, url, last_tree, last_token, force_full, engine_handle` are `PageState`;
`mutate_lock` its lock; `web` what each engine page shows; `row` the page row;
`fresh` and `cached` the `vs_act` rows `lookup_idempotent` still sees; `pc, req,
reply, loc` the calls. `FirstStep`, `AfterHandle` and `AfterEngine` say which
critical sections a primitive goes through:

- every call: `EngineHandleFor`, and for a dormant page `Reopen` and `Install`;
- view: `Snapshot`, `Apply`, `Store` (read and find look at the tree in memory and change
  nothing, `page_ops.rs` 72-98 and 207-235: they are left out);
- act: `ActLock`, the handle, `ActCheck` or `ActStale`, `ActHit` or `ActPass`,
  `ActEngine`, `Apply`, `Store`, `Audit` (the lock is released before `Audit`);
- cursor operations and type: `EngineOp`, then a snapshot or the last token;
- goto: `Rebase`; viewport: `InvalidateBaseline`; auth_load: `CurrentToken`;
- a token-change wait: `Baseline`, `Poll`, `PollTimeout`;
- close: `CloseRemove`, `CloseEngine`; the reaper: `ReapPlan`, `ReapTake`, `ReapClose`.

`Drift` is the page changing itself, `HandleGone` and `EngineFault` an engine call
that fails. An act whose engine call or snapshot fails (`page_ops.rs` 179-182) may have
moved the page, whose token stays as it was: the effect is recorded as `failed` and as
`moved` like any other. `ahead` and `misordered` record in which order calls publish a
token and write the row. A token is the pair of tree and
url it hashes: collisions are left out. A client rebuilds the page from the bodies
it gets (`agent`), which is what `ResponseRebuildsPage` looks at.

### Sessions — map, web views, rows

The session map, the engine's open views, the rows, and every call as the sequence of
writes the code makes: `open` is `Require`, `EngineOpen`, `CreatePage`, `FirstSnapshot`,
`InsertPage`; `session_close` is `RemoveSession`, `CloseViews`, `CloseRows`, and the sweep
and the reaper run it once per target. `CrashRestart` may happen between any two steps:
the map and the views are gone and `resurrect_sessions` fills the map from the rows. It is
one step, because serving starts after it. A call on a page (`Call`) goes on to the row
only if it takes a snapshot or navigates; captures, downloads, inspection, `vs_type`, auth
and replayed acts record their use in memory alone. Time is an age of three values: in
use, past `page_idle`, past `session_ttl`. Both that and the restart's `max_age` are a day
by default.

### PromptForms — values only a human can type

Entries are `absent`, `pending`, `fulfilled` or `cancelled`; agents go through the
critical sections of `prompt_form_enqueue`, `wait_form`, `prompt_form_wait` and
`enqueue_and_wait`; humans through GET, POST and the shell. A thread blocked on the
condvar is `parked` (a form) or `waiting` (a prompt) and leaves by `notify_all`, by its
deadline or spuriously. A fill is one step, a whole `vs_act`; its inside is PageOps. It
may leave the state token, move it or bring an old one back (`Tokens`), so the next fill
may be answered from an old row (`FillHit`, recorded in `replayed`). `typed` and `refused`
record what the human was told.

### Recorder — recordings over the engine's job channel

`EngineCalls` is the abstract specification: an engine that is one atomic object,
each call performed once at a moment between being made and returning. `EngineRuntime`
is what the code does instead: `dispatch` puts a job in the channel, `Wake` wakes the
platform's loop, the host drains the queue and sleeps with a 250 ms backstop, in
three loops that differ in when they look at the queue; the caller blocks on its
reply. `Recorder` adds `record_start`, `record_stop` and the recorder threads (seed
frame, sink, frames, caps, misses, encoding, end), and shutdown: the server stops,
the last worker or recorder drops its `Daemon`. If there is no reaper (`VS_REAP=0`) the
host loop then sees the closed channel and exits; otherwise the reaper's clone
(`reaper.rs` 123-129) keeps the channel open, and the loop and its sweeps (`Sweep`) go on.
`EngineIsAtomic` is the refinement: `E == INSTANCE EngineCalls WITH ...`, whose
mapping shows a job as performed when the host has run it. What a call returns is
part of it, so recordings can rely on their sinks.

### WebPage — what the backends do below a job

Composed of `WebViews` (views, the handle table and the wait for a navigation's end, on
the three platforms), `PageScripts` (one document: snapshot cache, wait watchers, the
download table, the IndexedDB dump and restore, cookies, the network ring and its details)
and `WebInput` (native pointer and key events, the keycode borrowed from the X server). A
native call may fail at any step. Reports of an earlier navigation may arrive late, and on
Linux the failure of a load is overwritten by the `Finished` that WebKitGTK emits after it
(`Reported`). Cookies a store refuses, records a database refuses and records `getAll`
fails on pass without a word where the code lets them (`SetCookie`, `RestoreDb`, `DumpDb`,
`GetW2`); of Windows' list calls, `GetValueAtIndex` and `Count` may fail and the getters
of a cookie at hand are assumed not to. On macOS a click on a ref moves the pointer to
where the element's centre was and goes to whatever lies there: an element can be covered,
before or during the click (`LayoutShift`). `NewDocument` replaces the document under a
running job; what its scripts kept is gone. The families of operations share nothing but
the platform and the engine thread, so a behaviour takes one of them (`Families`). The
download table `dl` is the set of the entries of `__vsDl.list`: ids only grow, so the ids
are its order, its first entry is `Oldest` and its last `Newest`.

### Commands — processes around one home directory

`Daemons`: each daemon process goes through open database, pid file, remove the
socket file, bind, serve, unbind, remove the pid file; it may crash at any of
them. One whose bind fails exits. One that stopped goes on as a process (`Linger`) unless
`VS_REAP=0` (`Exit`): its reaper closes idle sessions in the state.db its successor uses
(`Reap`). `Commands`: each command resolves its caller's binding, probes the socket,
spawns a daemon and waits for it if nobody listens, opens a session if it has none,
saves the binding, does its work, marks its caller closed. `MonthPasses` is
`CALLER_TTL`. Processes share the two files, the bindings and the rows of the state.db.

### Connection — a command's request and its answer

`Verbs` has every request `Command::to_request` and the prompt commands can build, and
every handler as what it insists on, reads and answers with. `Requests` writes and
reads the request line; text is a sequence of characters, of which those that the
escapes, the quoting and the tokenizer tell apart are themselves. The loops of
`request.rs` over characters and tokens are folds. `Connection` puts both on a
connection: `Send` (`Client::call` writes the line), `Serve` (`handle_connection` reads,
dispatches and writes an answer up to a blank line), `Receive` (`Client::call` reads the
lines of `stream`), then `GoesOn` on the same connection or `Disconnect`; `Lose` is an
answer nobody reads, `Restart` a daemon that dies. `asked` is what the client meant,
`got` what the daemon read, `meant` what it decided, `answer` what the client made of it.
The ghost `torn` says when the promise is off: a body with a blank line, or without an
envelope, was sent on this connection. Trees and deltas are among the former when a
label has one: labels reach the lines raw from the page (`Raw`).

### Wire — the agent's copy of the page

`Delta` is `diff`, `apply` and both directions of the lines of trees and deltas. `Wire`
adds a page and an agent to the two ends of `Connection`, whose actions its own contain.
The page changes between calls in the six ways a script can change a tree, or is replaced
by another document, whose refs start from 1 again and which is compared with the old tree
all the same (`Documents`). The agent keeps a copy from full views and deltas (`mirror`);
`seen` and `full` are `PageState`'s baseline, and every request does to it what its
handler does (`Rebases`). The ghost `synced` is off, until the next full view, when a
change was lost, was swallowed by a wait or a prompt, came with a label broken over lines,
is one diff does not express, or was a new document: where its refs stand under other
parents, `apply` breaks. Each step of `Wire` is one of `Connection`'s with what it does to
the page, or leaves the connection alone, so what is proved of `ConnectionSpec` holds in
`Wire`.

## What TLC checks

| Run | Instance | Shows |
|---|---|---|
| `PageOps_conc` | 2 clients, all 10 primitives, 2 calls, a drift, a fault, a sweep, 2 urls | `TypeOK`, `ActsSerialised`, `MapHandleLive`, `WaitSawChange`, `RowAgrees` (map and row, unless two calls wrote them in opposite orders): what holds whoever else is on the page |
| `PageOps_single` | 1 client, 4 calls, a drift, a sweep, an expired row | `AtMostOnce`, `ResponseRebuildsPage`, `ExecutedTokenValid`: the protocol's promises to a client on its own |
| `PageOps_live` | 2 clients, act, token-change wait, close | `CallsFinish`: no deadlock on the mutation lock, no wait without end |
| `Sessions_all` | 2 clients, 2 sessions, 2 pages, 5 calls, 2 idle stretches, 2 sweeps, a fault, a crash | `TypeOK`, `MemoryBacked`, `ToldPageKept`, `ClosedStaysClosed`, `ViewsMatchPages`: map, web views and rows agree at every instant at which the daemon may die |
| `Sessions_live` | 2 clients, 1 page, 4 sweeps | `IdlePageReaped`: a page left alone gives its web view back |
| `PromptForms_forms` | 2 agents, 1 human at the shell, 2 forms of one or both of 2 fields, 2 waits, an entry past its TTL, 2 state tokens, so that fills leave, move or return the token | `QueueSound` (types, no waiter asleep on what it could collect), `FormTypingKept`, `FormAnswerTrue` (a success filled all but what a replay answered for, a cancel nothing), `SupersededByTwin`: the first, third and last of a form none of whose own fields is past `ORPHAN_TTL`, whatever happens to others |
| `Recorder_all` | 2 workers, 2 recordings, a cap of 2 frames, each of the 3 host loops | `WakeupNotLost`, `RecordingsSound` (a running recorder can be stopped, an ended one leaves no sink, the process, if it exits, does so after them), the refinement `EngineIsAtomic`, and under fairness `RecordingsEnd` (a stop returns; a terminated daemon winds down, and exits if it has no reaper) |
| `WebPage_all` | 3 platforms, 2 views, 3 navigations, 2 documents, rings of 2 entries, 2 databases, texts of 2 characters | `ViewsOwned`, `OkShowsPage`, `ReadsCurrent` (snapshots and waits), `DownloadsHonest`, `AuthRoundTrip` (databases, cookies, cookie events), `BuffersSound` (rings and the requests' details), `InputSettles` (clicks, drags, typing): what the daemon takes for granted of an engine call, each with the exceptions its comment names |
| `Commands_all` | 2 processes at a time, 3 commands, 2 callers, 2 daemons, a crash, a month, stopped daemons that linger | `FilesLeadToServer`, `StopTellsTruth`, `BindingsSound`, `CloseSticks`: the daemon that serves is the one the files name, and a caller keeps the session it was given, across crashes |
| `Wire_all` | every shape of request with texts of up to 2 out of 8 characters, a page of 4 nodes, 3 calls, 2 page changes (a new document among them), labels over several lines, a lost answer or a restart | `ArrivesAsSent`, `CommandsUnderstood`, `AnswersTrue` (answers in step, failures reported as such), and `MirrorFollows`: the copy an agent keeps from views and deltas is the tree the daemon compares with |
| `PromptForms_links` | 1 agent, 2 browsers, a form or a prompt, both kinds of link, a page that moves, a failing fill | `LinkSingleUse`, and under fairness `TypedFormAnswered` |

A property with several parts is their conjunction, each part with its own comment and its
own sensitivity check. Deadlock is not checked where the system may stop: after a clean
exit or once the bounded requests of a daemon whose reaper stays are used up
(`Recorder_all`), or when the bounded calls are used up (`WebPage_all`, `Commands_all`,
`Wire_all`).

**Bounds.** Every bound is a constant of its own named `Max...`. Two clients are
enough for the races between calls, since each of them is between two threads and
at most one reaper; two trees tell a moved page from one that is as it was, also
across a return to the old tree; three calls let a third one see what two left
behind; two fields tell a whole form from a part of it. `MaxHandles` never stops a
reopen (`HandleAssumption`). Where an instance is smaller than the model allows
because a property would not hold beyond it, the two sections after this one say
so. In `Recorder_all` a second recording is what the handle of the first can be
confused with; in `WebPage_all` the rings wrap at the third entry and a second
document replaces the first under a job; in `Commands_all` two processes race for one
home and the third command sees what they left; in `Wire_all` two changes of a tree of
four nodes are one delta or two, three calls are a full view and two deltas, or what
`vs pending fulfill` makes on one connection, and two characters are an escape and
what it escapes, or two dashes. Free text is typed in the first request only
(`MaxTyped`), and requests that do not show the page are sent before it changes. An inserted
node has a label with a quote in it, the one the format does not carry as it is.
Elsewhere: one client in `PageOps_single`, no plain wait and no engine fault there; two
state tokens in `PromptForms_forms` (`MaxTokens`), the least with which a fill can leave,
move or return one, and the page moves by fills alone; no entry past its TTL in
`PromptForms_links`, where the TTL would only shorten what a link shows.

**Symmetry.** Clients, agents, humans, trees, processes, caller keys, databases and frames
are only compared, so runs without liveness properties use permutations of them.

**Fairness.** `PageOps!FairSpec` and `Sessions!FairSpec`: weak fairness of each
call's steps and of the reaper, because each is an operating-system thread, the
engine answers or fails every job, and the mutexes are held for a bounded number of
steps. `PageOps!FairSpec` does not assume that a page ever changes: a token-change
wait ends by its deadline. `PromptForms!FairSpec` (in `PromptForms_links`): weak
fairness of an agent's own steps and of a POST being carried out; nobody has to
type, and neither a deadline nor a spurious wake-up is fair, so `TypedFormAnswered`
holds by notification alone. In `Sessions_live` four sweeps are more than the four
calls can use up. `Recorder!Spec` has weak fairness of the host loop (whose wait ends
by its 250 ms bound), of every worker and recorder thread that can run, and of the
daemon's being dropped when its last holder is gone; nobody has to send a request or a
signal, and a page need not stay. `WebPage`, `Commands`, `Connection` and `Wire` check
safety only: what would have to be fair there is the web process, a person or the network.

## What TLC refutes

`Wire_v_diff` checks what `vs-protocol/src/delta/diff.rs` 8-9 says of `diff`, that
applying it gives the new tree "modulo position resolution", and TLC refutes it. When
an element leaves its parent for an ancestor, or for a node that comes earlier in the
tree, the delta adds it at its new place before it removes it from the old one, and
`apply` refuses the second copy of the ref. `PROJECT.json` quotes the lines.

## Further statements that do not hold

Counterexamples found while bounding the runs above. To see one, take the
configuration named, change what the second column says and put the property among
its invariants or properties.

| Property | Configuration, changed | What happens |
|---|---|---|
| `AtMostOnce` | `PageOps_conc`, `Ops = {"act"}`, `MaxFaults = 0` | two copies of an act that leaves the page as it was overlap; the row is written after the lock is released (`daemon/mod.rs` 164-166), both act |
| `AtMostOnce` | `PageOps_single`, `MaxFaults = 1` | `act_and_snapshot` fails after acting; no row is written and the retry acts again |
| `NoSilentStaleClick` | `PageOps_conc`, `Ops = {"view", "act"}`, `MaxCalls = 3`, no drift, fault or sweep | a slow view publishes an old token over a newer one, and an act with it is carried out on a page its client never saw (the README of the repository, line 199: "No silent stale clicks.") |
| `NoSilentStaleClick` | `PageOps_single` | a script moves the page between view and act, or the act reopens a reaped page and runs on the reloaded document |
| `ReturnedTokenValid` | `PageOps_single` | a replayed act returns the recorded token, which the page has left |
| `RetryServed` | `PageOps_single` | the token check precedes the lookup: the retry of an act that moved the page is refused as stale, within the TTL |
| `ResponseRebuildsPage` | `PageOps_single`, `"wait"` among the `Ops` | a wait after a goto uses up the forced full view without returning a body |
| `ResponseRebuildsPage` | `PageOps_single`, 2 clients, `MaxHandles = 3` | the delta baseline belongs to the page, not to the client |
| `RowAgrees` without `~misordered` | `PageOps_conc`, `Ops = {"navigate"}` | map and row are written in opposite orders by two navigations |
| `SuccessFillsForm` | `PromptForms_forms`, `MaxAged = 0` | a fill that leaves the token as it was makes the next field of the same shape a replay (`daemon/mod.rs` 904): it is never filled, and the form still succeeds |
| `SuccessFillsForm`, `CancelHonoured` | `PromptForms_forms` | the sweep drops an entry past its TTL from the middle of a form, and what is left counts as the whole form |
| `FormWaiterWoken` | `PromptForms_forms` | the sweep wakes nobody: a waiter whose last open field it drops sleeps on until the next notify or its deadline |
| `PromptTypingKept` | `PromptForms_links` | a prompt's value is lost when its fill fails |
| `PromptWaiterWoken` | `PromptForms_links` | a value typed before the prompt's first wait wakes nobody; the thread sleeps until its deadline |
| `ReapsOnlyIdle` | `Sessions_all` | a session addressed after the reaper's plan is closed all the same |
| `ToldSessionKept` | `Sessions_all` | a session without a page does not survive a restart |
| `UsedPageReturns` | `Sessions_all` | a page only captured, typed into or inspected has an old row, and a restart drops it (`lifecycle.rs` 277), though 254 speaks of page activity |
| `OkMeansLoaded` | `WebPage_all` | on Linux and Windows a load that failed is answered Ok, with the old document shown |
| `LoadRestoresAll` | `WebPage_all` | cookies the store refuses and records `put` refuses are dropped, and the load is Ok |
| `ClickHits` | `WebPage_all` | on macOS a click on a covered element reaches what covers it |
| `TerminateExits` | `Recorder_all` | the reaper's thread keeps the engine channel open, so the process does not exit after SIGTERM; the comment in `serve.rs` 389-396 says it does |
| `HeldSessionHasRow` | `Commands_all` | the reaper of a stopped daemon closes the row of a session its successor restored and serves |

The newer models keep such cases out of their properties by a condition, which each
property's comment names. What is behind the conditions:

- **Forms.** A form is also superseded, while it is being enqueued, by an ask for its first
  fields alone: `prompt_form_enqueue` compares with what is in the queue.
- **Backends.** The report of an earlier navigation ends the wait for the next one
  (`clean` in `OkShowsPage`). An `open` that is not answered Ok leaves its view behind on
  Linux and Windows, and on macOS when the URL does not parse. A snapshot does not see
  changes in shadow roots or values set by scripts while its cache holds. A second wait
  for a token change on one document returns at once, because the first one's watcher is
  still there. A download whose document is replaced can mix two files, and `Captured`
  without an id takes the newest entry, not the newest complete one. A second IndexedDB
  save can return the dump of the first, and a database that does not open is left out
  without a word, and so are the records of a `getAll` that fails. On Linux a cookie store
  that fails is saved as an empty one, on Windows one whose count fails, and cookies that
  cannot be read are skipped. A failed auth load leaves some of the cookies set. On macOS
  SameSite is lost and a ref inside a shadow root cannot be clicked. Details of requests
  can be swapped after a navigation or between two frames, whose sequence numbers both
  start at 1. A drag that fails leaves the button down. `engine.rs` 283-286 says Windows
  reports no cookie events; it does, by the same comparison as the others.
- **Recorder and runtime.** Overlapping `record_start`s lose the first recorder's handle,
  and its end removes the second one's sink (`raced`). A recorder that ended by itself
  stays in the table. Shutdown waits for a recording as long as its cap, and for the
  reaper for ever. The Windows loop discards wake-ups posted between its last look at the
  job queue and its wait; the job then waits for the 250 ms bound.
- **Processes.** A second daemon on one home leaves the first without a socket; a
  failed bind or a stopping daemon removes files another one wrote; two daemons that
  both find no master key each write one, and the last stays (`alone`, `steady`).
  Concurrent commands of one caller can overwrite the mark of a closed session, a
  command that closes another session with `--session` marks its own caller closed, and
  a binding unused for a month is pruned with its mark (`mixed`).
- **Connection and Wire.** Several siblings that change places come out in the wrong
  order, besides what `Wire_v_diff` shows, and after a navigation by click the refs of the
  new document are taken for those of the old (`page_state.rs` 97-103). `vs_wait`,
  `vs_prompt_input_queue` and `vs_prompt_form_wait` move the baseline without sending the
  change (`PROTOCOL.md` 277-280 says so). An argument that starts with `--` and has no
  blank is read as a flag, and Unicode white space at the end of a line is trimmed. A body
  with a blank line (text of a page, labels of a tree, results of scripts, messages, the
  separators of composite answers) ends early at the client, and cookie events come
  without an envelope (`torn`). A line of a body that starts with `!` makes a tool call a
  failure. The MCP schema of `vs_wait` offers conditions (`ref-appears`, `ref-gone`) the
  handler does not know. The command line cannot send three of `vs_inspect`'s flags.
  `vs_click_at` and `vs_drag` insist on a token they do not compare.

Two further differences from the documentation need no property:
`docs/ARCHITECTURE.md` 137-139 says a restart sets `closed_at` of what was open,
which `resurrect_sessions` does to sessions but not to their pages; and
`prompt_form_wait`'s comment (`daemon/mod.rs` 819-820) says the first fill goes by
the token captured when the form was enqueued, where the code reads the current
one. The models follow the code. A `vs_close` that removes the page while another
call reopens it leaves the reopened web view behind: `Sessions` records such views
in `leaked`, and `ViewsAccountedFor` says they are the only ones.

## What is proved

Eight modules hold theorems (`LoneClientProofs` builds on `PageOpsProofs`), checked by
TLAPS for every number of clients, agents, browsers, workers, processes, pages, sessions,
trees, web views, frames, databases and cookies, every alphabet, texts of every length, and
every value of the bounds.
They assume what the models declare of their constants: sentinels are not values,
bounds are numbers and handles suffice (`SentinelAssumption`, `BoundAssumption`,
`HandleAssumption` of PageOps), the reaper is no client (`ActorAssumption`), a form asks
for at least one field and for at most `MaxFields` (`AskAssumption`), recordings are no
workers and the cap is not 0 (`RuntimeAssumption`, `RecorderAssumption`), a cookie has one
id and one without a domain shares none with those that have one, tables and rings have
room for an entry, the origin has finitely many databases and at least one, the pointer
is somewhere, and 0 is not a character (`PageScriptsAssumption`, `WebInputAssumption`),
the names `is_valid_primitive` accepts have none of the characters the tokenizer tells
apart, and those `dispatch` knows are among them (`PrimitivesAssumption`,
`KnownAssumption`), the characters of what a caller types are not the symbols that stand
for whole words of a request, a page id or a condition (`AlphabetAssumption`; `Connection`
writes such a word as one character of its own), and bounds are numbers (`CountAssumption`,
`LimitAssumption`, `DaemonAssumption`, `CommandAssumption`, `WebViewsAssumption`,
`ConnectionAssumption`). TLC evaluates each of them.

| Theorem | Statement | Argument |
|---|---|---|
| `PageOpsProofs!TypeCorrect` | `Spec => []TypeOK` | inductive as it stands, one step per action |
| `ActsAreSerialised` | `Spec => []ActsSerialised` | `SerialInv` adds: an act between its token check and its row has the mutation lock (`LockInv`; `LabelInv` says which labels are an act's); while the epoch it was checked in lasts, the page's token is the one it was checked against (`CheckInv`) and nothing but an act that failed has moved the page in that epoch before it acts (`EngineInv`); whoever else moved the page in the current epoch still holds the lock and has its new token to publish (`EffectInv`) |
| `MapHandleIsLive` | `Spec => []MapHandleLive` | `HandleInv` adds: handles are handed out once, and those of the page, of the reaper and of the calls about to install are all different, so closing one never closes another's |
| `WaitsSeeAChange` | `Spec => []WaitSawChange` | the token on record is that of the tree and the url on record (`TokenInv`), so the base of a wait is of the url it polls with, and a snapshot whose token differs from it shows another tree, whose token differs whatever the url has become (`WaitInv`); `PathInv` says which primitives come by which label |
| `RowsAgree` | `Spec => []RowAgrees` | `RowInv`: as long as rows were written in the order of the publications, the last call to write has the page's token, and the last navigation to write its url |
| `LoneClientProofs!AnsweredTokensAreValid` | `Spec => []ExecutedTokenValid`, if `Alone` | `AnswerInv`: what is published stays the page's token until it is answered |
| `ActsHappenOnce` | `Spec => [](nfaults = 0 => AtMostOnce)`, if `Alone` | `PassInv`: an act that goes on to the engine was checked in the current epoch against the current token, and its key has no row; `OnceInv`: an act carried out in the current epoch has its row, or its call is about to write it |
| `BodiesRebuildThePage` | `Spec => []ResponseRebuildsPage`, if `Alone` and `NeverWaits` | `MirrorInv`: unless the next body is forced to be full, the client's copy is the delta baseline; while a body is on its way, what the client will make of it is |
| `SessionsProofs!TypeCorrect` | `Spec => []TypeOK` | with `CallInv`: a call at a label that needs a page or a session has one |
| `MemoryIsBacked` | `Spec => []MemoryBacked` | `BackInv` adds: a session outside the map but with its row open is held by exactly one call (`SessionInv`), likewise a page (`PageInv`), whose row is open unless its session's is closed (`OpeningInv`); ids not handed out are unused (`FreshInv`); what was closed has closed rows (`ClosedInv`). Without these a slow `open` could insert a page whose row a `session_close` had closed in between |
| `ClosedNeverReturns` | `Spec => []ClosedStaysClosed` | from `BackInv`: what is in the map has open rows, what was closed has closed ones |
| `ViewsAndPagesMatch` | `Spec => []ViewsMatchPages` | `ViewInv` adds: a page out of the map has no view (`HandleInv`), and a view in the hands of a call is open, no page's and no other call's (`HeldInv`); so a call that installs or closes its view takes nothing from anybody |
| `ToldPagesAreKept` | `Spec => []ToldPageKept` | from `BackInv`, which says that a restart finds the row of every page in the map, and that a page a close took out is recorded as ended in the same step |
| `RecordingsAreSound` | `Spec => []RecordingsSound` | `RecordInv`: a caller's job is in the queue once or is answered, and a caller that waits for nothing has none (`JobInv`); threads wait for the engine exactly where their code calls it (`WorkerInv`, `ThreadInv`); a recording's number is used once (`NumberInv`); of starts that do not overlap one finds the table empty and it is still empty when it inserts (`StartInv`); the engine has a recording's sink from its begin to its end (`SinkInv`); the daemon is dropped when nobody but a reaper is left to call, and the loop ends only without one (`ExitInv`) |
| `NoWakeupIsLost` | `Spec => []WakeupNotLost` | from `JobInv`: a job is queued before its sender wakes the host, and the host sleeps on an empty queue only, so what is queued in its sleep has its wake-up latched or still to come |
| `ChannelImplementsEngine` | `Spec => EngineIsAtomic` | step by step: `dispatch` is the abstract call, the host's turn performs it, the caller's pick-up of the reply returns it; every other step of the workers, the recorder threads, the loops and shutdown is a stutter. `RecordInv` gives the job at the queue's head a caller that still waits |
| `FilesLeadToAServer` | `Spec => []FilesLeadToServer` | `CommandInv`: a daemon that never overlapped another is the only one at work (others may linger) and knows how far it is with each file (`AloneInv`); while nobody stops or kills one, the path stays taken except for the daemon that is between removing and binding it (`RaceInv`) |
| `BindingsAreSound` | `Spec => []BindingsSound` | a session is in one binding or in the hands of the one process that opened it and has not saved it (`OwnerInv`), and what has a row and a page is in the memory of a daemon that restored (`AloneInv`) |
| `StopIsTruthful` | `Spec => StopTellsTruth` | an action property: `ConnInv` and `StopInv` say what a process at each label has behind it, `AloneInv` that a path without a listener means no daemon serves |
| `ClosedSticks` | `Spec => CloseSticks` | an action property: a command whose caller's commands never overlapped is alone with the binding, and saves over a missing one only (`LoneInv`) |
| `QueueIsSound` | `Spec => []QueueSound` | `FormInv`, below; of a form none of whose fields is too old, `WaiterWoken` follows because every step that decides a field wakes all |
| `TypingIsKept` | `Spec => []FormTypingKept` | `HoldInv`: what a call took out of the queue it still holds, or has put on the page, or an old row answered for it (`replayed`) |
| `AnswersAreTrue` | `Spec => []FormAnswerTrue` | for a form none of whose fields is too old, `Together`: its fields are all in the queue, all in the hands of one call, or all gone; `Apart`: what one call holds is nobody else's, and what was refused is not collected |
| `OnlyTwinsSupersede` | `Spec => SupersededByTwin` | an action property, from `FormInv`: a form in the making has its first fields in the queue, as many as were enqueued (`Together`, `FreshInv`, and `AskInv`: it has an agent at work); an increasing choice of fields that covers these chooses each in its place, by the least index at which it would not |
| `LinksAreSpent` | `Spec => []LinkSingleUse` | `LinkInv`: the link of a submission that goes on was spent by it, and a spent link stops the next one |
| `WebPageProofs!ViewsAreOwned` | `Spec => []ViewsOwned` | `HandleInv` adds: handles are numbered behind the views they are given to, so the handle an open takes is free, and the open that waits has the youngest view; `LostInv` says what macOS forgets |
| `OkIsShown` | `Spec => []OkShowsPage` | `LoadInv`: the job that waits has its view's latest navigation, and if no other of that view has yet to report, what it is told of is that navigation's: that it committed or succeeded or, off macOS, that it failed (`Told`) |
| `ReadsAreCurrent` | `Spec => []ReadsCurrent` | `CacheInv`: a clean walker's cache is the tree as it is; `WatchInv`: a watcher that saw a change since a wait installed it has a tree that moved since |
| `AuthIsCarriedOver` | `Spec => []AuthRoundTrip` | `DumpInv` and `RestoreInv`: each database is still to come, done or failed, and was read no earlier than the save began or in part; each cookie of the blob is to come or was given to the store |
| `DownloadsAreHonest` | `Spec => []DownloadsHonest` | `TableInv`: ids are handed out once and at most one read will fill an entry that is not done. `ReadInv`: what was read is the beginning of the entry meta told of, which is as it was or was evicted. A full table has an oldest entry (a well-founded order) and, since its ids are different numbers below the next one, that is at least `MAX_ENTRIES` behind (the cardinality of an interval) |
| `BuffersAreSound` | `Spec => []BuffersSound` | `LimitInv` for the bounds of every part; `MatchInv`: while one frame alone numbers requests, the ring and the details, which evict at the same length, are pushed together, an open request's number is in neither, and what is pending under it is its own start |
| `InputIsSettled` | `Spec => []InputSettles` | `PointerInv`: the button is down from the press to the release, and a job lands where it was sent; `HitInv`: an element nothing was over so far is topmost, and both events hit it; `KeycodeInv`: the dispatcher knows what the borrowed keycode means; `TypedInv`: what was typed and what is left make up the text |
| `ConnectionProofs!AnswersTrueTheorem` | `ConnectionSpec => []AnswersTrue` | `InStep`: while nothing on this connection was torn, `stream` is empty except between `Serve` and `Receive`, and then it is one answer: warnings, an envelope, a body without a blank line, a blank line. `WholeIsRead` computes what the client's loop makes of such a stream (the first envelope, the first blank line behind it) |
| `CommandsUnderstoodTheorem` | `ConnectionSpec => []CommandsUnderstood` | `Asks`: the request in hand is one a command wrote. `CommandsGood` goes through all of them and names the alternative of the handler each satisfies; `ShapeIsKept` says that the kinds of its words can be told from the text, whatever the caller typed |
| `ArrivesAsSentTheorem` | `ConnectionSpec => []ArrivesAsSent` | `Asks` and `Heard` (what the daemon read is the line written), and `RoundTrip`: `parse_request(encode_request(q)) = q` for any sendable request, below |

`RoundTrip` is put together from lemmas about the loops of `request.rs`. The library's
induction theorems take an operator, so `SequencesGrow` gets induction over the length of
a sequence from the order of the numbers being well founded: a set that has the empty
sequence, and with each sequence all that are one longer, has them all. From it come what
a fold does to a longer sequence and to a concatenation, and then: unescaping undoes
escaping (`UnescapeEscape`); a quoted or blank-free word is cut whole, whatever is escaped
in it, and leaves the splitter outside quotes (`LineIsCut`); the quotes the encoder put on
come off, and none that are part of the text (`StripWord`); a flag is split at its first
equals sign into its name and value (`FlagIsRead`), and reading all of them, in whatever
order they are written, gives the map back; the trim takes nothing from a line that does
not end in white space (`TrimKeeps`).

Each invariant of WebPage is that of one family of operations; of the families a
behaviour does not take it says what they start with (`WebInv`).

`FormInv` also says that slots are used one after the other (`SlotInv`), that the slot
an agent enqueues into is its alone (`AgentInv`), that nobody has seen a field that is
not enqueued yet (`FreshInv`) and that entries leave the queue for a reason
(`GoneInv`). Its proof does not go through the actions once per part: lemmas first
say what each action does to an entry and to an agent (`Effect`: it lists, settles,
waits, fills, removes, ...), and each part is shown to survive each effect.

The exceptions in the properties of PromptForms are needed: TLC finds counterexamples
without them (see "Further statements"). The sweep of `pending.rs` drops an entry past
its TTL without waking its waiter and without the other fields of its form, hence
`Young(s)`, which excepts a form one of whose own fields is too old and no other; and a
fill on a token some fill has run on already is a replay, hence `replayed`. The theorems
have no condition on asks, fills or tokens.

`Alone` says that the page has at most one client, `NeverWaits` that its calls do not
include a wait. Like `nfaults = 0` they are what the promises need: "Further
statements" has the counterexamples with two clients, with a wait and with a failing
engine call. The theorems go beyond the run that checks these properties: `vs_close`
is among the calls, for two of them waits are, and for all but `ActsHappenOnce` engine
calls may fail.

The inductive invariants were checked with TLC before they were proved, on the
instances of the runs that check their theorems' properties; `FormInv` also on an
instance with prompts, aging and failing fills together.

Only model-checked:

- the liveness properties, since fairness and ENABLED are out of the prover's reach;
- `MirrorFollows`, of `Wire` over `Delta`: `diff`, `apply` and the parsers recurse over
  trees, to any depth and on both sides at once, and the prover loses its arithmetic
  where a module declares a recursive operator. It is checked over bounded trees; that
  `DeltaExact` fails shows that its exceptions are needed.

## What is not modelled, and the plan

Built so far, in this order: PageOps, PromptForms, Sessions, Recorder with EngineRuntime
and EngineCalls, WebPage, Commands, Connection, Wire, and the proofs of all but Wire.

Not modelled:

- marks, annotations, extract and the log: rows written and read by single statements;
- pruning of captures and the names of their files; skills; redaction and config;
  migrations: each is one sequential pass over files or text;
- encryption of keys and auth blobs, scaling and encoding of video (a frame is assumed
  to decode), mouse paths and delays: they compute values no property here tells apart;
- `flow.rs` beyond the commands it runs one after the other, the MCP server's panel and
  the schemas it lists, Windows named pipes: the same control on another surface;
- a request served after its client has gone and the next one of the same client
  overtaking it: `Connection` serves a request before its answer is lost. Replays by
  idempotency are PageOps', not `Connection`'s.
