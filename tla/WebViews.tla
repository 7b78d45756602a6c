------------------------------- MODULE WebViews ------------------------------
(***************************************************************************)
(* The engine backends' pages: native web views, the handle table, and the *)
(* wait for a navigation, on macOS (webkit), Linux (wpe) and Windows       *)
(* (webview2).  Engine jobs run one at a time; while one waits it pumps    *)
(* the platform's run loop, which delivers what the web process reports.   *)
(* Those reports carry no identity the backends look at: what an earlier   *)
(* navigation of the view still has to report is kept in `late'.           *)
(***************************************************************************)
EXTENDS Naturals, FiniteSets, Backend

CONSTANTS
    MaxViews,   \* bound: web views created
    MaxLoads    \* bound: navigations

ASSUME WebViewsAssumption == MaxViews \in Nat /\ MaxLoads \in Nat

Views == 1..MaxViews
Loads == 0..MaxLoads

VARIABLES
    views,      \* view -> "none", "live", "torn" (closed), "lost" (an error path forgot it)
    pages,      \* handle -> view, 0 once closed
    nextHandle,
    load,       \* view -> its latest navigation, how far it is, and what is late
    shown,      \* view -> the navigation whose document it shows
    slot,       \* view -> what the backend has been told since it last reset
    scripted,   \* views with the passkey shim among their user scripts
    shimmed,    \* views whose document runs the shim
    op,         \* the engine job
    nloads,     \* navigations so far
    verdict     \* how the last open or navigate ended, for the properties

viewVars == <<views, pages, nextHandle, load, shown, slot, scripted, shimmed, op, nloads, verdict>>

NoSlot == [started |-> FALSE, committed |-> FALSE, done |-> "none"]
NoLoad == [n |-> 0, ph |-> "none", late |-> {}]
NoOp == [pc |-> "idle", h |-> 0, v |-> 0, n |-> 0, clean |-> TRUE]
NoVerdict == [ok |-> FALSE, v |-> 0, n |-> 0, open |-> FALSE, clean |-> FALSE, failed |-> FALSE]

InitViews ==
    /\ views = [v \in Views |-> "none"]
    /\ pages = [h \in Views |-> 0] /\ nextHandle = 1
    /\ load = [v \in Views |-> NoLoad] /\ shown = [v \in Views |-> 0]
    /\ slot = [v \in Views |-> NoSlot]
    /\ scripted = {} /\ shimmed = {}
    /\ op = NoOp /\ nloads = 0 /\ verdict = NoVerdict

Live(v) == views[v] = "live"

Unsettled(v) == load[v].ph \in {"asked", "started", "committed"}

(* A new navigation of v; the one it interrupts has yet to report that it   *)
(* failed, or that it had finished just before.                             *)
StartLoad(v) ==
    /\ nloads < MaxLoads
    /\ nloads' = nloads + 1
    /\ \E o \in IF load[v].ph = "committed" THEN {"ok", "err"} ELSE {"err"} :
         load' = [load EXCEPT ![v] = [n |-> nloads + 1, ph |-> "asked",
                                      late |-> IF Unsettled(v) THEN @.late \cup {o}
                                               ELSE @.late]]

Answer(ok) ==
    /\ verdict' = [ok |-> ok, v |-> op.v, n |-> op.n, open |-> op.h = 0, clean |-> op.clean,
                   failed |-> load[op.v].ph = "failed"]
    /\ op' = NoOp

-----------------------------------------------------------------------------
(* Reports from the web process.  The macOS delegate stays connected; the   *)
(* other two listen only inside a waiting job.                              *)
Listening(v) == platform = "webkit" \/ (op.pc # "idle" /\ op.v = v)

(* Windows: NavigationCompleted is not asked how it went.  Linux: after     *)
(* load-failed WebKitGTK emits load-changed with Finished, at once, and the *)
(* handler of that one overwrites the error.                                *)
Reported(outcome) == IF platform = "webkit" THEN outcome ELSE "ok"

Deliver(v, outcome) ==
    slot' = IF Listening(v)
            THEN [slot EXCEPT ![v] =
                    [started |-> @.started \/ (platform = "webkit" /\ outcome = "ok"),
                     committed |-> @.committed \/ (platform = "webkit" /\ outcome = "ok"),
                     done |-> Reported(outcome)]]
            ELSE slot

didStart(v) ==
    /\ Live(v) /\ load[v].ph = "asked"
    /\ load' = [load EXCEPT ![v].ph = "started"]
    /\ slot' = IF platform = "webkit" THEN [slot EXCEPT ![v].started = TRUE] ELSE slot
    /\ UNCHANGED <<views, pages, nextHandle, shown, scripted, shimmed, op, nloads, verdict>>

didCommit(v) ==
    /\ Live(v) /\ load[v].ph = "started"
    /\ load' = [load EXCEPT ![v].ph = "committed"]
    /\ shown' = [shown EXCEPT ![v] = load[v].n]
    /\ shimmed' = IF v \in scripted THEN shimmed \cup {v} ELSE shimmed \ {v}
    /\ slot' = IF platform = "webkit"
               THEN [slot EXCEPT ![v].started = TRUE, ![v].committed = TRUE] ELSE slot
    /\ UNCHANGED <<views, pages, nextHandle, scripted, op, nloads, verdict>>

didFinish(v) ==
    /\ Live(v) /\ load[v].ph = "committed"
    /\ load' = [load EXCEPT ![v].ph = "settled"]
    /\ Deliver(v, "ok")
    /\ UNCHANGED <<views, pages, nextHandle, shown, scripted, shimmed, op, nloads, verdict>>

didFail(v) ==
    /\ Live(v) /\ Unsettled(v)
    /\ load' = [load EXCEPT ![v].ph = "failed"]
    /\ Deliver(v, "err")
    /\ UNCHANGED <<views, pages, nextHandle, shown, scripted, shimmed, op, nloads, verdict>>

(* An earlier navigation reports at last.                                   *)
LateReport(v) ==
    /\ Live(v)
    /\ \E o \in load[v].late :
         /\ load' = [load EXCEPT ![v].late = @ \ {o}]
         /\ Deliver(v, o)
    /\ UNCHANGED <<views, pages, nextHandle, shown, scripted, shimmed, op, nloads, verdict>>

(* A link, a redirect or a script moves the page on its own.                *)
PageNavigates(v) ==
    /\ Live(v) /\ op.pc = "idle" /\ shown[v] # 0
    /\ StartLoad(v)
    /\ UNCHANGED <<views, pages, nextHandle, shown, slot, scripted, shimmed, op, verdict>>

-----------------------------------------------------------------------------
NewView(v) == views[v] = "none" /\ \A w \in Views : w < v => views[w] # "none"

(* A view is up and a navigation asked for; the job waits in WaitWk, WaitWpe *)
(* or WaitW2.                                                               *)
Begin(v, h) ==
    /\ StartLoad(v)
    /\ slot' = [slot EXCEPT ![v] = NoSlot]
    /\ op' = [pc |-> IF platform = "webkit" THEN "launch" ELSE "wait", h |-> h, v |-> v,
              n |-> nloads + 1, clean |-> ~Unsettled(v) /\ load[v].late = {}]

(* A view is made and forgotten: the caller gets an error.                  *)
Forgotten(v) ==
    /\ views' = [views EXCEPT ![v] = "lost"]
    /\ UNCHANGED <<load, slot, nloads, op>>

(* The URL is looked at only after the view and its window exist.           *)
OpenWk(v) ==
    /\ platform = "webkit" /\ op.pc = "idle" /\ NewView(v)
    /\ \/ Begin(v, 0) /\ views' = [views EXCEPT ![v] = "live"]
       \/ Forgotten(v)
    /\ UNCHANGED <<pages, nextHandle, shown, scripted, shimmed, verdict>>

OpenWpe(v) ==
    /\ platform = "wpe" /\ op.pc = "idle" /\ NewView(v)
    /\ Begin(v, 0) /\ views' = [views EXCEPT ![v] = "live"]
    /\ UNCHANGED <<pages, nextHandle, shown, scripted, shimmed, verdict>>

(* Every COM call between the host window and Navigate may fail and return. *)
OpenW2(v) ==
    /\ platform = "webview2" /\ op.pc = "idle" /\ NewView(v)
    /\ \/ Begin(v, 0) /\ views' = [views EXCEPT ![v] = "live"]
       \/ Forgotten(v)
    /\ UNCHANGED <<pages, nextHandle, shown, scripted, shimmed, verdict>>

(* Mutant: the slot keeps what the previous navigation reported.            *)
NavigateWkNoReset(h) ==
    /\ platform = "webkit" /\ op.pc = "idle" /\ pages[h] # 0
    /\ StartLoad(pages[h])
    /\ op' = [pc |-> "launch", h |-> h, v |-> pages[h], n |-> nloads + 1,
              clean |-> ~Unsettled(pages[h]) /\ load[pages[h]].late = {}]
    /\ UNCHANGED <<slot, views, pages, nextHandle, shown, scripted, shimmed, verdict>>

(* The slot is reset before the URL is looked at.                           *)
NavigateWk(h) ==
    /\ platform = "webkit" /\ op.pc = "idle" /\ pages[h] # 0
    /\ \/ Begin(pages[h], h)
       \/ /\ slot' = [slot EXCEPT ![pages[h]] = NoSlot]
          /\ UNCHANGED <<load, nloads, op>>
    /\ UNCHANGED <<views, pages, nextHandle, shown, scripted, shimmed, verdict>>

NavigateWpe(h) ==
    /\ platform = "wpe" /\ op.pc = "idle" /\ pages[h] # 0
    /\ Begin(pages[h], h)
    /\ UNCHANGED <<views, pages, nextHandle, shown, scripted, shimmed, verdict>>

(* A refused Navigate changes nothing: the handler is taken off either way. *)
NavigateW2(h) ==
    /\ platform = "webview2" /\ op.pc = "idle" /\ pages[h] # 0
    /\ Begin(pages[h], h)
    /\ UNCHANGED <<views, pages, nextHandle, shown, scripted, shimmed, verdict>>

-----------------------------------------------------------------------------
(* A page for the view the open made.                                       *)
alloc_handle ==
    /\ pages' = [pages EXCEPT ![nextHandle] = op.v]
    /\ nextHandle' = nextHandle + 1

(* wait_for_navigation returned: an open gets its handle or loses its view.  *)
Ended(ok, fate) ==
    /\ Answer(ok)
    /\ IF op.h = 0 /\ ok THEN alloc_handle ELSE UNCHANGED <<pages, nextHandle>>
    /\ views' = IF op.h = 0 /\ ~ok THEN [views EXCEPT ![op.v] = fate] ELSE views
    /\ UNCHANGED <<load, shown, slot, scripted, shimmed, nloads>>

(* The launch budget ends: the web process never started.                   *)
Launch ==
    LET s == slot[op.v] IN
    /\ op.pc = "launch"
    /\ \/ ~s.started /\ s.done = "none" /\ Ended(FALSE, "torn")
       \/ s.done # "none" /\ Ended(s.done = "ok", "torn")
       \/ /\ s.started /\ s.done = "none"
          /\ op' = [op EXCEPT !.pc = "wait"]
          /\ UNCHANGED <<views, pages, nextHandle, load, shown, slot, scripted, shimmed, nloads,
                         verdict>>

(* Mutant: the failed open drops its view without tearing it down.          *)
WaitWkDrops ==
    LET s == slot[op.v] IN
    /\ platform = "webkit" /\ op.pc = "wait"
    /\ Ended(s.done = "ok" \/ (s.done = "none" /\ s.committed), "lost")

(* The load budget may end at any time: a committed document is enough.     *)
WaitWk ==
    LET s == slot[op.v] IN
    /\ platform = "webkit" /\ op.pc = "wait"
    /\ Ended(s.done = "ok" \/ (s.done = "none" /\ s.committed), "torn")

(* A timeout returns without closing the host window.                       *)
WaitWpe ==
    /\ platform = "wpe" /\ op.pc = "wait"
    /\ Ended(slot[op.v].done = "ok", "lost")

(* No budget: the job waits for a completion, of whichever navigation.      *)
WaitW2 ==
    /\ platform = "webview2" /\ op.pc = "wait"
    /\ slot[op.v].done = "ok"
    /\ \/ Ended(TRUE, "lost")
       \/ Ended(FALSE, "lost")   \* remove_NavigationCompleted failed

-----------------------------------------------------------------------------
(* The shim joins the user scripts, then the loaded document; the second    *)
(* may fail and the first stays.                                            *)
enable_webauthn(h) ==
    /\ platform = "webkit" /\ op.pc = "idle" /\ pages[h] # 0
    /\ scripted' = scripted \cup {pages[h]}
    /\ shimmed' \in {shimmed, shimmed \cup {pages[h]}}
    /\ UNCHANGED <<views, pages, nextHandle, load, shown, slot, op, nloads, verdict>>

Close(h, p) ==
    /\ platform = p /\ op.pc = "idle" /\ pages[h] # 0
    /\ views' = [views EXCEPT ![pages[h]] = "torn"]
    /\ pages' = [pages EXCEPT ![h] = 0]
    /\ UNCHANGED <<nextHandle, load, shown, slot, scripted, shimmed, op, nloads, verdict>>

CloseWk(h) == Close(h, "webkit")
CloseWpe(h) == Close(h, "wpe")
CloseW2(h) == Close(h, "webview2")

(* The macOS backend is dropped at shutdown: every page is closed.          *)
DropWk ==
    /\ platform = "webkit" /\ op.pc = "idle" /\ \E h \in Views : pages[h] # 0
    /\ views' = [v \in Views |-> IF \E h \in Views : pages[h] = v THEN "torn" ELSE views[v]]
    /\ pages' = [h \in Views |-> 0]
    /\ UNCHANGED <<nextHandle, load, shown, slot, scripted, shimmed, op, nloads, verdict>>

NextViews ==
    \/ \E v \in Views : \/ didStart(v) \/ didCommit(v) \/ didFinish(v) \/ didFail(v)
                        \/ LateReport(v) \/ PageNavigates(v)
                        \/ OpenWk(v) \/ OpenWpe(v) \/ OpenW2(v)
    \/ \E h \in Views : \/ NavigateWk(h) \/ NavigateWpe(h) \/ NavigateW2(h)
                        \/ CloseWk(h) \/ CloseWpe(h) \/ CloseW2(h) \/ enable_webauthn(h)
    \/ Launch \/ WaitWk \/ WaitWpe \/ WaitW2 \/ DropWk

-----------------------------------------------------------------------------
(* Inductive invariants.                                                    *)
Outcomes == {"ok", "err"}
LoadRecords == [n : Nat, ph : {"none", "asked", "started", "committed", "settled", "failed"},
                late : SUBSET Outcomes]
SlotRecords == [started : BOOLEAN, committed : BOOLEAN, done : {"none", "ok", "err"}]
OpRecords == [pc : {"idle", "launch", "wait"}, h : {0} \cup Views, v : {0} \cup Views,
              n : Nat, clean : BOOLEAN]
VerdictRecords == [ok : BOOLEAN, v : {0} \cup Views, n : Nat, open : BOOLEAN, clean : BOOLEAN,
                   failed : BOOLEAN]

TypeViews ==
    /\ views \in [Views -> {"none", "live", "torn", "lost"}]
    /\ pages \in [Views -> 0..MaxViews] /\ nextHandle \in Nat \ {0}
    /\ load \in [Views -> LoadRecords] /\ shown \in [Views -> Nat] /\ nloads \in Nat
    /\ slot \in [Views -> SlotRecords]
    /\ op \in OpRecords /\ (op.pc # "idle" => op.v \in Views)
    /\ verdict \in VerdictRecords /\ (verdict.ok => verdict.v \in Views)

(* The open whose view is v has not answered yet.                           *)
Opening(v) == op.pc # "idle" /\ op.h = 0 /\ op.v = v

(* A live view is one handle's, or the open's that has yet to answer; the   *)
(* number of handles is behind that of views.                               *)
HandleInv ==
    /\ \A h \in Views : pages[h] # 0 => Live(pages[h]) /\ h < nextHandle
    /\ \A h, k \in Views : pages[h] # 0 /\ pages[h] = pages[k] => h = k
    /\ \A v \in Views : Live(v) => Opening(v) \/ \E h \in Views : pages[h] = v
    /\ \A v \in Views : Opening(v) =>
         /\ Live(v) /\ nextHandle <= v
         /\ \A h \in Views : pages[h] # v
         /\ \A w \in Views : views[w] = "none" => v < w
    /\ op.pc # "idle" /\ op.h # 0 => pages[op.h] = op.v
    /\ \A v \in Views : views[v] = "none" => nextHandle <= v /\ load[v] = NoLoad

(* On macOS only a view that never had a navigation is forgotten.           *)
LostInv == platform = "webkit" => \A v \in Views : views[v] = "lost" => load[v].n = 0

(* What a job that waits was told of is that its navigation committed or    *)
(* succeeded or, except on macOS, that it failed.                           *)
Told ==
    \/ shown[op.v] = op.n
    \/ platform # "webkit" /\ load[op.v].ph = "failed"

(* A job that waits has the latest navigation of its view; if no other of   *)
(* the view has yet to report, what it was told of is its own.              *)
LoadInv ==
    /\ \A v \in Views : /\ shown[v] <= load[v].n /\ load[v].n <= nloads
                        /\ load[v].ph \in {"committed", "settled"} => shown[v] = load[v].n
    /\ op.pc # "idle" => op.n = load[op.v].n
    /\ op.pc # "idle" /\ op.clean =>
         /\ load[op.v].late = {}
         /\ slot[op.v].done = "ok" \/ slot[op.v].committed => Told

(* There are no more handles than views.                                    *)
ViewLimits == nextHandle <= MaxViews + 1 /\ scripted \subseteq Views /\ shimmed \subseteq Views

=============================================================================
