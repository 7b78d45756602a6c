------------------------------- MODULE Sessions ------------------------------
(***************************************************************************)
(* The daemon's sessions and pages in three places at once: the session    *)
(* map in memory, the engine's web views, and the rows of state.db.        *)
(*                                                                         *)
(* Client calls and the reaper interleave at the grain of their critical   *)
(* sections; the daemon may crash between any two of them, and a restart   *)
(* rebuilds the map from the rows.  Time is kept as ages: 0 is in use, 1   *)
(* is past page_idle (half an hour by default), 2 is past session_ttl and  *)
(* resurrect_sessions' max_age (a day each).  What a call does to the page *)
(* itself is PageOps; here it is one engine call and one row update.       *)
(***************************************************************************)
EXTENDS Naturals, FiniteSets

CONSTANTS
    Clients, Reaper,
    MaxSessions, MaxPages,  \* bounds: ids handed out
    MaxCalls,               \* bound: client calls
    MaxTicks,               \* bound: stretches of idle time
    MaxSweeps,              \* bound: sweeps of the reaper that find something
    MaxFaults,              \* bound: engine calls that fail
    MaxCrashes,             \* bound: daemon crashes
    Calls                   \* the calls clients make

AllCalls == {"session_open", "session_close", "sweep", "open", "close", "use"}

ASSUME ActorAssumption == Reaper \notin Clients /\ Calls \subseteq AllCalls

ASSUME CountAssumption ==
    /\ MaxSessions \in Nat /\ MaxPages \in Nat /\ MaxCalls \in Nat
    /\ MaxTicks \in Nat /\ MaxSweeps \in Nat /\ MaxFaults \in Nat
    /\ MaxCrashes \in Nat

Sids == 1..MaxSessions
Pids == 1..MaxPages
Procs == Clients \cup {Reaper}

VARIABLES
    sessions,   \* the session map's ids
    pages,      \* page -> the session whose map holds it (0: none), its handle
    stouch, ptouch,  \* age of last_touched, per session and per page
    live,       \* engine pages
    opened,     \* engine pages opened so far
    srow,       \* session rows
    prow,       \* page rows: session, status
    pseen,      \* age of a page row's last_seen_at
    proc,       \* the calls in flight, and the reaper
    npages,     \* page ids handed out
    told,       \* pages and sessions a client was answered with
    ended,      \* ... that were taken out of the map on purpose
    closed,     \* ... whose closing was answered
    leaked,     \* engine pages a failing call left behind
    ncalls, nticks, nsweeps, nfaults, ncrashes

mapVars == <<sessions, pages, stouch, ptouch>>
engineVars == <<live, opened>>
storeVars == <<srow, prow, pseen>>
histVars == <<told, ended, closed, leaked>>
countVars == <<ncalls, nticks, nsweeps, nfaults, ncrashes>>
vars == <<mapVars, engineVars, storeVars, proc, npages, histVars, countVars>>

NoPage == [sid |-> 0, h |-> 0]

(* sid, pid, h: the call's session, page and engine handle; hs: handles a   *)
(* session_close has yet to close; targets: sessions still to be closed;    *)
(* dormant: pages a sweep has yet to put to sleep.                          *)
Done == [pc |-> "idle", sid |-> 0, pid |-> 0, h |-> 0, hs |-> {},
         targets |-> {}, dormant |-> {}]

Pages(s) == {p \in Pids : pages[p].sid = s}

(* Sessions and pages in one set.                                           *)
Ids(S, P) == {<<"s", s>> : s \in S} \cup {<<"p", p>> : p \in P}

Init ==
    /\ sessions = {}
    /\ pages = [p \in Pids |-> NoPage]
    /\ stouch = [s \in Sids |-> 0] /\ ptouch = [p \in Pids |-> 0]
    /\ live = {} /\ opened = 0
    /\ srow = [s \in Sids |-> "none"]
    /\ prow = [p \in Pids |-> [sid |-> 0, st |-> "none"]]
    /\ pseen = [p \in Pids |-> 0]
    /\ proc = [x \in Procs |-> Done]
    /\ npages = 0
    /\ told = {} /\ ended = {} /\ closed = {} /\ leaked = {}
    /\ ncalls = 0 /\ nticks = 0 /\ nsweeps = 0 /\ nfaults = 0 /\ ncrashes = 0

-----------------------------------------------------------------------------
Goto(x, label) == proc' = [proc EXCEPT ![x].pc = label]

Finish(x) == proc' = [proc EXCEPT ![x] = Done]

(* An error response; what the engine opened for the call stays open.       *)
Fail(x, lost) == Finish(x) /\ leaked' = leaked \cup lost

NewSessions == {s \in Sids : srow[s] = "none"}

(* Nothing in the session was addressed within session_ttl.                 *)
Expired(s) == stouch[s] = 2 /\ \A p \in Pages(s) : ptouch[p] = 2

Begin(x) ==
    /\ x \in Clients
    /\ proc[x].pc = "idle"
    /\ ncalls < MaxCalls
    /\ ncalls' = ncalls + 1
    /\ \/ /\ "session_open" \in Calls
          /\ Cardinality({y \in Clients : proc[y].pc = "create_session"}) < Cardinality(NewSessions)
          /\ proc' = [proc EXCEPT ![x] = [Done EXCEPT !.pc = "create_session"]]
       \/ /\ "session_close" \in Calls
          /\ \E s \in Sids \ NewSessions :
               proc' = [proc EXCEPT ![x] = [Done EXCEPT !.pc = "targets", !.targets = {s}]]
       \/ /\ "sweep" \in Calls
          /\ \E idle \in {0, 1, 2} :
               proc' = [proc EXCEPT ![x] =
                          [Done EXCEPT !.pc = "targets",
                                       !.targets = {s \in sessions :
                                                      /\ stouch[s] >= idle
                                                      /\ \A p \in Pages(s) : ptouch[p] >= idle}]]
       \/ /\ "open" \in Calls
          /\ npages + Cardinality({y \in Clients : proc[y].pc \in {"require", "open"}}) < MaxPages
          /\ \E s \in Sids \ NewSessions :
               proc' = [proc EXCEPT ![x] = [Done EXCEPT !.pc = "require", !.sid = s]]
       \/ \E c \in Calls \cap {"close", "use"}, p \in 1..npages :
            /\ <<"p", p>> \in told
            /\ proc' = [proc EXCEPT ![x] = [Done EXCEPT !.pc = c, !.sid = prow[p].sid, !.pid = p]]
    /\ UNCHANGED <<mapVars, engineVars, storeVars, npages, histVars, nticks, nsweeps,
                   nfaults, ncrashes>>

-----------------------------------------------------------------------------
(* session_open: the row, then the map.                                     *)
CreateSession(x) ==
    /\ proc[x].pc = "create_session"
    /\ \E s \in NewSessions :
         /\ \A t \in NewSessions : s <= t
         /\ srow' = [srow EXCEPT ![s] = "open"]
         /\ proc' = [proc EXCEPT ![x].pc = "insert_session", ![x].sid = s]
    /\ UNCHANGED <<mapVars, engineVars, prow, pseen, npages, histVars, countVars>>

InsertSession(x) ==
    /\ proc[x].pc = "insert_session"
    /\ sessions' = sessions \cup {proc[x].sid}
    /\ stouch' = [stouch EXCEPT ![proc[x].sid] = 0]
    /\ told' = told \cup Ids({proc[x].sid}, {})
    /\ Finish(x)
    /\ UNCHANGED <<pages, ptouch, engineVars, storeVars, npages, ended, closed, leaked, countVars>>

-----------------------------------------------------------------------------
(* session_close, alone, in a session_close_sweep or in a reaper's sweep.   *)
NextTarget(x) ==
    /\ proc[x].pc = "targets"
    /\ IF proc[x].targets = {} THEN Finish(x)
       ELSE \E s \in proc[x].targets :
              proc' = [proc EXCEPT ![x].pc = "remove", ![x].sid = s,
                                   ![x].targets = @ \ {s}]
    /\ UNCHANGED <<mapVars, engineVars, storeVars, npages, histVars, countVars>>

RemoveSession(x) ==
    LET s == proc[x].sid IN
    /\ proc[x].pc = "remove"
    /\ IF s \in sessions
       THEN /\ sessions' = sessions \ {s}
            /\ pages' = [p \in Pids |-> IF p \in Pages(s) THEN NoPage ELSE pages[p]]
            /\ ended' = ended \cup Ids({s}, Pages(s))
            /\ proc' = [proc EXCEPT ![x].pc = "close_views",
                                    ![x].hs = {pages[p].h : p \in Pages(s)} \ {0}]
       ELSE /\ Goto(x, "targets")
            /\ UNCHANGED <<sessions, pages, ended>>
    /\ UNCHANGED <<stouch, ptouch, engineVars, storeVars, npages, told, closed, leaked, countVars>>

(* Mutant: only one of the session's web views is closed.                   *)
CloseViewsFirstOnly(x) ==
    /\ proc[x].pc = "close_views"
    /\ proc' = [proc EXCEPT ![x].pc = "close_rows", ![x].hs = {}]
    /\ IF proc[x].hs = {} THEN UNCHANGED live ELSE \E h \in proc[x].hs : live' = live \ {h}
    /\ UNCHANGED <<mapVars, opened, storeVars, npages, histVars, countVars>>

CloseViews(x) ==
    /\ proc[x].pc = "close_views"
    /\ IF proc[x].hs = {} THEN Goto(x, "close_rows") /\ UNCHANGED live
       ELSE \E h \in proc[x].hs :
              /\ live' = live \ {h}
              /\ proc' = [proc EXCEPT ![x].hs = @ \ {h}]
    /\ UNCHANGED <<mapVars, opened, storeVars, npages, histVars, countVars>>

CloseRows(x) ==
    LET s == proc[x].sid
        mine == {p \in Pids : prow[p].sid = s}
    IN  /\ proc[x].pc = "close_rows"
        /\ srow' = [srow EXCEPT ![s] = "closed"]
        /\ prow' = [p \in Pids |-> IF p \in mine THEN [prow[p] EXCEPT !.st = "closed"]
                                   ELSE prow[p]]
        /\ closed' = closed \cup Ids({s}, mine)
        /\ Goto(x, "targets")
        /\ UNCHANGED <<mapVars, engineVars, pseen, npages, told, ended, leaked,
                       countVars>>

-----------------------------------------------------------------------------
(* open: the session is checked, the engine page opened, the row written,   *)
(* the first snapshot taken, and only then the page goes into the map.      *)
Require(x) ==
    /\ proc[x].pc = "require"
    /\ IF proc[x].sid \in sessions THEN Goto(x, "open") ELSE Finish(x)
    /\ UNCHANGED <<mapVars, engineVars, storeVars, npages, histVars, countVars>>

(* Mutant: the handle counter does not advance.                             *)
EngineOpenStuck(x) ==
    /\ proc[x].pc = "open"
    /\ npages < MaxPages
    /\ live' = live \cup {opened + 1}
    /\ npages' = npages + 1
    /\ proc' = [proc EXCEPT ![x].pc = "create_page", ![x].h = opened + 1,
                            ![x].pid = npages + 1]
    /\ UNCHANGED <<mapVars, opened, storeVars, histVars, countVars>>

EngineOpen(x) ==
    /\ proc[x].pc = "open"
    /\ npages < MaxPages
    /\ opened' = opened + 1
    /\ live' = live \cup {opened + 1}
    /\ npages' = npages + 1
    /\ proc' = [proc EXCEPT ![x].pc = "create_page", ![x].h = opened + 1,
                            ![x].pid = npages + 1]
    /\ UNCHANGED <<mapVars, storeVars, histVars, countVars>>

CreatePage(x) ==
    /\ proc[x].pc = "create_page"
    /\ prow' = [prow EXCEPT ![proc[x].pid] = [sid |-> proc[x].sid, st |-> "open"]]
    /\ pseen' = [pseen EXCEPT ![proc[x].pid] = 0]
    /\ Goto(x, "snapshot")
    /\ UNCHANGED <<mapVars, engineVars, srow, npages, histVars, countVars>>

FirstSnapshot(x) ==
    /\ proc[x].pc = "snapshot"
    /\ pseen' = [pseen EXCEPT ![proc[x].pid] = 0]
    /\ Goto(x, "insert_page")
    /\ UNCHANGED <<mapVars, engineVars, srow, prow, npages, histVars, countVars>>

(* Mutant: the session is not looked up again.                              *)
InsertPageUnchecked(x) ==
    LET p == proc[x].pid IN
    /\ proc[x].pc = "insert_page"
    /\ pages' = [pages EXCEPT ![p] = [sid |-> proc[x].sid, h |-> proc[x].h]]
    /\ ptouch' = [ptouch EXCEPT ![p] = 0]
    /\ told' = told \cup Ids({}, {p})
    /\ Finish(x)
    /\ UNCHANGED <<sessions, stouch, engineVars, storeVars, npages, ended, closed, leaked, countVars>>

InsertPage(x) ==
    LET p == proc[x].pid IN
    /\ proc[x].pc = "insert_page"
    /\ IF proc[x].sid \in sessions
       THEN /\ pages' = [pages EXCEPT ![p] = [sid |-> proc[x].sid, h |-> proc[x].h]]
            /\ ptouch' = [ptouch EXCEPT ![p] = 0]
            /\ told' = told \cup Ids({}, {p})
            /\ Finish(x)
            /\ UNCHANGED leaked
       ELSE /\ Fail(x, {proc[x].h})
            /\ UNCHANGED <<pages, ptouch, told>>
    /\ UNCHANGED <<sessions, stouch, engineVars, storeVars, npages, ended, closed, countVars>>

-----------------------------------------------------------------------------
(* close: out of the map, out of the engine, out of the rows.               *)
InMap(x) == proc[x].sid \in sessions /\ pages[proc[x].pid].sid = proc[x].sid

RemovePage(x) ==
    LET p == proc[x].pid IN
    /\ proc[x].pc = "close"
    /\ IF InMap(x)
       THEN /\ pages' = [pages EXCEPT ![p] = NoPage]
            /\ ended' = ended \cup Ids({}, {p})
            /\ proc' = [proc EXCEPT ![x].pc = "close_view", ![x].h = pages[p].h]
       ELSE Finish(x) /\ UNCHANGED <<pages, ended>>
    /\ UNCHANGED <<sessions, stouch, ptouch, engineVars, storeVars, npages, told, closed,
                   leaked, countVars>>

CloseView(x) ==
    /\ proc[x].pc = "close_view"
    /\ live' = live \ {proc[x].h}
    /\ Goto(x, "close_row")
    /\ UNCHANGED <<mapVars, opened, storeVars, npages, histVars, countVars>>

(* Mutant: the page's row is not closed.                                    *)
CloseRowSkipped(x) ==
    /\ proc[x].pc = "close_row"
    /\ closed' = closed \cup Ids({}, {proc[x].pid})
    /\ Finish(x)
    /\ UNCHANGED <<mapVars, engineVars, storeVars, npages, told, ended, leaked,
                   countVars>>

CloseRow(x) ==
    /\ proc[x].pc = "close_row"
    /\ prow' = [prow EXCEPT ![proc[x].pid].st = "closed"]
    /\ closed' = closed \cup Ids({}, {proc[x].pid})
    /\ Finish(x)
    /\ UNCHANGED <<mapVars, engineVars, srow, pseen, npages, told, ended, leaked,
                   countVars>>

-----------------------------------------------------------------------------
(* Any call on a page: engine_handle_for (which records the use in memory), *)
(* the engine call, the row update if the call makes one.  read and find    *)
(* look at the tree in memory and change nothing.                           *)
HandleFor(x) ==
    LET s == proc[x].sid
        p == proc[x].pid
    IN  /\ proc[x].pc = "use"
        /\ stouch' = IF s \in sessions THEN [stouch EXCEPT ![s] = 0] ELSE stouch
        /\ IF InMap(x)
           THEN /\ ptouch' = [ptouch EXCEPT ![p] = 0]
                /\ proc' = [proc EXCEPT ![x].pc = IF pages[p].h # 0 THEN "call" ELSE "reopen",
                                        ![x].h = pages[p].h]
           ELSE Finish(x) /\ UNCHANGED ptouch
        /\ UNCHANGED <<sessions, pages, engineVars, storeVars, npages, histVars, countVars>>

Reopen(x) ==
    /\ proc[x].pc = "reopen"
    /\ opened' = opened + 1
    /\ live' = live \cup {opened + 1}
    /\ proc' = [proc EXCEPT ![x].pc = "install", ![x].h = opened + 1]
    /\ UNCHANGED <<mapVars, storeVars, npages, histVars, countVars>>

Install(x) ==
    LET p == proc[x].pid IN
    /\ proc[x].pc = "install"
    /\ IF ~InMap(x)
       THEN Fail(x, {proc[x].h}) /\ UNCHANGED <<pages, live>>
       ELSE /\ proc' = [proc EXCEPT ![x].pc = "call",
                                    ![x].h = IF pages[p].h # 0 THEN pages[p].h ELSE @]
            /\ live' = IF pages[p].h # 0 THEN live \ {proc[x].h} ELSE live
            /\ pages' = [pages EXCEPT ![p].h = proc'[x].h]
            /\ UNCHANGED leaked
    /\ UNCHANGED <<sessions, stouch, ptouch, opened, storeVars, npages, told, ended, closed, countVars>>

(* Calls that take a snapshot, or navigate, go on to the row.  The others   *)
(* (capture, download, layout, inspect, vs_type, auth, and an act answered  *)
(* from its row) have touched the page in memory and are done.              *)
Call(x) ==
    /\ proc[x].pc = "call"
    /\ \/ Goto(x, "update_row") /\ proc[x].h \in live
       \/ Finish(x)
    /\ UNCHANGED <<mapVars, engineVars, storeVars, npages, histVars, countVars>>

(* The snapshot is applied under the map's lock, if the page is still       *)
(* there; then the row follows.                                             *)
UpdateRow(x) ==
    /\ proc[x].pc = "update_row"
    /\ pseen' = IF InMap(x) THEN [pseen EXCEPT ![proc[x].pid] = 0] ELSE pseen
    /\ Finish(x)
    /\ UNCHANGED <<mapVars, engineVars, srow, prow, npages, histVars, countVars>>

(* An engine call fails: before anything is open, or with the page open.    *)
EngineFault(x) ==
    /\ proc[x].pc \in {"open", "reopen", "snapshot", "call"}
    /\ nfaults < MaxFaults
    /\ nfaults' = nfaults + 1
    /\ Fail(x, IF proc[x].pc = "snapshot" THEN {proc[x].h} ELSE {})
    /\ UNCHANGED <<mapVars, engineVars, storeVars, npages, told, ended, closed,
                   ncalls, nticks, nsweeps, ncrashes>>

-----------------------------------------------------------------------------
(* Mutant: pages get the session's budget before they go dormant.           *)
ReapPlanLate ==
    LET late == {s \in sessions : Expired(s)}
        idle == {p \in Pids : /\ pages[p].sid \in sessions \ late
                              /\ pages[p].h # 0 /\ ptouch[p] >= 2}
    IN  /\ proc[Reaper].pc = "idle"
        /\ nsweeps < MaxSweeps
        /\ late \cup idle # {}
        /\ nsweeps' = nsweeps + 1
        /\ proc' = [proc EXCEPT ![Reaper] =
                      [Done EXCEPT !.pc = "dormant", !.dormant = idle, !.targets = late]]
        /\ UNCHANGED <<mapVars, engineVars, storeVars, npages, histVars, ncalls, nticks,
                       nfaults, ncrashes>>

(* reap_once: a plan under the lock, then the pages one by one, then the    *)
(* sessions.                                                                *)
ReapPlan ==
    LET late == {s \in sessions : Expired(s)}
        idle == {p \in Pids : /\ pages[p].sid \in sessions \ late
                              /\ pages[p].h # 0 /\ ptouch[p] >= 1}
    IN  /\ proc[Reaper].pc = "idle"
        /\ nsweeps < MaxSweeps
        /\ late \cup idle # {}
        /\ nsweeps' = nsweeps + 1
        /\ proc' = [proc EXCEPT ![Reaper] =
                      [Done EXCEPT !.pc = "dormant", !.dormant = idle, !.targets = late]]
        /\ UNCHANGED <<mapVars, engineVars, storeVars, npages, histVars, ncalls, nticks,
                       nfaults, ncrashes>>

(* Mutant: the dormant page keeps its handle.                               *)
ReapPageKeepsHandle ==
    /\ proc[Reaper].pc = "dormant"
    /\ IF proc[Reaper].dormant = {} THEN Goto(Reaper, "targets")
       ELSE \E p \in proc[Reaper].dormant :
              proc' = [proc EXCEPT ![Reaper].pc = "close_dormant",
                                   ![Reaper].h = pages[p].h,
                                   ![Reaper].dormant = @ \ {p}]
    /\ UNCHANGED <<mapVars, engineVars, storeVars, npages, histVars, countVars>>

ReapPage ==
    /\ proc[Reaper].pc = "dormant"
    /\ IF proc[Reaper].dormant = {}
       THEN Goto(Reaper, "targets") /\ UNCHANGED pages
       ELSE \E p \in proc[Reaper].dormant :
              /\ pages' = [pages EXCEPT ![p].h = 0]
              /\ proc' = [proc EXCEPT ![Reaper].pc = "close_dormant",
                                      ![Reaper].h = pages[p].h,
                                      ![Reaper].dormant = @ \ {p}]
    /\ UNCHANGED <<sessions, stouch, ptouch, engineVars, storeVars, npages, histVars,
                   countVars>>

CloseDormant ==
    /\ proc[Reaper].pc = "close_dormant"
    /\ live' = live \ {proc[Reaper].h}
    /\ proc' = [proc EXCEPT ![Reaper].pc = "dormant", ![Reaper].h = 0]
    /\ UNCHANGED <<mapVars, opened, storeVars, npages, histVars, countVars>>

-----------------------------------------------------------------------------
Older(age) == IF age = 2 THEN 2 ELSE age + 1

(* Nobody addresses anything for a while.  Calls and sweeps are short       *)
(* against the idle windows.                                                *)
Tick ==
    /\ nticks < MaxTicks
    /\ \A x \in Procs : proc[x].pc = "idle"
    /\ nticks' = nticks + 1
    /\ stouch' = [s \in Sids |-> Older(stouch[s])]
    /\ ptouch' = [p \in Pids |-> Older(ptouch[p])]
    /\ pseen' = [p \in Pids |-> Older(pseen[p])]
    /\ UNCHANGED <<sessions, pages, engineVars, srow, prow, proc, npages, histVars, ncalls,
                   nsweeps, nfaults, ncrashes>>

(* Mutant: the cutoff is half an hour instead of a day.                     *)
RecentTooStrict(s) == {p \in Pids : prow[p] = [sid |-> s, st |-> "open"] /\ pseen[p] < 1}

(* The rows resurrect_sessions keeps of a session.                          *)
Recent(s) == {p \in Pids : prow[p] = [sid |-> s, st |-> "open"] /\ pseen[p] < 2}

(* The daemon dies and is spawned again: resurrect_sessions fills the map   *)
(* before the socket is served.                                             *)
CrashRestart ==
    LET back == {s \in Sids : srow[s] = "open" /\ Recent(s) # {}}
    IN  /\ ncrashes < MaxCrashes
        /\ ncrashes' = ncrashes + 1
        /\ sessions' = back
        /\ pages' = [p \in Pids |-> IF \E s \in back : p \in Recent(s)
                                    THEN [sid |-> prow[p].sid, h |-> 0] ELSE NoPage]
        /\ stouch' = [s \in Sids |-> 0] /\ ptouch' = [p \in Pids |-> 0]
        /\ srow' = [s \in Sids |-> IF srow[s] = "open" /\ s \notin back THEN "closed"
                                   ELSE srow[s]]
        /\ live' = {} /\ leaked' = {}
        /\ proc' = [x \in Procs |-> Done]
        /\ ended' = ended \cup Ids({s \in sessions : stouch[s] = 2},
                                   {p \in Pids : pages[p].sid # 0 /\ pseen[p] = 2})
        /\ UNCHANGED <<opened, prow, pseen, npages, told, closed, ncalls, nticks, nsweeps,
                       nfaults>>

-----------------------------------------------------------------------------
CallStep(x) ==
    \/ CreateSession(x) \/ InsertSession(x)
    \/ NextTarget(x) \/ RemoveSession(x) \/ CloseViews(x) \/ CloseRows(x)
    \/ Require(x) \/ EngineOpen(x) \/ CreatePage(x) \/ FirstSnapshot(x) \/ InsertPage(x)
    \/ RemovePage(x) \/ CloseView(x) \/ CloseRow(x)
    \/ HandleFor(x) \/ Reopen(x) \/ Install(x) \/ Call(x) \/ UpdateRow(x)

ReaperStep == ReapPlan \/ ReapPage \/ CloseDormant \/ CallStep(Reaper)

Rest ==
    /\ \A x \in Clients : proc[x].pc = "idle"
    /\ UNCHANGED vars

Next ==
    \/ \E x \in Clients : Begin(x) \/ CallStep(x) \/ EngineFault(x)
    \/ ReaperStep \/ Tick \/ CrashRestart \/ Rest

Spec == Init /\ [][Next]_vars

(* Calls run on their own threads, the reaper wakes up every sweep.         *)
FairSpec ==
    /\ Spec
    /\ \A x \in Clients : WF_vars(CallStep(x))
    /\ WF_vars(ReaperStep)

-----------------------------------------------------------------------------
Labels == {"idle", "create_session", "insert_session", "targets", "remove",
           "close_views", "close_rows", "require", "open", "create_page",
           "snapshot", "insert_page", "close", "close_view", "close_row",
           "use", "reopen", "install", "call", "update_row", "dormant",
           "close_dormant"}

CallStates == [pc : Labels, sid : 0..MaxSessions, pid : 0..MaxPages, h : Nat,
               hs : SUBSET Nat, targets : SUBSET Sids, dormant : SUBSET Pids]

TypeMap ==
    /\ sessions \subseteq Sids
    /\ pages \in [Pids -> [sid : 0..MaxSessions, h : Nat]]
    /\ stouch \in [Sids -> 0..2] /\ ptouch \in [Pids -> 0..2]

TypeEngine == live \subseteq 1..opened /\ opened \in Nat

TypeStore ==
    /\ srow \in [Sids -> {"none", "open", "closed"}]
    /\ prow \in [Pids -> [sid : 0..MaxSessions, st : {"none", "open", "closed"}]]
    /\ pseen \in [Pids -> 0..2]

TypeHistory ==
    /\ told \subseteq Ids(Sids, Pids) /\ ended \subseteq Ids(Sids, Pids)
    /\ closed \subseteq Ids(Sids, Pids)
    /\ leaked \subseteq Nat

TypeCount ==
    /\ npages \in 0..MaxPages
    /\ ncalls \in Nat /\ nticks \in Nat /\ nsweeps \in Nat /\ nfaults \in Nat
    /\ ncrashes \in Nat

TypeOK ==
    /\ TypeMap /\ TypeEngine /\ TypeStore /\ TypeHistory /\ TypeCount
    /\ proc \in [Procs -> CallStates]

(* state.db is the source of truth: whatever is in the session map has an   *)
(* open row, its page under the same session, at every instant at which the *)
(* daemon might die.                                                        *)
MemoryBacked ==
    /\ \A s \in sessions : srow[s] = "open"
    /\ \A p \in Pids : pages[p].sid # 0 =>
         /\ pages[p].sid \in sessions
         /\ prow[p] = [sid |-> pages[p].sid, st |-> "open"]

(* The inductive form.  What a call at each label knows: its session and    *)
(* its page are real ones,                                                  *)
Opening == {"create_page", "snapshot", "insert_page"}
Closing == {"close_view", "close_row"}
Holding == {"insert_session", "close_views", "close_rows"}
OnPage == Opening \cup Closing \cup {"close", "use", "reopen", "install", "call", "update_row"}

CallInv ==
    \A x \in Procs :
      /\ proc[x].pc \in OnPage => proc[x].pid \in Pids
      /\ proc[x].pc \in Holding \cup Opening \cup {"remove", "require", "open"}
           => proc[x].sid \in Sids

(* a session not yet or no longer in the map is held by one call, its row   *)
(* open,                                                                    *)
SessionInv ==
    \A x \in Procs : proc[x].pc \in Holding =>
      /\ srow[proc[x].sid] = "open"
      /\ proc[x].sid \notin sessions
      /\ \A y \in Procs : proc[y].pc \in Holding /\ proc[y].sid = proc[x].sid => y = x

(* a page not yet or no longer in the map is held by one call, its row open *)
(* unless its session's is closed,                                          *)
PageInv ==
    \A x \in Procs : proc[x].pc \in Opening \cup Closing =>
      /\ pages[proc[x].pid].sid = 0
      /\ proc[x].pid <= npages
      /\ \A y \in Procs : /\ proc[y].pc \in Opening \cup Closing
                          /\ proc[y].pid = proc[x].pid
                          => y = x

OpeningInv ==
    \A x \in Procs :
      /\ proc[x].pc = "create_page" => prow[proc[x].pid].sid = 0
      /\ proc[x].pc \in {"snapshot", "insert_page"} =>
           /\ prow[proc[x].pid].sid = proc[x].sid
           /\ prow[proc[x].pid].st = "open" \/ srow[proc[x].sid] = "closed"
      /\ proc[x].pc \in Closing => prow[proc[x].pid].sid # 0

(* page ids not handed out are unused, and what was closed has closed rows. *)
FreshInv == \A p \in Pids : p > npages => pages[p].sid = 0 /\ prow[p].sid = 0

ClosedInv ==
    /\ \A s \in Sids : <<"s", s>> \in closed => srow[s] = "closed"
    /\ \A p \in Pids : <<"p", p>> \in closed => prow[p].st = "closed" /\ prow[p].sid # 0

BackInv == MemoryBacked /\ SessionInv /\ PageInv /\ OpeningInv /\ FreshInv /\ ClosedInv

(* A page a client was answered with stays addressable, crash or not, until *)
(* it or its session is closed, or a restart finds that no call has written *)
(* its row for a day.  That is not the same as a day without use: a page    *)
(* that is only captured, downloaded from, typed into or inspected has a    *)
(* row as old as its last snapshot.                                         *)
ToldPageKept ==
    \A p \in Pids : <<"p", p>> \in told => pages[p].sid # 0 \/ <<"p", p>> \in ended

(* resurrect_sessions' comment: what a restart drops had no page activity   *)
(* within max_age.                                                          *)
UsedPageReturns ==
    [][\A p \in Pids : CrashRestart /\ pages[p].sid # 0 /\ ptouch[p] < 2
         => pages'[p].sid # 0]_vars

(* What ToldPageKept says of pages, of sessions.                            *)
ToldSessionKept ==
    \A s \in Sids : <<"s", s>> \in told => s \in sessions \/ <<"s", s>> \in ended

(* Once a close has been answered, neither a slower call nor a restart      *)
(* brings the page or the session back.                                     *)
ClosedStaysClosed ==
    /\ \A s \in sessions : <<"s", s>> \notin closed
    /\ \A p \in Pids : pages[p].sid # 0 => <<"p", p>> \notin closed

(* Every web view belongs to a page in the map or is in the hands of a call *)
(* that will install or close it; only a call that answers with an error    *)
(* leaves one behind.                                                       *)
Holds(x) ==
    proc[x].hs \cup
    (IF proc[x].pc \in {"create_page", "snapshot", "insert_page", "install", "close_view",
                        "close_dormant"} THEN {proc[x].h} ELSE {})

ViewsAccountedFor ==
    live \subseteq {pages[p].h : p \in Pids} \cup leaked \cup UNION {Holds(x) : x \in Procs}

(* A page in the map points to a web view of its own that is open.          *)
ViewsDistinct ==
    \A p \in Pids : pages[p].h # 0 =>
       /\ pages[p].h \in live
       /\ \A q \in Pids : q # p => pages[q].h # pages[p].h

(* The reaper closes only sessions nothing has addressed for session_ttl.   *)
ReapsOnlyIdle ==
    proc[Reaper].pc = "remove" /\ proc[Reaper].sid \in sessions => Expired(proc[Reaper].sid)

(* A page left alone gives its web view back.                               *)
IdlePageReaped ==
    \A p \in Pids : (pages[p].h # 0 /\ ptouch[p] >= 1) ~> (pages[p].h = 0 \/ ptouch[p] = 0)

(* Web views and the map agree in both directions: every view has an owner, *)
(* and every handle in the map its own open view.                           *)
ViewsMatchPages == ViewsAccountedFor /\ ViewsDistinct

(* The inductive form: a web view in the hands of a call is open, and       *)
(* nobody else's; a page out of the map has none.                           *)
HeldInv ==
    \A x \in Procs : \A h \in Holds(x) \ {0} :
      /\ h \in live
      /\ \A p \in Pids : pages[p].h # h
      /\ \A y \in Procs : h \in Holds(y) => y = x

HandleInv ==
    /\ \A x \in Procs : proc[x].hs # {} => proc[x].pc = "close_views"
    /\ \A p \in Pids : pages[p].sid = 0 => pages[p].h = 0

ViewInv == HandleInv /\ HeldInv /\ ViewsMatchPages

=============================================================================
