--------------------------- MODULE SessionsProofs ---------------------------
(***************************************************************************)
(* What holds of Sessions for any number of clients, sessions, pages,      *)
(* calls, sweeps and crashes.                                              *)
(***************************************************************************)
EXTENDS Sessions, TLAPS

-----------------------------------------------------------------------------
(* Types.                                                                   *)

(* The reaper and every client are threads.                                 *)
LEMMA ProcTypes == Clients \subseteq Procs /\ Reaper \in Procs
  BY DEF Procs

(* Where the calls go next is a label.                                      *)
LEMMA LabelTypes ==
  {"idle", "insert_session", "targets", "remove", "close_views", "close_rows", "require",
   "open", "create_page", "snapshot", "insert_page", "close", "close_view", "close_row",
   "use", "reopen", "install", "call", "update_row", "dormant", "close_dormant",
   "create_session"} \subseteq Labels
  BY DEF Labels

(* A call that is over is well typed.                                       *)
LEMMA DoneType == Done \in CallStates
  BY CountAssumption, LabelTypes DEF Done, CallStates

(* Session and page ids are among the numbers a call may hold.              *)
LEMMA IdTypes == Sids \subseteq 0..MaxSessions /\ Pids \subseteq 0..MaxPages
  BY CountAssumption DEF Sids, Pids

(* Sets of session and page ids are sets of ids.                            *)
LEMMA IdsSubset ==
  ASSUME NEW S \in SUBSET Sids, NEW P \in SUBSET Pids
  PROVE  Ids(S, P) \subseteq Ids(Sids, Pids)
  BY DEF Ids

(* A daemon that has just been started is well typed.                       *)
LEMMA InitType == Init => TypeOK /\ CallInv
  <1> SUFFICES ASSUME Init PROVE TypeOK /\ CallInv
    OBVIOUS
  <1>1. TypeMap /\ TypeStore
    BY CountAssumption DEF Init, TypeMap, TypeStore, NoPage
  <1>2. TypeEngine /\ TypeHistory /\ TypeCount
    BY CountAssumption DEF Init, TypeEngine, TypeHistory, TypeCount
  <1>3. proc \in [Procs -> CallStates]
    BY DoneType DEF Init
  <1>4. CallInv
    BY DEF Init, CallInv, Done, Holding, Opening, Closing, OnPage
  <1> QED BY <1>1, <1>2, <1>3, <1>4 DEF TypeOK

(* What a call starts as: at a label that needs a page it has one, at one   *)
(* that needs a session it has one.                                         *)
Starts ==
  {r \in CallStates :
     /\ r.pc \in {"create_session", "targets", "require", "close", "use"}
     /\ r.pc \in {"close", "use"} => r.pid \in Pids
     /\ r.pc = "require" => r.sid \in Sids
     /\ r.hs = {}}

(* A call starts as one of these.                                           *)
LEMMA BeginStarts ==
  ASSUME TypeOK, NEW x \in Procs, Begin(x)
  PROVE  \E r \in Starts : proc' = [proc EXCEPT ![x] = r]
  <1>1. [Done EXCEPT !.pc = "create_session"] \in Starts
    BY CountAssumption, LabelTypes DEF Starts, CallStates, Done
  <1>2. ASSUME NEW T \in SUBSET Sids
        PROVE  [Done EXCEPT !.pc = "targets", !.targets = T] \in Starts
    <2>1. [Done EXCEPT !.pc = "targets", !.targets = T] \in CallStates
      BY DoneType, LabelTypes DEF CallStates
    <2>2. /\ [Done EXCEPT !.pc = "targets", !.targets = T].pc = "targets"
          /\ [Done EXCEPT !.pc = "targets", !.targets = T].hs = {}
      BY DEF Done
    <2> QED BY <2>1, <2>2 DEF Starts
  <1>3. ASSUME NEW s \in Sids
        PROVE  [Done EXCEPT !.pc = "require", !.sid = s] \in Starts
    <2>1. [Done EXCEPT !.pc = "require", !.sid = s] \in CallStates
      BY DoneType, LabelTypes, IdTypes DEF CallStates
    <2>2. /\ [Done EXCEPT !.pc = "require", !.sid = s].pc = "require"
          /\ [Done EXCEPT !.pc = "require", !.sid = s].sid = s
          /\ [Done EXCEPT !.pc = "require", !.sid = s].hs = {}
      BY DEF Done
    <2> QED BY <2>1, <2>2 DEF Starts
  <1>4. \A c \in {"close", "use"}, s \in 0..MaxSessions, p \in Pids :
          [Done EXCEPT !.pc = c, !.sid = s, !.pid = p] \in Starts
    BY CountAssumption, LabelTypes, IdTypes DEF Starts, CallStates, Done
  <1>5. CASE proc' = [proc EXCEPT ![x] = [Done EXCEPT !.pc = "create_session"]]
    BY <1>1, <1>5
  <1>6. CASE \E s \in Sids :
               proc' = [proc EXCEPT ![x] = [Done EXCEPT !.pc = "targets", !.targets = {s}]]
    BY <1>2, <1>6
  <1>7. CASE \E T \in SUBSET Sids :
               proc' = [proc EXCEPT ![x] = [Done EXCEPT !.pc = "targets", !.targets = T]]
    BY <1>2, <1>7
  <1>8. CASE \E s \in Sids :
               proc' = [proc EXCEPT ![x] = [Done EXCEPT !.pc = "require", !.sid = s]]
    BY <1>3, <1>8
  <1>9. CASE \E c \in {"close", "use"}, s \in 0..MaxSessions, p \in Pids :
               proc' = [proc EXCEPT ![x] = [Done EXCEPT !.pc = c, !.sid = s, !.pid = p]]
    BY <1>4, <1>9
  <1>10. \A idle : {s \in sessions : /\ stouch[s] >= idle
                                      /\ \A p \in Pages(s) : ptouch[p] >= idle} \in SUBSET Sids
    BY DEF TypeOK, TypeMap
  <1>11. \A p \in 1..npages : p \in Pids /\ prow[p].sid \in 0..MaxSessions
    BY CountAssumption DEF TypeOK, TypeStore, TypeCount, Pids
  <1> QED BY <1>5, <1>6, <1>7, <1>8, <1>9, <1>10, <1>11 DEF Begin

(* Every step keeps the types.                                              *)
LEMMA TypeStep == TypeOK /\ CallInv /\ [Next]_vars => TypeOK' /\ CallInv'
  <1> SUFFICES ASSUME TypeOK, CallInv, [Next]_vars PROVE TypeOK' /\ CallInv'
    OBVIOUS
  <1> USE DEF mapVars, engineVars, storeVars, histVars, countVars, OnPage, Opening, Closing, Holding
  <1>1. ASSUME NEW x \in Procs, CreateSession(x) PROVE TypeOK' /\ CallInv'
    <2>1. TypeMap' /\ TypeEngine' /\ TypeHistory' /\ TypeCount'
      BY <1>1 DEF TypeOK, TypeMap, TypeEngine, TypeHistory, TypeCount, CreateSession
    <2>2. TypeStore'
      <3>1. PICK s \in NewSessions : srow' = [srow EXCEPT ![s] = "open"]
        BY <1>1 DEF CreateSession
      <3> QED BY <1>1, <3>1 DEF TypeOK, TypeStore, NewSessions, CreateSession
    <2>3. proc' \in [Procs -> CallStates]
      <3>1. PICK s \in NewSessions :
              proc' = [proc EXCEPT ![x].pc = "insert_session", ![x].sid = s]
        BY <1>1 DEF CreateSession
      <3>2. s \in 0..MaxSessions
        BY IdTypes DEF NewSessions
      <3> QED BY <3>1, <3>2, LabelTypes DEF TypeOK, CallStates
    <2>4. CallInv'
      <3>1. PICK s \in NewSessions :
              proc' = [proc EXCEPT ![x].pc = "insert_session", ![x].sid = s]
        BY <1>1 DEF CreateSession
      <3> QED BY <3>1 DEF TypeOK, NewSessions, CallStates, CallInv
    <2> QED BY <2>1, <2>2, <2>3, <2>4 DEF TypeOK
  <1>2. ASSUME NEW x \in Procs, InsertSession(x) PROVE TypeOK' /\ CallInv'
    <2>1. TypeMap'
      BY <1>2 DEF TypeOK, TypeMap, CallInv, InsertSession
    <2>2. TypeEngine' /\ TypeStore' /\ TypeCount'
      BY <1>2 DEF TypeOK, TypeEngine, TypeStore, TypeCount, InsertSession
    <2>3. TypeHistory'
      BY <1>2 DEF TypeOK, TypeHistory, CallInv, InsertSession, Ids
    <2>4. proc' \in [Procs -> CallStates]
      BY <1>2, DoneType DEF TypeOK, InsertSession, Finish
    <2>5. CallInv'
      BY <1>2 DEF TypeOK, CallInv, CallStates, Done, InsertSession, Finish
    <2> QED BY <2>1, <2>2, <2>3, <2>4, <2>5 DEF TypeOK
  <1>3. ASSUME NEW x \in Procs, NextTarget(x) PROVE TypeOK' /\ CallInv'
    <2>1. TypeMap' /\ TypeEngine' /\ TypeStore' /\ TypeHistory' /\ TypeCount'
      BY <1>3 DEF TypeOK, TypeMap, TypeEngine, TypeStore, TypeHistory, TypeCount, NextTarget
    <2>2. proc' \in [Procs -> CallStates]
      <3>1. ASSUME NEW s \in proc[x].targets,
                   proc' = [proc EXCEPT ![x].pc = "remove", ![x].sid = s,
                                        ![x].targets = @ \ {s}]
            PROVE  proc' \in [Procs -> CallStates]
        BY <3>1, LabelTypes, IdTypes DEF TypeOK, CallStates
      <3>2. CASE Finish(x)
        BY <3>2, DoneType DEF Finish, TypeOK
      <3> QED BY <1>3, <3>1, <3>2 DEF NextTarget
    <2>3. CallInv'
      <3>1. ASSUME NEW s \in proc[x].targets,
                   proc' = [proc EXCEPT ![x].pc = "remove", ![x].sid = s,
                                        ![x].targets = @ \ {s}]
            PROVE  CallInv'
        BY <3>1 DEF TypeOK, CallStates, CallInv
      <3>2. CASE Finish(x)
        BY <3>2 DEF Finish, Done, TypeOK, CallInv
      <3> QED BY <1>3, <3>1, <3>2 DEF NextTarget
    <2> QED BY <2>1, <2>2, <2>3 DEF TypeOK
  <1>4. ASSUME NEW x \in Procs, RemoveSession(x) PROVE TypeOK' /\ CallInv'
    <2>1. TypeMap'
      BY <1>4, CountAssumption DEF TypeOK, TypeMap, NoPage, RemoveSession
    <2>2. TypeEngine' /\ TypeStore' /\ TypeCount'
      BY <1>4 DEF TypeOK, TypeEngine, TypeStore, TypeCount, RemoveSession
    <2>3. TypeHistory'
      <3>1. {proc[x].sid} \in SUBSET Sids /\ Pages(proc[x].sid) \in SUBSET Pids
        BY <1>4 DEF CallInv, RemoveSession, Pages
      <3>2. Ids({proc[x].sid}, Pages(proc[x].sid)) \subseteq Ids(Sids, Pids)
        BY <3>1, IdsSubset
      <3> QED BY <1>4, <3>2 DEF TypeOK, TypeHistory, RemoveSession
    <2>4. proc' \in [Procs -> CallStates]
      <3> DEFINE H == {pages[p].h : p \in Pages(proc[x].sid)} \ {0}
      <3>1. H \in SUBSET Nat
        BY DEF TypeOK, TypeMap, Pages
      <3> HIDE DEF H
      <3>2. CASE proc' = [proc EXCEPT ![x].pc = "close_views", ![x].hs = H]
        BY <3>1, <3>2, LabelTypes DEF TypeOK, CallStates
      <3>3. CASE Goto(x, "targets")
        BY <3>3, LabelTypes DEF TypeOK, CallStates, Goto
      <3> QED BY <1>4, <3>2, <3>3 DEF RemoveSession, H
    <2>5. CallInv'
      BY <1>4 DEF TypeOK, CallInv, CallStates, RemoveSession, Goto
    <2> QED BY <2>1, <2>2, <2>3, <2>4, <2>5 DEF TypeOK
  <1>5. ASSUME NEW x \in Procs, CloseViews(x) PROVE TypeOK' /\ CallInv'
    <2>1. TypeMap' /\ TypeStore' /\ TypeHistory' /\ TypeCount'
      BY <1>5 DEF TypeOK, TypeMap, TypeStore, TypeHistory, TypeCount, CloseViews
    <2>2. TypeEngine'
      BY <1>5 DEF TypeOK, TypeEngine, CloseViews
    <2>3. proc' \in [Procs -> CallStates]
      <3>1. ASSUME NEW h \in proc[x].hs, proc' = [proc EXCEPT ![x].hs = @ \ {h}]
            PROVE  proc' \in [Procs -> CallStates]
        BY <3>1 DEF TypeOK, CallStates
      <3>2. CASE Goto(x, "close_rows")
        BY <3>2, LabelTypes DEF TypeOK, CallStates, Goto
      <3> QED BY <1>5, <3>1, <3>2 DEF CloseViews
    <2>4. CallInv'
      <3>1. ASSUME NEW h \in proc[x].hs, proc' = [proc EXCEPT ![x].hs = @ \ {h}]
            PROVE  CallInv'
        BY <3>1 DEF TypeOK, CallStates, CallInv
      <3>2. CASE Goto(x, "close_rows")
        BY <1>5, <3>2 DEF CloseViews, TypeOK, CallStates, Goto, CallInv
      <3> QED BY <1>5, <3>1, <3>2 DEF CloseViews
    <2> QED BY <2>1, <2>2, <2>3, <2>4 DEF TypeOK
  <1>6. ASSUME NEW x \in Procs, CloseRows(x) PROVE TypeOK' /\ CallInv'
    <2>1. TypeMap' /\ TypeEngine' /\ TypeCount'
      BY <1>6 DEF TypeOK, TypeMap, TypeEngine, TypeCount, CloseRows
    <2>2. TypeStore'
      BY <1>6 DEF TypeOK, TypeStore, CallInv, CloseRows
    <2>3. TypeHistory'
      BY <1>6 DEF TypeOK, TypeHistory, CallInv, CloseRows, Ids
    <2>4. proc' \in [Procs -> CallStates]
      BY <1>6, LabelTypes DEF TypeOK, CallStates, CloseRows, Goto
    <2>5. CallInv'
      BY <1>6 DEF TypeOK, CallInv, CallStates, CloseRows, Goto
    <2> QED BY <2>1, <2>2, <2>3, <2>4, <2>5 DEF TypeOK
  <1>7. ASSUME NEW x \in Procs, Require(x) PROVE TypeOK' /\ CallInv'
    <2>1. TypeMap' /\ TypeEngine' /\ TypeStore' /\ TypeHistory' /\ TypeCount'
      BY <1>7 DEF TypeOK, TypeMap, TypeEngine, TypeStore, TypeHistory, TypeCount, Require
    <2>2. proc' \in [Procs -> CallStates]
      <3>1. CASE Goto(x, "open")
        BY <3>1, LabelTypes DEF Goto, TypeOK, CallStates
      <3>2. CASE Finish(x)
        BY <3>2, DoneType DEF Finish, TypeOK
      <3> QED BY <1>7, <3>1, <3>2 DEF Require
    <2>3. CallInv'
      BY <1>7 DEF TypeOK, CallInv, CallStates, Done, Require, Goto, Finish
    <2> QED BY <2>1, <2>2, <2>3 DEF TypeOK
  <1>8. ASSUME NEW x \in Procs, EngineOpen(x) PROVE TypeOK' /\ CallInv'
    <2>1. TypeMap' /\ TypeStore' /\ TypeHistory'
      BY <1>8 DEF TypeOK, TypeMap, TypeStore, TypeHistory, EngineOpen
    <2>2. TypeEngine'
      BY <1>8 DEF TypeOK, TypeEngine, EngineOpen
    <2>3. TypeCount'
      BY <1>8, CountAssumption DEF TypeOK, TypeCount, EngineOpen
    <2>4. proc' \in [Procs -> CallStates]
      <3>1. opened + 1 \in Nat /\ npages + 1 \in 0..MaxPages
        BY <1>8, CountAssumption DEF TypeOK, TypeEngine, TypeCount, EngineOpen
      <3>2. ASSUME NEW i \in Nat, NEW p \in 0..MaxPages,
                   proc' = [proc EXCEPT ![x].pc = "create_page", ![x].h = i, ![x].pid = p]
            PROVE  proc' \in [Procs -> CallStates]
        <4>1. [proc[x] EXCEPT !.pc = "create_page", !.h = i, !.pid = p] \in CallStates
          BY LabelTypes DEF TypeOK, CallStates
        <4>2. proc' = [proc EXCEPT ![x] = [@ EXCEPT !.pc = "create_page", !.h = i, !.pid = p]]
          BY <3>2
        <4> QED BY <4>1, <4>2 DEF TypeOK
      <3> QED BY <1>8, <3>1, <3>2 DEF EngineOpen
    <2>5. CallInv'
      <3>1. npages + 1 \in Pids
        BY <1>8, CountAssumption DEF TypeOK, TypeCount, EngineOpen, Pids
      <3>2. ASSUME NEW i, NEW p \in Pids,
                   proc' = [proc EXCEPT ![x].pc = "create_page", ![x].h = i, ![x].pid = p]
            PROVE  CallInv'
        BY <1>8, <3>2 DEF EngineOpen, TypeOK, CallStates, CallInv
      <3> QED BY <1>8, <3>1, <3>2 DEF EngineOpen
    <2> QED BY <2>1, <2>2, <2>3, <2>4, <2>5 DEF TypeOK
  <1>9. ASSUME NEW x \in Procs, CreatePage(x) PROVE TypeOK' /\ CallInv'
    <2>1. TypeMap' /\ TypeEngine' /\ TypeHistory' /\ TypeCount'
      BY <1>9 DEF TypeOK, TypeMap, TypeEngine, TypeHistory, TypeCount, CreatePage
    <2>2. TypeStore'
      BY <1>9 DEF TypeOK, TypeStore, CallInv, CallStates, CreatePage
    <2>3. proc' \in [Procs -> CallStates]
      BY <1>9, LabelTypes DEF TypeOK, CallStates, CreatePage, Goto
    <2>4. CallInv'
      BY <1>9 DEF TypeOK, CallInv, CallStates, CreatePage, Goto
    <2> QED BY <2>1, <2>2, <2>3, <2>4 DEF TypeOK
  <1>10. ASSUME NEW x \in Procs, FirstSnapshot(x) PROVE TypeOK' /\ CallInv'
    <2>1. TypeMap' /\ TypeEngine' /\ TypeHistory' /\ TypeCount'
      BY <1>10 DEF TypeOK, TypeMap, TypeEngine, TypeHistory, TypeCount, FirstSnapshot
    <2>2. TypeStore'
      BY <1>10 DEF TypeOK, TypeStore, CallInv, FirstSnapshot
    <2>3. proc' \in [Procs -> CallStates]
      BY <1>10, LabelTypes DEF TypeOK, CallStates, FirstSnapshot, Goto
    <2>4. CallInv'
      BY <1>10 DEF TypeOK, CallInv, CallStates, FirstSnapshot, Goto
    <2> QED BY <2>1, <2>2, <2>3, <2>4 DEF TypeOK
  <1>11. ASSUME NEW x \in Procs, InsertPage(x) PROVE TypeOK' /\ CallInv'
    <2>1. TypeMap'
      BY <1>11 DEF TypeOK, TypeMap, CallInv, CallStates, InsertPage
    <2>2. TypeEngine' /\ TypeStore' /\ TypeCount'
      BY <1>11 DEF TypeOK, TypeEngine, TypeStore, TypeCount, InsertPage
    <2>3. TypeHistory'
      <3>1. Ids({}, {proc[x].pid}) \subseteq Ids(Sids, Pids)
        BY <1>11, IdsSubset DEF InsertPage, CallInv
      <3>2. {proc[x].h} \subseteq Nat
        BY DEF TypeOK, CallStates
      <3> QED BY <1>11, <3>1, <3>2 DEF TypeOK, TypeHistory, InsertPage, Fail
    <2>4. proc' \in [Procs -> CallStates]
      BY <1>11, DoneType DEF TypeOK, InsertPage, Finish, Fail
    <2>5. CallInv'
      BY <1>11 DEF TypeOK, CallInv, CallStates, Done, InsertPage, Finish, Fail
    <2> QED BY <2>1, <2>2, <2>3, <2>4, <2>5 DEF TypeOK
  <1>12. ASSUME NEW x \in Procs, RemovePage(x) PROVE TypeOK' /\ CallInv'
    <2>1. TypeMap'
      BY <1>12, CountAssumption DEF TypeOK, TypeMap, CallInv, NoPage, RemovePage
    <2>2. TypeEngine' /\ TypeStore' /\ TypeCount'
      BY <1>12 DEF TypeOK, TypeEngine, TypeStore, TypeCount, RemovePage
    <2>3. TypeHistory'
      BY <1>12 DEF TypeOK, TypeHistory, CallInv, RemovePage, Ids
    <2>4. proc' \in [Procs -> CallStates]
      <3>1. pages[proc[x].pid].h \in Nat
        BY <1>12 DEF RemovePage, CallInv, TypeOK, TypeMap
      <3>2. ASSUME NEW i \in Nat, proc' = [proc EXCEPT ![x].pc = "close_view", ![x].h = i]
            PROVE  proc' \in [Procs -> CallStates]
        BY <3>2, LabelTypes DEF TypeOK, CallStates
      <3>3. CASE Finish(x)
        BY <3>3, DoneType DEF Finish, TypeOK
      <3> QED BY <1>12, <3>1, <3>2, <3>3 DEF RemovePage
    <2>5. CallInv'
      BY <1>12 DEF TypeOK, CallInv, CallStates, Done, RemovePage, Finish
    <2> QED BY <2>1, <2>2, <2>3, <2>4, <2>5 DEF TypeOK
  <1>13. ASSUME NEW x \in Procs, CloseView(x) PROVE TypeOK' /\ CallInv'
    <2>1. TypeMap' /\ TypeStore' /\ TypeHistory' /\ TypeCount'
      BY <1>13 DEF TypeOK, TypeMap, TypeStore, TypeHistory, TypeCount, CloseView
    <2>2. TypeEngine'
      BY <1>13 DEF TypeOK, TypeEngine, CloseView
    <2>3. proc' \in [Procs -> CallStates]
      BY <1>13, LabelTypes DEF TypeOK, CallStates, CloseView, Goto
    <2>4. CallInv'
      BY <1>13 DEF TypeOK, CallInv, CallStates, CloseView, Goto
    <2> QED BY <2>1, <2>2, <2>3, <2>4 DEF TypeOK
  <1>14. ASSUME NEW x \in Procs, CloseRow(x) PROVE TypeOK' /\ CallInv'
    <2>1. TypeMap' /\ TypeEngine' /\ TypeCount'
      BY <1>14 DEF TypeOK, TypeMap, TypeEngine, TypeCount, CloseRow
    <2>2. TypeStore'
      BY <1>14 DEF TypeOK, TypeStore, CallInv, CloseRow
    <2>3. TypeHistory'
      BY <1>14 DEF TypeOK, TypeHistory, CallInv, CloseRow, Ids
    <2>4. proc' \in [Procs -> CallStates]
      BY <1>14, DoneType DEF TypeOK, CloseRow, Finish
    <2>5. CallInv'
      BY <1>14 DEF TypeOK, CallInv, CallStates, Done, CloseRow, Finish
    <2> QED BY <2>1, <2>2, <2>3, <2>4, <2>5 DEF TypeOK
  <1>15. ASSUME NEW x \in Procs, HandleFor(x) PROVE TypeOK' /\ CallInv'
    <2>1. TypeMap'
      BY <1>15 DEF TypeOK, TypeMap, CallInv, HandleFor
    <2>2. TypeEngine' /\ TypeStore' /\ TypeHistory' /\ TypeCount'
      BY <1>15 DEF TypeOK, TypeEngine, TypeStore, TypeHistory, TypeCount, HandleFor
    <2>3. proc' \in [Procs -> CallStates]
      <3>1. pages[proc[x].pid].h \in Nat
        BY <1>15 DEF HandleFor, CallInv, TypeOK, TypeMap
      <3>2. ASSUME NEW i \in Nat, NEW l \in Labels,
                   proc' = [proc EXCEPT ![x].pc = l, ![x].h = i]
            PROVE  proc' \in [Procs -> CallStates]
        BY <3>2 DEF TypeOK, CallStates
      <3>3. CASE Finish(x)
        BY <3>3, DoneType DEF Finish, TypeOK
      <3> QED BY <1>15, <3>1, <3>2, <3>3, LabelTypes DEF HandleFor
    <2>4. CallInv'
      BY <1>15 DEF TypeOK, CallInv, CallStates, Done, HandleFor, Finish
    <2> QED BY <2>1, <2>2, <2>3, <2>4 DEF TypeOK
  <1>16. ASSUME NEW x \in Procs, Reopen(x) PROVE TypeOK' /\ CallInv'
    <2>1. TypeMap' /\ TypeStore' /\ TypeHistory' /\ TypeCount'
      BY <1>16 DEF TypeOK, TypeMap, TypeStore, TypeHistory, TypeCount, Reopen
    <2>2. TypeEngine'
      BY <1>16 DEF TypeOK, TypeEngine, Reopen
    <2>3. proc' \in [Procs -> CallStates]
      <3>1. opened + 1 \in Nat
        BY DEF TypeOK, TypeEngine
      <3>2. ASSUME NEW i \in Nat, proc' = [proc EXCEPT ![x].pc = "install", ![x].h = i]
            PROVE  proc' \in [Procs -> CallStates]
        BY <3>2, LabelTypes DEF TypeOK, CallStates
      <3> QED BY <1>16, <3>1, <3>2 DEF Reopen
    <2>4. CallInv'
      BY <1>16 DEF TypeOK, CallInv, CallStates, Reopen
    <2> QED BY <2>1, <2>2, <2>3, <2>4 DEF TypeOK
  <1>17. ASSUME NEW x \in Procs, Install(x) PROVE TypeOK' /\ CallInv'
    <2>1. TypeMap'
      BY <1>17 DEF TypeOK, TypeMap, CallInv, CallStates, Install
    <2>2. TypeEngine'
      BY <1>17 DEF TypeOK, TypeEngine, Install
    <2>3. TypeStore' /\ TypeCount'
      BY <1>17 DEF TypeOK, TypeStore, TypeCount, Install
    <2>4. TypeHistory'
      BY <1>17 DEF TypeOK, TypeHistory, CallStates, Install, Fail
    <2>5. proc' \in [Procs -> CallStates]
      <3>1. pages[proc[x].pid].h \in Nat /\ proc[x].h \in Nat
        BY <1>17 DEF Install, CallInv, TypeOK, TypeMap, CallStates
      <3>2. ASSUME NEW i \in Nat, proc' = [proc EXCEPT ![x].pc = "call", ![x].h = i]
            PROVE  proc' \in [Procs -> CallStates]
        BY <3>2, LabelTypes DEF TypeOK, CallStates
      <3>3. CASE Finish(x)
        BY <3>3, DoneType DEF Finish, TypeOK
      <3> QED BY <1>17, <3>1, <3>2, <3>3 DEF Install, Fail
    <2>6. CallInv'
      BY <1>17 DEF TypeOK, CallInv, CallStates, Done, Install, Finish, Fail
    <2> QED BY <2>1, <2>2, <2>3, <2>4, <2>5, <2>6 DEF TypeOK
  <1>18. ASSUME NEW x \in Procs, Call(x) PROVE TypeOK' /\ CallInv'
    <2>1. TypeMap' /\ TypeEngine' /\ TypeStore' /\ TypeHistory' /\ TypeCount'
      BY <1>18 DEF TypeOK, TypeMap, TypeEngine, TypeStore, TypeHistory, TypeCount, Call
    <2>2. proc' \in [Procs -> CallStates]
      <3>1. CASE Goto(x, "update_row")
        BY <3>1, LabelTypes DEF Goto, TypeOK, CallStates
      <3>2. CASE Finish(x)
        BY <3>2, DoneType DEF Finish, TypeOK
      <3> QED BY <1>18, <3>1, <3>2 DEF Call
    <2>3. CallInv'
      BY <1>18 DEF TypeOK, CallInv, CallStates, Done, Call, Goto, Finish
    <2> QED BY <2>1, <2>2, <2>3 DEF TypeOK
  <1>19. ASSUME NEW x \in Procs, UpdateRow(x) PROVE TypeOK' /\ CallInv'
    <2>1. TypeMap' /\ TypeEngine' /\ TypeHistory' /\ TypeCount'
      BY <1>19 DEF TypeOK, TypeMap, TypeEngine, TypeHistory, TypeCount, UpdateRow
    <2>2. TypeStore'
      BY <1>19 DEF TypeOK, TypeStore, CallInv, UpdateRow
    <2>3. proc' \in [Procs -> CallStates]
      BY <1>19, DoneType DEF TypeOK, UpdateRow, Finish
    <2>4. CallInv'
      BY <1>19 DEF TypeOK, CallInv, CallStates, Done, UpdateRow, Finish
    <2> QED BY <2>1, <2>2, <2>3, <2>4 DEF TypeOK
  <1>20. ASSUME NEW x \in Procs, Begin(x) PROVE TypeOK' /\ CallInv'
    <2>1. TypeMap' /\ TypeEngine' /\ TypeStore' /\ TypeHistory'
      BY <1>20 DEF TypeOK, TypeMap, TypeEngine, TypeStore, TypeHistory, Begin
    <2>2. TypeCount'
      <3>1. ncalls' = ncalls + 1 /\ UNCHANGED <<npages, nticks, nsweeps, nfaults, ncrashes>>
        BY <1>20, Zenon DEF Begin
      <3> QED BY <3>1 DEF TypeOK, TypeCount
    <2>3. proc' \in [Procs -> CallStates]
      <3>1. PICK r \in Starts : proc' = [proc EXCEPT ![x] = r]
        BY <1>20, BeginStarts
      <3>2. r \in CallStates
        BY DEF Starts
      <3> QED BY <3>1, <3>2 DEF TypeOK
    <2>4. CallInv'
      <3>1. PICK r \in Starts : proc' = [proc EXCEPT ![x] = r]
        BY <1>20, BeginStarts
      <3> QED BY <3>1 DEF Starts, TypeOK, CallInv
    <2> QED BY <2>1, <2>2, <2>3, <2>4 DEF TypeOK
  <1>21. ASSUME NEW x \in Procs, EngineFault(x) PROVE TypeOK' /\ CallInv'
    <2>1. TypeMap' /\ TypeEngine' /\ TypeStore'
      BY <1>21 DEF TypeOK, TypeMap, TypeEngine, TypeStore, EngineFault
    <2>2. TypeHistory'
      BY <1>21 DEF TypeOK, TypeHistory, CallStates, EngineFault, Fail
    <2>3. TypeCount'
      BY <1>21, CountAssumption DEF TypeOK, TypeCount, EngineFault
    <2>4. proc' \in [Procs -> CallStates]
      BY <1>21, DoneType DEF TypeOK, EngineFault, Finish, Fail
    <2>5. CallInv'
      BY <1>21 DEF TypeOK, CallInv, CallStates, Done, EngineFault, Finish, Fail
    <2> QED BY <2>1, <2>2, <2>3, <2>4, <2>5 DEF TypeOK
  <1>22. ASSUME ReapPlan PROVE TypeOK' /\ CallInv'
    <2>1. TypeMap' /\ TypeEngine' /\ TypeStore' /\ TypeHistory'
      BY <1>22 DEF TypeOK, TypeMap, TypeEngine, TypeStore, TypeHistory, ReapPlan
    <2>2. TypeCount'
      BY <1>22, CountAssumption DEF TypeOK, TypeCount, ReapPlan
    <2>3. proc' \in [Procs -> CallStates]
      BY <1>22, ProcTypes, DoneType, LabelTypes DEF TypeOK, TypeMap, CallStates, ReapPlan
    <2>4. CallInv'
      BY <1>22 DEF TypeOK, CallInv, CallStates, Done, ReapPlan
    <2> QED BY <2>1, <2>2, <2>3, <2>4 DEF TypeOK
  <1>23. ASSUME ReapPage PROVE TypeOK' /\ CallInv'
    <2>1. TypeMap'
      <3>1. ASSUME NEW p \in Pids, pages' = [pages EXCEPT ![p].h = 0]
            PROVE  pages' \in [Pids -> [sid : 0..MaxSessions, h : Nat]]
        BY <3>1 DEF TypeOK, TypeMap
      <3>2. proc[Reaper].dormant \subseteq Pids
        BY ProcTypes DEF TypeOK, CallStates
      <3> QED BY <1>23, <3>1, <3>2 DEF TypeOK, TypeMap, ReapPage
    <2>2. TypeEngine' /\ TypeStore' /\ TypeHistory' /\ TypeCount'
      BY <1>23 DEF TypeOK, TypeEngine, TypeStore, TypeHistory, TypeCount, ReapPage
    <2>3. proc' \in [Procs -> CallStates]
      <3>1. proc[Reaper].dormant \subseteq Pids
        BY ProcTypes DEF TypeOK, CallStates
      <3>2. ASSUME NEW p \in Pids, NEW i \in Nat,
                   proc' = [proc EXCEPT ![Reaper].pc = "close_dormant", ![Reaper].h = i,
                                        ![Reaper].dormant = @ \ {p}]
            PROVE  proc' \in [Procs -> CallStates]
        <4> DEFINE r == [proc[Reaper] EXCEPT !.pc = "close_dormant", !.h = i,
                                             !.dormant = proc[Reaper].dormant \ {p}]
        <4>1. r \in CallStates
          BY LabelTypes, ProcTypes DEF TypeOK, CallStates
        <4>2. proc' = [proc EXCEPT ![Reaper] = r]
          BY <3>2, ProcTypes DEF TypeOK
        <4> HIDE DEF r
        <4> QED BY <4>1, <4>2 DEF TypeOK
      <3>3. CASE Goto(Reaper, "targets")
        BY <3>3, LabelTypes, ProcTypes DEF TypeOK, CallStates, Goto
      <3>4. \A p \in Pids : pages[p].h \in Nat
        BY DEF TypeOK, TypeMap
      <3> QED BY <1>23, <3>1, <3>2, <3>3, <3>4 DEF ReapPage
    <2>4. CallInv'
      <3>1. ASSUME NEW p, NEW i,
                   proc' = [proc EXCEPT ![Reaper].pc = "close_dormant", ![Reaper].h = i,
                                        ![Reaper].dormant = @ \ {p}]
            PROVE  CallInv'
        BY <3>1, ProcTypes DEF TypeOK, CallStates, CallInv
      <3>2. CASE Goto(Reaper, "targets")
        BY <3>2, ProcTypes DEF TypeOK, CallStates, Goto, CallInv
      <3> QED BY <1>23, <3>1, <3>2 DEF ReapPage
    <2> QED BY <2>1, <2>2, <2>3, <2>4 DEF TypeOK
  <1>24. ASSUME CloseDormant PROVE TypeOK' /\ CallInv'
    <2>1. TypeMap' /\ TypeStore' /\ TypeHistory' /\ TypeCount'
      BY <1>24 DEF TypeOK, TypeMap, TypeStore, TypeHistory, TypeCount, CloseDormant
    <2>2. TypeEngine'
      BY <1>24 DEF TypeOK, TypeEngine, CloseDormant
    <2>3. proc' \in [Procs -> CallStates]
      BY <1>24, LabelTypes, ProcTypes DEF TypeOK, CallStates, CloseDormant
    <2>4. CallInv'
      BY <1>24 DEF TypeOK, CallInv, CallStates, CloseDormant
    <2> QED BY <2>1, <2>2, <2>3, <2>4 DEF TypeOK
  <1>25. ASSUME Tick PROVE TypeOK' /\ CallInv'
    <2>1. TypeMap'
      BY <1>25 DEF TypeOK, TypeMap, Tick, Older
    <2>2. TypeEngine' /\ TypeHistory'
      BY <1>25 DEF TypeOK, TypeEngine, TypeHistory, Tick
    <2>3. TypeStore'
      BY <1>25 DEF TypeOK, TypeStore, Tick, Older
    <2>4. TypeCount'
      BY <1>25, CountAssumption DEF TypeOK, TypeCount, Tick
    <2>5. proc' \in [Procs -> CallStates]
      BY <1>25 DEF TypeOK, Tick
    <2>6. CallInv'
      BY <1>25 DEF TypeOK, CallInv, Tick
    <2> QED BY <2>1, <2>2, <2>3, <2>4, <2>5, <2>6 DEF TypeOK
  <1>26. ASSUME CrashRestart PROVE TypeOK' /\ CallInv'
    <2>1. TypeMap'
      <3>1. sessions' \subseteq Sids
        BY <1>26 DEF CrashRestart
      <3>2. pages' \in [Pids -> [sid : 0..MaxSessions, h : Nat]]
        <4>1. \A p \in Pids : [sid |-> prow[p].sid, h |-> 0] \in [sid : 0..MaxSessions, h : Nat]
          BY DEF TypeOK, TypeStore
        <4>2. NoPage \in [sid : 0..MaxSessions, h : Nat]
          BY CountAssumption DEF NoPage
        <4> QED BY <1>26, <4>1, <4>2 DEF CrashRestart
      <3>3. stouch' \in [Sids -> 0..2] /\ ptouch' \in [Pids -> 0..2]
        BY <1>26 DEF CrashRestart
      <3> QED BY <3>1, <3>2, <3>3 DEF TypeMap
    <2>2. TypeEngine'
      BY <1>26 DEF TypeOK, TypeEngine, CrashRestart
    <2>3. TypeStore'
      BY <1>26 DEF TypeOK, TypeStore, CrashRestart
    <2>4. TypeHistory'
      <3>1. {s \in sessions : stouch[s] = 2} \in SUBSET Sids
        BY DEF TypeOK, TypeMap
      <3>2. {p \in Pids : pages[p].sid # 0 /\ pseen[p] = 2} \in SUBSET Pids
        OBVIOUS
      <3>3. Ids({s \in sessions : stouch[s] = 2}, {p \in Pids : pages[p].sid # 0 /\ pseen[p] = 2})
              \subseteq Ids(Sids, Pids)
        BY <3>1, <3>2, IdsSubset
      <3> QED BY <1>26, <3>3 DEF TypeOK, TypeHistory, CrashRestart
    <2>5. TypeCount'
      BY <1>26, CountAssumption DEF TypeOK, TypeCount, CrashRestart
    <2>6. proc' \in [Procs -> CallStates]
      BY <1>26, DoneType DEF CrashRestart
    <2>7. CallInv'
      BY <1>26 DEF CallInv, Done, CrashRestart
    <2> QED BY <2>1, <2>2, <2>3, <2>4, <2>5, <2>6, <2>7 DEF TypeOK
  <1>27. ASSUME UNCHANGED vars PROVE TypeOK' /\ CallInv'
    BY <1>27
    DEF vars, TypeOK, TypeMap, TypeEngine, TypeStore, TypeHistory, TypeCount, CallInv
  <1> QED
    BY <1>1, <1>2, <1>3, <1>4, <1>5, <1>6, <1>7, <1>8, <1>9, <1>10, <1>11, <1>12, <1>13, <1>14,
       <1>15, <1>16, <1>17, <1>18, <1>19, <1>20, <1>21, <1>22, <1>23, <1>24, <1>25, <1>26, <1>27, ProcTypes
    DEF Next, CallStep, ReaperStep, Rest

(* The session map, the web views, the rows and the calls stay well typed,  *)
(* across crashes too.                                                      *)
THEOREM TypeCorrect == Spec => []TypeOK
  <1>1. TypeOK /\ CallInv /\ [Next]_vars => (TypeOK /\ CallInv)'
    BY TypeStep
  <1> QED BY InitType, <1>1, PTL DEF Spec

-----------------------------------------------------------------------------
(* The map is backed by rows.                                               *)

(* What a thread may do without holding more than it did: drop what it held *)
(* or go on with it.                                                        *)
Going(a, b) ==
  \/ b.pc \notin Holding \cup Opening \cup Closing
  \/ /\ b.sid = a.sid /\ b.pid = a.pid
     /\ \/ b.pc = a.pc
        \/ a.pc = "close_views" /\ b.pc = "close_rows"
        \/ a.pc = "snapshot" /\ b.pc = "insert_page"
        \/ a.pc = "close_view" /\ b.pc = "close_row"

(* A step that only moves threads along keeps the invariant.                *)
LEMMA Frame ==
  ASSUME TypeOK, CallInv, BackInv,
         \A y \in Procs : Going(proc[y], proc'[y]),
         UNCHANGED <<sessions, srow, prow, npages, closed>>,
         \A p \in Pids : pages'[p].sid = pages[p].sid
  PROVE  BackInv'
  <1>1. MemoryBacked' /\ ClosedInv' /\ FreshInv'
    BY DEF BackInv, MemoryBacked, ClosedInv, FreshInv
  <1>2. SessionInv'
    BY DEF BackInv, SessionInv, Going, Holding, Opening, Closing
  <1>3. PageInv'
    <2>1. \A y \in Procs : proc'[y].pc \in Opening \cup Closing =>
            /\ proc[y].pc \in Opening \cup Closing
            /\ proc'[y].pid = proc[y].pid /\ proc[y].pid \in Pids
      BY DEF Going, Opening, Closing, CallInv, OnPage
    <2> QED BY <2>1 DEF BackInv, PageInv
  <1>4. OpeningInv'
    BY DEF BackInv, OpeningInv, Going, Holding, Opening, Closing
  <1> QED BY <1>1, <1>2, <1>3, <1>4 DEF BackInv

(* Nothing is in the map of a daemon that has just been started.            *)
LEMMA BackInit == Init => BackInv
  <1> SUFFICES ASSUME Init PROVE BackInv
    OBVIOUS
  <1>1. MemoryBacked /\ FreshInv /\ ClosedInv
    BY DEF Init, MemoryBacked, FreshInv, ClosedInv, NoPage
  <1>2. SessionInv /\ PageInv /\ OpeningInv
    BY DEF Init, SessionInv, PageInv, OpeningInv, Done, Holding, Opening, Closing
  <1> QED BY <1>1, <1>2 DEF BackInv

(* A session's row is written before anything else about it.                *)
LEMMA BackCreateSession ==
  ASSUME TypeOK, CallInv, BackInv, NEW x \in Procs, CreateSession(x)
  PROVE  BackInv'
  <1>1. PICK s \in NewSessions :
          /\ srow' = [srow EXCEPT ![s] = "open"]
          /\ proc' = [proc EXCEPT ![x].pc = "insert_session", ![x].sid = s]
    BY DEF CreateSession
  <1>2. /\ UNCHANGED <<sessions, pages, prow, npages, closed>>
        /\ s \in Sids /\ srow[s] = "none" /\ s \notin sessions
        /\ \A t \in Sids \ {s} : srow'[t] = srow[t]
        /\ srow'[s] = "open"
    BY <1>1 DEF CreateSession, NewSessions, mapVars, histVars,
             BackInv, MemoryBacked, TypeOK, TypeStore
  <1>3. /\ \A y \in Procs \ {x} : proc'[y] = proc[y]
        /\ proc'[x].pc = "insert_session" /\ proc'[x].sid = s
    BY <1>1 DEF TypeOK, CallStates
  <1>4. MemoryBacked' /\ FreshInv' /\ ClosedInv'
    BY <1>2 DEF BackInv, MemoryBacked, FreshInv, ClosedInv, TypeOK, TypeMap
  <1>5. SessionInv'
    BY <1>2, <1>3 DEF BackInv, SessionInv, CallInv, Holding
  <1>6. PageInv'
    BY <1>2, <1>3 DEF BackInv, PageInv, Opening, Closing
  <1>7. OpeningInv'
    BY <1>2, <1>3 DEF BackInv, OpeningInv, CallInv, Opening, Closing
  <1> QED BY <1>4, <1>5, <1>6, <1>7 DEF BackInv

(* A session goes into the map with its row open.                           *)
LEMMA BackInsertSession ==
  ASSUME TypeOK, CallInv, BackInv, NEW x \in Procs, InsertSession(x)
  PROVE  BackInv'
  <1>1. /\ UNCHANGED <<pages, srow, prow, npages, closed>>
        /\ sessions' = sessions \cup {proc[x].sid}
        /\ proc[x].pc = "insert_session"
    BY DEF InsertSession, storeVars
  <1>2. /\ \A y \in Procs \ {x} : proc'[y] = proc[y]
        /\ proc'[x].pc = "idle"
    BY DEF InsertSession, Finish, Done, TypeOK
  <1>3. MemoryBacked' /\ FreshInv' /\ ClosedInv'
    BY <1>1 DEF BackInv, MemoryBacked, FreshInv, ClosedInv, SessionInv, Holding
  <1>4. SessionInv'
    BY <1>1, <1>2 DEF BackInv, SessionInv, Holding
  <1>5. PageInv' /\ OpeningInv'
    BY <1>1, <1>2 DEF BackInv, PageInv, OpeningInv, Opening, Closing
  <1> QED BY <1>3, <1>4, <1>5 DEF BackInv

(* A session taken out of the map is its closer's alone.                    *)
LEMMA BackRemoveSession ==
  ASSUME TypeOK, CallInv, BackInv, NEW x \in Procs, RemoveSession(x), proc[x].sid \in sessions
  PROVE  BackInv'
  <1> DEFINE s == proc[x].sid
  <1>1. /\ UNCHANGED <<srow, prow, npages, closed>>
        /\ sessions' = sessions \ {s}
        /\ \A p \in Pids : pages'[p].sid = IF pages[p].sid = s THEN 0 ELSE pages[p].sid
        /\ s # 0 /\ srow[s] = "open"
    BY DEF RemoveSession, storeVars, Pages, NoPage, BackInv,
             MemoryBacked, TypeOK, TypeMap, Sids
  <1>2. /\ \A y \in Procs \ {x} : proc'[y] = proc[y]
        /\ proc'[x].pc = "close_views" /\ proc'[x].sid = s
    BY DEF RemoveSession, TypeOK, CallStates
  <1> HIDE DEF s
  <1>3. MemoryBacked' /\ FreshInv' /\ ClosedInv'
    BY <1>1 DEF BackInv, MemoryBacked, FreshInv, ClosedInv
  <1>4. SessionInv'
    <2>1. \A y \in Procs : proc[y].pc \in Holding => proc[y].sid # s
      BY DEF BackInv, SessionInv, s
    <2> QED BY <1>1, <1>2, <2>1 DEF BackInv, SessionInv, Holding
  <1>5. PageInv'
    BY <1>1, <1>2 DEF BackInv, PageInv, Opening, Closing, CallInv, OnPage
  <1>6. OpeningInv'
    BY <1>1, <1>2 DEF BackInv, OpeningInv, Opening, Closing
  <1> QED BY <1>3, <1>4, <1>5, <1>6 DEF BackInv

(* The rows of a session that is in nobody's map are closed together.       *)
LEMMA BackCloseRows ==
  ASSUME TypeOK, CallInv, BackInv, NEW x \in Procs, CloseRows(x)
  PROVE  BackInv'
  <1> DEFINE s == proc[x].sid
  <1>1. /\ UNCHANGED <<sessions, pages, npages>>
        /\ proc[x].pc = "close_rows" /\ s \in Sids /\ s # 0 /\ s \notin sessions
        /\ srow' = [srow EXCEPT ![s] = "closed"]
        /\ srow'[s] = "closed"
        /\ \A t \in Sids \ {s} : srow'[t] = srow[t]
    BY DEF CloseRows, mapVars, BackInv, SessionInv, Holding,
             CallInv, TypeOK, TypeStore, Sids
  <1>2. \A p \in Pids : /\ prow[p].sid # s => prow'[p] = prow[p]
                        /\ prow[p].sid = s => prow'[p].sid = s /\ prow'[p].st = "closed"
    BY DEF CloseRows, TypeOK, TypeStore
  <1>3. closed' = closed \cup Ids({s}, {p \in Pids : prow[p].sid = s})
    BY DEF CloseRows
  <1>4. /\ \A y \in Procs \ {x} : proc'[y] = proc[y]
        /\ proc'[x].pc = "targets"
    BY DEF CloseRows, Goto, TypeOK, CallStates
  <1> HIDE DEF s
  <1>5. MemoryBacked' /\ FreshInv'
    BY <1>1, <1>2 DEF BackInv, MemoryBacked, FreshInv, TypeOK, TypeMap
  <1>6. ClosedInv'
    <2>1. \A t \in Sids : <<"s", t>> \in closed' => <<"s", t>> \in closed \/ t = s
      BY <1>3 DEF Ids
    <2>2. \A p \in Pids : <<"p", p>> \in closed' => <<"p", p>> \in closed \/ prow[p].sid = s
      BY <1>3 DEF Ids
    <2>3. \A t \in Sids : <<"s", t>> \in closed' => srow'[t] = "closed"
      BY <1>1, <2>1 DEF BackInv, ClosedInv
    <2>4. \A p \in Pids : <<"p", p>> \in closed' => prow'[p].st = "closed" /\ prow'[p].sid # 0
      BY <1>1, <1>2, <2>2 DEF BackInv, ClosedInv
    <2> QED BY <2>3, <2>4 DEF ClosedInv
  <1>7. SessionInv'
    <2>1. \A y \in Procs \ {x} : proc[y].pc \in Holding => proc[y].sid # s
      BY <1>1 DEF BackInv, SessionInv, s, Holding
    <2> QED BY <1>1, <1>4, <2>1 DEF BackInv, SessionInv, CallInv, Holding
  <1>8. PageInv'
    BY <1>1, <1>4 DEF BackInv, PageInv, Opening, Closing
  <1>9. OpeningInv'
    <2>1. \A y \in Procs : proc[y].pc \in Opening \cup Closing => proc[y].pid \in Pids
      BY DEF CallInv, OnPage
    <2>2. \A y \in Procs : proc[y].pc \in Opening => proc[y].sid \in Sids
      BY DEF CallInv
    <2> QED BY <1>1, <1>2, <1>4, <2>1, <2>2 DEF BackInv, OpeningInv, Opening, Closing
  <1> QED BY <1>5, <1>6, <1>7, <1>8, <1>9 DEF BackInv

(* A page gets an id nobody has had.                                        *)
LEMMA BackEngineOpen ==
  ASSUME TypeOK, CallInv, BackInv, NEW x \in Procs, EngineOpen(x)
  PROVE  BackInv'
  <1> DEFINE q == npages + 1
  <1>1. /\ UNCHANGED <<sessions, pages, srow, prow, closed>>
        /\ npages \in Nat /\ npages' = q /\ q \in Pids /\ q \in Nat /\ q > npages
        /\ pages[q].sid = 0 /\ prow[q].sid = 0
    BY CountAssumption DEF EngineOpen, mapVars, storeVars, histVars, TypeOK,
             TypeCount, Pids, BackInv, FreshInv
  <1>2. ASSUME NEW i, proc' = [proc EXCEPT ![x].pc = "create_page", ![x].h = i, ![x].pid = q]
        PROVE  /\ \A y \in Procs \ {x} : proc'[y] = proc[y]
               /\ proc'[x].pc = "create_page" /\ proc'[x].pid = q
    BY <1>2 DEF TypeOK, CallStates
  <1>3. /\ \A y \in Procs \ {x} : proc'[y] = proc[y]
        /\ proc'[x].pc = "create_page" /\ proc'[x].pid = q
    BY <1>2 DEF EngineOpen
  <1>4. \A y \in Procs : proc[y].pc \in Opening \cup Closing =>
          proc[y].pid <= npages /\ proc[y].pid \in Nat
    BY DEF BackInv, PageInv, TypeOK, CallStates
  <1> HIDE DEF q
  <1>5. MemoryBacked' /\ ClosedInv' /\ SessionInv'
    BY <1>1, <1>3 DEF BackInv, MemoryBacked, ClosedInv, SessionInv, Holding
  <1>6. FreshInv'
    BY <1>1 DEF BackInv, FreshInv, Pids
  <1>7. PageInv'
    <2>1. \A y \in Procs : proc[y].pc \in Opening \cup Closing => proc[y].pid # q /\ proc[y].pid <= q
      BY <1>1, <1>4
    <2>2. q <= npages'
      BY <1>1
    <2> QED BY <1>1, <1>3, <2>1, <2>2 DEF BackInv, PageInv, Opening, Closing
  <1>8. OpeningInv'
    BY <1>1, <1>3 DEF BackInv, OpeningInv, Opening, Closing
  <1> QED BY <1>5, <1>6, <1>7, <1>8 DEF BackInv

(* A page's row is written under its session, whatever became of that.      *)
LEMMA BackCreatePage ==
  ASSUME TypeOK, CallInv, BackInv, NEW x \in Procs, CreatePage(x)
  PROVE  BackInv'
  <1> DEFINE q == proc[x].pid
  <1>1. /\ UNCHANGED <<sessions, pages, srow, npages, closed>>
        /\ proc[x].pc = "create_page" /\ q \in Pids
        /\ pages[q].sid = 0 /\ prow[q].sid = 0 /\ q <= npages
        /\ proc[x].sid \in Sids /\ proc[x].sid # 0
    BY DEF CreatePage, mapVars, histVars, CallInv, OnPage,
             Opening, BackInv, PageInv, OpeningInv, Sids
  <1>2. /\ prow'[q].sid = proc[x].sid /\ prow'[q].st = "open"
        /\ \A p \in Pids \ {q} : prow'[p] = prow[p]
    BY <1>1 DEF CreatePage, TypeOK, TypeStore
  <1>3. /\ \A y \in Procs \ {x} : proc'[y] = proc[y]
        /\ proc'[x].pc = "snapshot" /\ proc'[x].pid = q /\ proc'[x].sid = proc[x].sid
    BY DEF CreatePage, Goto, TypeOK, CallStates
  <1>4. \A y \in Procs \ {x} : proc[y].pc \in Opening \cup Closing => proc[y].pid # q /\ proc[y].pid \in Pids
    BY <1>1 DEF BackInv, PageInv, Opening, CallInv, OnPage
  <1>5. q \in Nat /\ npages \in Nat
    BY <1>1 DEF TypeOK, TypeCount, Pids
  <1> HIDE DEF q
  <1>6. MemoryBacked' /\ FreshInv'
    BY <1>1, <1>2, <1>5 DEF BackInv, MemoryBacked, FreshInv, Pids
  <1>7. ClosedInv'
    BY <1>1, <1>2 DEF BackInv, ClosedInv
  <1>8. SessionInv'
    BY <1>1, <1>3 DEF BackInv, SessionInv, Holding
  <1>9. PageInv'
    BY <1>1, <1>3 DEF BackInv, PageInv, Opening, Closing, q
  <1>10. OpeningInv'
    BY <1>1, <1>2, <1>3, <1>4 DEF BackInv, OpeningInv, Opening, Closing
  <1> QED BY <1>6, <1>7, <1>8, <1>9, <1>10 DEF BackInv

(* A page goes into the map of a session that is there, its row open.       *)
LEMMA BackInsertPage ==
  ASSUME TypeOK, CallInv, BackInv, NEW x \in Procs, InsertPage(x), proc[x].sid \in sessions
  PROVE  BackInv'
  <1> DEFINE q == proc[x].pid
  <1>1. /\ UNCHANGED <<sessions, srow, prow, npages, closed>>
        /\ proc[x].pc = "insert_page" /\ q \in Pids /\ q \in Nat /\ npages \in Nat /\ q <= npages
        /\ proc[x].sid # 0
    BY DEF InsertPage, storeVars, CallInv, OnPage, Opening, BackInv,
             PageInv, Sids, Pids, TypeOK, TypeCount
  <1>2. prow[q] = [sid |-> proc[x].sid, st |-> "open"]
    BY <1>1 DEF BackInv, OpeningInv, MemoryBacked, TypeOK, TypeStore
  <1>3. /\ pages'[q].sid = proc[x].sid
        /\ \A p \in Pids \ {q} : pages'[p] = pages[p]
    BY <1>1 DEF InsertPage, TypeOK, TypeMap
  <1>4. /\ \A y \in Procs \ {x} : proc'[y] = proc[y]
        /\ proc'[x].pc = "idle"
    BY DEF InsertPage, Finish, Done, TypeOK
  <1>5. \A y \in Procs \ {x} : proc[y].pc \in Opening \cup Closing => proc[y].pid # q /\ proc[y].pid \in Pids
    BY <1>1 DEF BackInv, PageInv, Opening, CallInv, OnPage
  <1> HIDE DEF q
  <1>6. MemoryBacked'
    BY <1>1, <1>2, <1>3 DEF BackInv, MemoryBacked
  <1>7. FreshInv' /\ ClosedInv'
    BY <1>1, <1>3 DEF BackInv, FreshInv, ClosedInv, Pids
  <1>8. SessionInv'
    BY <1>1, <1>4 DEF BackInv, SessionInv, Holding
  <1>9. PageInv'
    <2>1. \A y \in Procs : proc'[y].pc \in Opening \cup Closing =>
            /\ y # x /\ proc'[y] = proc[y]
            /\ pages'[proc[y].pid].sid = pages[proc[y].pid].sid
      BY <1>3, <1>4, <1>5 DEF Opening, Closing
    <2> QED BY <1>1, <2>1 DEF BackInv, PageInv
  <1>10. OpeningInv'
    BY <1>1, <1>4 DEF BackInv, OpeningInv, Opening, Closing
  <1> QED BY <1>6, <1>7, <1>8, <1>9, <1>10 DEF BackInv

(* A page taken out of the map is its closer's alone.                       *)
LEMMA BackRemovePage ==
  ASSUME TypeOK, CallInv, BackInv, NEW x \in Procs, RemovePage(x), InMap(x)
  PROVE  BackInv'
  <1> DEFINE q == proc[x].pid
  <1>1. /\ UNCHANGED <<sessions, srow, prow, npages, closed>>
        /\ proc[x].pc = "close" /\ q \in Pids /\ q \in Nat /\ npages \in Nat
        /\ pages[q].sid # 0
    BY DEF RemovePage, InMap, storeVars, CallInv, OnPage,
             Pids, Sids, TypeOK, TypeMap, TypeCount
  <1>2. prow[q].sid # 0 /\ q <= npages
    <2>1. prow[q] = [sid |-> pages[q].sid, st |-> "open"]
      BY <1>1 DEF BackInv, MemoryBacked
    <2>2. ~(q > npages)
      BY <1>1 DEF BackInv, FreshInv
    <2> QED BY <1>1, <2>1, <2>2
  <1>3. /\ pages'[q].sid = 0
        /\ \A p \in Pids \ {q} : pages'[p] = pages[p]
    BY <1>1 DEF RemovePage, NoPage, TypeOK, TypeMap
  <1>4. ASSUME NEW i, proc' = [proc EXCEPT ![x].pc = "close_view", ![x].h = i]
        PROVE  /\ \A y \in Procs \ {x} : proc'[y] = proc[y]
               /\ proc'[x].pc = "close_view" /\ proc'[x].pid = q
    BY <1>4 DEF TypeOK, CallStates
  <1>5. /\ \A y \in Procs \ {x} : proc'[y] = proc[y]
        /\ proc'[x].pc = "close_view" /\ proc'[x].pid = q
    BY <1>4 DEF RemovePage
  <1>6. \A y \in Procs : proc[y].pc \in Opening \cup Closing => proc[y].pid # q /\ proc[y].pid \in Pids
    BY <1>1 DEF BackInv, PageInv, CallInv, OnPage
  <1> HIDE DEF q
  <1>7. MemoryBacked' /\ FreshInv' /\ ClosedInv'
    BY <1>1, <1>3 DEF BackInv, MemoryBacked, FreshInv, ClosedInv
  <1>8. SessionInv'
    BY <1>1, <1>5 DEF BackInv, SessionInv, Holding
  <1>9. PageInv'
    <2>1. \A y \in Procs : y # x /\ proc'[y].pc \in Opening \cup Closing =>
            /\ proc'[y] = proc[y] /\ proc[y].pid # q
            /\ pages'[proc[y].pid].sid = pages[proc[y].pid].sid
      BY <1>3, <1>5, <1>6
    <2> QED BY <1>1, <1>2, <1>3, <1>5, <2>1 DEF BackInv, PageInv
  <1>10. OpeningInv'
    BY <1>1, <1>2, <1>5 DEF BackInv, OpeningInv, Opening, Closing
  <1> QED BY <1>7, <1>8, <1>9, <1>10 DEF BackInv

(* The row of a page that is in nobody's map is closed.                     *)
LEMMA BackCloseRow ==
  ASSUME TypeOK, CallInv, BackInv, NEW x \in Procs, CloseRow(x)
  PROVE  BackInv'
  <1> DEFINE q == proc[x].pid
  <1>1. /\ UNCHANGED <<sessions, pages, srow, npages>>
        /\ proc[x].pc = "close_row" /\ q \in Pids
        /\ pages[q].sid = 0 /\ prow[q].sid # 0
    BY DEF CloseRow, mapVars, CallInv, OnPage, Closing, BackInv, PageInv, OpeningInv
  <1>2. /\ prow'[q].sid = prow[q].sid /\ prow'[q].st = "closed"
        /\ \A p \in Pids \ {q} : prow'[p] = prow[p]
    BY <1>1 DEF CloseRow, TypeOK, TypeStore
  <1>3. /\ \A s \in Sids : <<"s", s>> \in closed' => <<"s", s>> \in closed
        /\ \A p \in Pids : <<"p", p>> \in closed' => <<"p", p>> \in closed \/ p = q
    BY DEF CloseRow, Ids
  <1>4. /\ \A y \in Procs \ {x} : proc'[y] = proc[y]
        /\ proc'[x].pc = "idle"
    BY DEF CloseRow, Finish, Done, TypeOK
  <1>5. \A y \in Procs \ {x} : proc[y].pc \in Opening \cup Closing => proc[y].pid # q /\ proc[y].pid \in Pids
    BY <1>1 DEF BackInv, PageInv, Closing, CallInv, OnPage
  <1> HIDE DEF q
  <1>6. MemoryBacked' /\ FreshInv'
    BY <1>1, <1>2 DEF BackInv, MemoryBacked, FreshInv
  <1>7. ClosedInv'
    BY <1>1, <1>2, <1>3 DEF BackInv, ClosedInv
  <1>8. SessionInv' /\ PageInv'
    BY <1>1, <1>4 DEF BackInv, SessionInv, PageInv, Holding, Opening, Closing
  <1>9. OpeningInv'
    BY <1>1, <1>2, <1>4, <1>5 DEF BackInv, OpeningInv, Opening, Closing
  <1> QED BY <1>6, <1>7, <1>8, <1>9 DEF BackInv

(* A restart maps only what has open rows, and no call survives it.         *)
LEMMA BackCrash ==
  ASSUME TypeOK, CallInv, BackInv, CrashRestart
  PROVE  BackInv'
  <1>1. \A y \in Procs : proc'[y].pc = "idle"
    BY DEF CrashRestart, Done
  <1>2. SessionInv' /\ PageInv' /\ OpeningInv'
    BY <1>1 DEF SessionInv, PageInv, OpeningInv, Holding, Opening, Closing
  <1>3. \A p \in Pids : pages'[p].sid # 0 =>
          /\ pages'[p].sid = prow[p].sid /\ prow[p].st = "open"
          /\ prow[p].sid \in sessions'
    <2> DEFINE back == {s \in Sids : srow[s] = "open" /\ Recent(s) # {}}
    <2>1. /\ sessions' = back
          /\ pages' = [p \in Pids |-> IF \E s \in back : p \in Recent(s)
                                      THEN [sid |-> prow[p].sid, h |-> 0] ELSE NoPage]
      BY DEF CrashRestart
    <2>2. \A p \in Pids, s \in back : p \in Recent(s) => prow[p].sid = s /\ prow[p].st = "open"
      BY DEF Recent
    <2> HIDE DEF back
    <2> QED BY <2>1, <2>2 DEF NoPage
  <1>4. \A s \in sessions' : s \in Sids /\ srow'[s] = "open"
    BY DEF CrashRestart, TypeOK, TypeStore
  <1>5. UNCHANGED <<prow, npages, closed>>
    BY DEF CrashRestart
  <1>6. \A s \in Sids : srow[s] = "closed" => srow'[s] = "closed"
    BY DEF CrashRestart
  <1>7. MemoryBacked'
    <2>1. \A p \in Pids : prow[p].st = "open" => prow[p] = [sid |-> prow[p].sid, st |-> "open"]
      BY DEF TypeOK, TypeStore
    <2> QED BY <1>3, <1>4, <1>5, <2>1 DEF MemoryBacked
  <1>8. FreshInv'
    BY <1>3, <1>5 DEF BackInv, FreshInv
  <1>9. ClosedInv'
    BY <1>5, <1>6 DEF BackInv, ClosedInv
  <1> QED BY <1>2, <1>7, <1>8, <1>9 DEF BackInv

(* A thread whose next label holds nothing may change anything else of its  *)
(* state.                                                                   *)
LEMMA LetGo ==
  ASSUME TypeOK, CallInv, BackInv, NEW x \in Procs,
         \A y \in Procs \ {x} : proc'[y] = proc[y],
         proc'[x].pc \notin Holding \cup Opening \cup Closing,
         UNCHANGED <<sessions, srow, prow, npages, closed>>,
         \A p \in Pids : pages'[p].sid = pages[p].sid
  PROVE  BackInv'
  <1>1. \A y \in Procs : Going(proc[y], proc'[y])
    BY DEF Going
  <1> QED BY <1>1, Frame

(* Every step keeps the invariant.                                          *)
LEMMA BackStep == TypeOK /\ CallInv /\ BackInv /\ [Next]_vars => BackInv'
  <1> SUFFICES ASSUME TypeOK, CallInv, BackInv, [Next]_vars PROVE BackInv'
    OBVIOUS
  <1> USE DEF mapVars, engineVars, storeVars, histVars, countVars
  <1>1. ASSUME NEW x \in Procs, Finish(x), UNCHANGED <<sessions, pages, srow, prow, npages, closed>>
        PROVE  BackInv'
    <2>1. /\ \A y \in Procs \ {x} : proc'[y] = proc[y]
          /\ proc'[x].pc \notin Holding \cup Opening \cup Closing
      BY <1>1 DEF Finish, Done, TypeOK, Holding, Opening, Closing
    <2> QED BY <1>1, <2>1, LetGo
  <1>2. ASSUME NEW x \in Procs, NEW l, Goto(x, l), l \notin Holding \cup Opening \cup Closing,
               UNCHANGED <<sessions, pages, srow, prow, npages, closed>>
        PROVE  BackInv'
    <2>1. /\ \A y \in Procs \ {x} : proc'[y] = proc[y]
          /\ proc'[x].pc \notin Holding \cup Opening \cup Closing
      BY <1>2 DEF Goto, TypeOK, CallStates
    <2> QED BY <1>2, <2>1, LetGo
  <1>3. {"targets", "remove", "open", "call", "reopen", "install", "update_row", "dormant", "close_dormant"}
          \cap (Holding \cup Opening \cup Closing) = {}
    BY DEF Holding, Opening, Closing
  <1>4. ASSUME NEW x \in Procs, NextTarget(x) PROVE BackInv'
    <2>1. UNCHANGED <<sessions, pages, srow, prow, npages, closed>>
      BY <1>4 DEF NextTarget
    <2>2. ASSUME NEW s \in proc[x].targets,
                 proc' = [proc EXCEPT ![x].pc = "remove", ![x].sid = s, ![x].targets = @ \ {s}]
          PROVE  BackInv'
      <3>1. /\ \A y \in Procs \ {x} : proc'[y] = proc[y]
            /\ proc'[x].pc = "remove"
        BY <2>2 DEF TypeOK, CallStates
      <3> QED BY <1>3, <2>1, <3>1, LetGo
    <2> QED BY <1>1, <1>4, <2>1, <2>2 DEF NextTarget
  <1>5. ASSUME NEW x \in Procs, RemoveSession(x) PROVE BackInv'
    <2>1. CASE proc[x].sid \in sessions
      BY <1>5, <2>1, BackRemoveSession
    <2>2. CASE proc[x].sid \notin sessions
      BY <1>2, <1>3, <1>5, <2>2 DEF RemoveSession
    <2> QED BY <2>1, <2>2
  <1>6. ASSUME NEW x \in Procs, CloseViews(x) PROVE BackInv'
    <2>1. UNCHANGED <<sessions, pages, srow, prow, npages, closed>> /\ proc[x].pc = "close_views"
      BY <1>6 DEF CloseViews
    <2>2. /\ \A y \in Procs \ {x} : proc'[y] = proc[y]
          /\ proc'[x].pc \in {"close_views", "close_rows"}
          /\ proc'[x].sid = proc[x].sid /\ proc'[x].pid = proc[x].pid
      <3>1. CASE Goto(x, "close_rows")
        BY <3>1 DEF Goto, TypeOK, CallStates
      <3>2. ASSUME NEW h \in proc[x].hs, proc' = [proc EXCEPT ![x].hs = @ \ {h}]
            PROVE  /\ \A y \in Procs \ {x} : proc'[y] = proc[y]
                   /\ proc'[x].pc = proc[x].pc
                   /\ proc'[x].sid = proc[x].sid /\ proc'[x].pid = proc[x].pid
        BY <3>2 DEF TypeOK, CallStates
      <3> QED BY <1>6, <2>1, <3>1, <3>2 DEF CloseViews
    <2>3. \A y \in Procs : Going(proc[y], proc'[y])
      BY <2>1, <2>2 DEF Going
    <2> QED BY <2>1, <2>3, Frame
  <1>7. ASSUME NEW x \in Procs, Require(x) PROVE BackInv'
    <2>1. UNCHANGED <<sessions, pages, srow, prow, npages, closed>>
      BY <1>7 DEF Require
    <2> QED BY <1>1, <1>2, <1>3, <1>7, <2>1 DEF Require
  <1>8. ASSUME NEW x \in Procs, FirstSnapshot(x) PROVE BackInv'
    <2>1. UNCHANGED <<sessions, pages, srow, prow, npages, closed>> /\ proc[x].pc = "snapshot"
      BY <1>8 DEF FirstSnapshot
    <2>2. /\ \A y \in Procs \ {x} : proc'[y] = proc[y]
          /\ proc'[x].pc = "insert_page" /\ proc'[x].sid = proc[x].sid /\ proc'[x].pid = proc[x].pid
      BY <1>8 DEF FirstSnapshot, Goto, TypeOK, CallStates
    <2>3. \A y \in Procs : Going(proc[y], proc'[y])
      BY <2>1, <2>2 DEF Going
    <2> QED BY <2>1, <2>3, Frame
  <1>9. ASSUME NEW x \in Procs, InsertPage(x) PROVE BackInv'
    <2>1. CASE proc[x].sid \in sessions
      BY <1>9, <2>1, BackInsertPage
    <2>2. CASE proc[x].sid \notin sessions
      BY <1>1, <1>9, <2>2 DEF InsertPage, Fail
    <2> QED BY <2>1, <2>2
  <1>10. ASSUME NEW x \in Procs, RemovePage(x) PROVE BackInv'
    <2>1. CASE InMap(x)
      BY <1>10, <2>1, BackRemovePage
    <2>2. CASE ~InMap(x)
      BY <1>1, <1>10, <2>2 DEF RemovePage
    <2> QED BY <2>1, <2>2
  <1>11. ASSUME NEW x \in Procs, CloseView(x) PROVE BackInv'
    <2>1. UNCHANGED <<sessions, pages, srow, prow, npages, closed>> /\ proc[x].pc = "close_view"
      BY <1>11 DEF CloseView
    <2>2. /\ \A y \in Procs \ {x} : proc'[y] = proc[y]
          /\ proc'[x].pc = "close_row" /\ proc'[x].sid = proc[x].sid /\ proc'[x].pid = proc[x].pid
      BY <1>11 DEF CloseView, Goto, TypeOK, CallStates
    <2>3. \A y \in Procs : Going(proc[y], proc'[y])
      BY <2>1, <2>2 DEF Going
    <2> QED BY <2>1, <2>3, Frame
  <1>12. ASSUME NEW x \in Procs, HandleFor(x) PROVE BackInv'
    <2>1. UNCHANGED <<sessions, pages, srow, prow, npages, closed>>
      BY <1>12 DEF HandleFor
    <2>2. ASSUME NEW l \in {"call", "reopen"}, NEW i,
                 proc' = [proc EXCEPT ![x].pc = l, ![x].h = i]
          PROVE  BackInv'
      <3>1. (\A y \in Procs \ {x} : proc'[y] = proc[y]) /\ proc'[x].pc = l
        BY <2>2 DEF TypeOK, CallStates
      <3> QED BY <1>3, <2>1, <3>1, LetGo
    <2> QED BY <1>1, <1>12, <2>1, <2>2 DEF HandleFor
  <1>13. ASSUME NEW x \in Procs, Reopen(x) PROVE BackInv'
    <2>1. UNCHANGED <<sessions, pages, srow, prow, npages, closed>>
      BY <1>13 DEF Reopen
    <2>2. (\A y \in Procs \ {x} : proc'[y] = proc[y]) /\ proc'[x].pc = "install"
      BY <1>13 DEF Reopen, TypeOK, CallStates
    <2> QED BY <1>3, <2>1, <2>2, LetGo
  <1>14. ASSUME NEW x \in Procs, Install(x) PROVE BackInv'
    <2>1. UNCHANGED <<sessions, srow, prow, npages, closed>>
      BY <1>14 DEF Install
    <2>2. CASE ~InMap(x)
      BY <1>1, <1>14, <2>1, <2>2 DEF Install, Fail
    <2>3. CASE InMap(x)
      <3>1. ASSUME NEW i, proc' = [proc EXCEPT ![x].pc = "call", ![x].h = i]
            PROVE  (\A y \in Procs \ {x} : proc'[y] = proc[y]) /\ proc'[x].pc = "call"
        BY <3>1 DEF TypeOK, CallStates
      <3>2. (\A y \in Procs \ {x} : proc'[y] = proc[y]) /\ proc'[x].pc = "call"
        BY <1>14, <2>3, <3>1 DEF Install
      <3>3. \A p \in Pids : pages'[p].sid = pages[p].sid
        BY <1>14, <2>3 DEF Install, TypeOK, TypeMap
      <3> QED BY <1>3, <2>1, <3>2, <3>3, LetGo
    <2> QED BY <2>2, <2>3
  <1>15. ASSUME NEW x \in Procs, Call(x) PROVE BackInv'
    <2>1. UNCHANGED <<sessions, pages, srow, prow, npages, closed>>
      BY <1>15 DEF Call
    <2> QED BY <1>1, <1>2, <1>3, <1>15, <2>1 DEF Call
  <1>16. ASSUME NEW x \in Procs, UpdateRow(x) PROVE BackInv'
    BY <1>1, <1>16 DEF UpdateRow
  <1>17. ASSUME NEW x \in Procs, Begin(x) PROVE BackInv'
    <2>1. UNCHANGED <<sessions, pages, srow, prow, npages, closed>>
      BY <1>17, Zenon DEF Begin
    <2>2. PICK r \in Starts : proc' = [proc EXCEPT ![x] = r]
      BY <1>17, BeginStarts
    <2>3. (\A y \in Procs \ {x} : proc'[y] = proc[y]) /\ proc'[x] = r
      BY <2>2 DEF TypeOK
    <2>4. r.pc \notin Holding \cup Opening \cup Closing
      BY DEF Starts, Holding, Opening, Closing
    <2> QED BY <2>1, <2>3, <2>4, LetGo
  <1>18. ASSUME NEW x \in Procs, EngineFault(x) PROVE BackInv'
    BY <1>1, <1>18 DEF EngineFault, Fail
  <1>19. ASSUME ReapPlan PROVE BackInv'
    <2>1. UNCHANGED <<sessions, pages, srow, prow, npages, closed>>
      BY <1>19 DEF ReapPlan
    <2>2. (\A y \in Procs \ {Reaper} : proc'[y] = proc[y]) /\ proc'[Reaper].pc = "dormant"
      BY <1>19, ProcTypes DEF ReapPlan, TypeOK, Done
    <2> QED BY <1>3, <2>1, <2>2, ProcTypes, LetGo
  <1>20. ASSUME ReapPage PROVE BackInv'
    <2>1. UNCHANGED <<sessions, srow, prow, npages, closed>>
      BY <1>20 DEF ReapPage
    <2>2. CASE proc[Reaper].dormant = {}
      BY <1>2, <1>3, <1>20, <2>1, <2>2, ProcTypes DEF ReapPage
    <2>3. CASE proc[Reaper].dormant # {}
      <3>1. PICK p \in proc[Reaper].dormant :
              /\ pages' = [pages EXCEPT ![p].h = 0]
              /\ proc' = [proc EXCEPT ![Reaper].pc = "close_dormant", ![Reaper].h = pages[p].h,
                                      ![Reaper].dormant = @ \ {p}]
        BY <1>20, <2>3 DEF ReapPage
      <3>2. (\A y \in Procs \ {Reaper} : proc'[y] = proc[y]) /\ proc'[Reaper].pc = "close_dormant"
        BY <3>1, ProcTypes DEF TypeOK, CallStates
      <3>3. \A q \in Pids : pages'[q].sid = pages[q].sid
        BY <3>1 DEF TypeOK, TypeMap
      <3> QED BY <1>3, <2>1, <3>2, <3>3, ProcTypes, LetGo
    <2> QED BY <2>2, <2>3
  <1>21. ASSUME CloseDormant PROVE BackInv'
    <2>1. UNCHANGED <<sessions, pages, srow, prow, npages, closed>>
      BY <1>21 DEF CloseDormant
    <2>2. (\A y \in Procs \ {Reaper} : proc'[y] = proc[y]) /\ proc'[Reaper].pc = "dormant"
      BY <1>21, ProcTypes DEF CloseDormant, TypeOK, CallStates
    <2> QED BY <1>3, <2>1, <2>2, ProcTypes, LetGo
  <1>22. ASSUME UNCHANGED <<sessions, pages, srow, prow, npages, closed, proc>> PROVE BackInv'
    <2>1. \A y \in Procs : Going(proc[y], proc'[y])
      BY <1>22 DEF Going
    <2> QED BY <1>22, <2>1, Frame
  <1>23. CASE Tick
    BY <1>22, <1>23 DEF Tick
  <1>24. CASE UNCHANGED vars
    BY <1>22, <1>24 DEF vars
  <1> QED
    BY <1>4, <1>5, <1>6, <1>7, <1>8, <1>9, <1>10, <1>11, <1>12, <1>13, <1>14, <1>15, <1>16,
       <1>17, <1>18, <1>19, <1>20, <1>21, <1>23, <1>24, ProcTypes, BackCreateSession,
       BackInsertSession, BackCloseRows, BackEngineOpen, BackCreatePage, BackCloseRow, BackCrash
    DEF Next, CallStep, ReaperStep, Rest

(* state.db is the source of truth: whatever calls, sweeps and crashes      *)
(* interleave, every session and page in the map has an open row under the  *)
(* same session.                                                            *)
THEOREM MemoryIsBacked == Spec => []MemoryBacked
  <1>1. Init => TypeOK /\ CallInv /\ BackInv
    BY InitType, BackInit
  <1>2. TypeOK /\ CallInv /\ BackInv /\ [Next]_vars => (TypeOK /\ CallInv /\ BackInv)'
    BY TypeStep, BackStep
  <1>3. BackInv => MemoryBacked
    BY DEF BackInv
  <1> QED BY <1>1, <1>2, <1>3, PTL DEF Spec

(* Once a close has been answered, no slower call and no restart brings the *)
(* page or the session back into the map.                                   *)
THEOREM ClosedNeverReturns == Spec => []ClosedStaysClosed
  <1>1. Init => TypeOK /\ CallInv /\ BackInv
    BY InitType, BackInit
  <1>2. TypeOK /\ CallInv /\ BackInv /\ [Next]_vars => (TypeOK /\ CallInv /\ BackInv)'
    BY TypeStep, BackStep
  <1>3. TypeOK /\ BackInv => ClosedStaysClosed
    <2> SUFFICES ASSUME TypeOK, BackInv PROVE ClosedStaysClosed
      OBVIOUS
    <2>1. \A s \in sessions : s \in Sids /\ srow[s] = "open"
      BY DEF TypeOK, TypeMap, BackInv, MemoryBacked
    <2>2. ASSUME NEW p \in Pids, pages[p].sid # 0 PROVE prow[p].st = "open"
      <3>1. prow[p] = [sid |-> pages[p].sid, st |-> "open"]
        BY <2>2 DEF BackInv, MemoryBacked
      <3> QED BY <3>1
    <2>3. /\ \A s \in Sids : <<"s", s>> \in closed => srow[s] = "closed"
          /\ \A p \in Pids : <<"p", p>> \in closed => prow[p].st = "closed"
      BY DEF BackInv, ClosedInv
    <2> QED BY <2>1, <2>2, <2>3 DEF ClosedStaysClosed
  <1> QED BY <1>1, <1>2, <1>3, PTL DEF Spec

-----------------------------------------------------------------------------
(* Every web view has an owner.                                             *)

(* The labels at which a call has a web view in hand.                       *)
Carrying == {"create_page", "snapshot", "insert_page", "install", "close_view", "close_dormant"}

(* What a call holds, by its label: session_close has the views of its      *)
(* pages, the others one.                                                   *)
LEMMA HoldsBy ==
  ASSUME HandleInv, NEW x \in Procs
  PROVE  /\ proc[x].pc \notin Carrying \cup {"close_views"} => Holds(x) = {}
         /\ proc[x].pc \in Carrying => Holds(x) = {proc[x].h}
         /\ proc[x].pc = "close_views" => Holds(x) = proc[x].hs
  BY DEF HandleInv, Holds, Carrying

(* The same of the next state.                                              *)
LEMMA HoldsNext ==
  ASSUME NEW x \in Procs
  PROVE  /\ proc'[x].hs = {} /\ proc'[x].pc \notin Carrying => Holds(x)' = {}
         /\ proc'[x].hs = {} /\ proc'[x].pc \in Carrying => Holds(x)' = {proc'[x].h}
         /\ proc'[x].pc = "close_views" => Holds(x)' = proc'[x].hs
         /\ \A y \in Procs : proc'[y] = proc[y] => Holds(y)' = Holds(y)
  BY DEF Holds, Carrying

(* ViewsAccountedFor, view by view.                                         *)
LEMMA Owned ==
  ViewsAccountedFor <=>
    \A h \in live : \/ \E p \in Pids : pages[p].h = h
                    \/ h \in leaked
                    \/ \E x \in Procs : h \in Holds(x)
  BY DEF ViewsAccountedFor

(* A call gives up, closes or leaks views it holds.                         *)
LEMMA LetsViewsGo ==
  ASSUME TypeOK, ViewInv, NEW x \in Procs, NEW S \in SUBSET Holds(x),
         \A y \in Procs \ {x} : Holds(y)' = Holds(y),
         \A p \in Pids : pages'[p].h = pages[p].h,
         live' = live \ S, leaked \subseteq leaked',
         Holds(x)' \subseteq Holds(x) \ S,
         \A h \in Holds(x) \ S : h = 0 \/ h \in Holds(x)' \/ h \in leaked'
  PROVE  HeldInv' /\ ViewsMatchPages'
  <1>1. HeldInv'
    BY DEF ViewInv, HeldInv
  <1>2. ViewsAccountedFor'
    <2>1. \A h \in live : \/ \E p \in Pids : pages[p].h = h
                          \/ h \in leaked
                          \/ \E y \in Procs : h \in Holds(y)
      BY Owned DEF ViewInv, ViewsMatchPages
    <2>2. 0 \notin live
      BY DEF TypeOK, TypeEngine
    <2>3. \A h \in live' : \/ \E p \in Pids : pages'[p].h = h
                           \/ h \in leaked'
                           \/ \E y \in Procs : h \in Holds(y)'
      BY <2>1, <2>2
    <2> QED BY <2>3 DEF ViewsAccountedFor
  <1>3. ViewsDistinct'
    <2>1. \A p \in Pids : pages[p].h # 0 => pages[p].h \notin S
      BY DEF ViewInv, HeldInv
    <2> QED BY <2>1 DEF ViewInv, ViewsMatchPages, ViewsDistinct
  <1> QED BY <1>1, <1>2, <1>3 DEF ViewsMatchPages

(* The engine opens a view for a call.                                      *)
LEMMA OpensView ==
  ASSUME TypeOK, ViewInv, NEW x \in Procs,
         \A y \in Procs \ {x} : Holds(y)' = Holds(y),
         UNCHANGED <<pages, leaked>>,
         live' = live \cup {opened + 1},
         Holds(x) = {}, Holds(x)' = {opened + 1}
  PROVE  HeldInv' /\ ViewsMatchPages'
  <1> DEFINE n == opened + 1
  <1>1. n \notin live /\ n # 0
    BY DEF TypeOK, TypeEngine
  <1>2. live' = live \cup {n} /\ Holds(x)' = {n}
    OBVIOUS
  <1> HIDE DEF n
  <1>3. \A p \in Pids : pages[p].h # n
    BY <1>1 DEF ViewInv, ViewsMatchPages, ViewsDistinct
  <1>4. \A y \in Procs : n \notin Holds(y)
    BY <1>1 DEF ViewInv, HeldInv
  <1>5. HeldInv'
    BY <1>1, <1>2, <1>3, <1>4 DEF ViewInv, HeldInv
  <1>6. ViewsAccountedFor'
    <2>1. \A h \in live : \/ \E p \in Pids : pages[p].h = h
                          \/ h \in leaked
                          \/ \E y \in Procs : h \in Holds(y)
      BY Owned DEF ViewInv, ViewsMatchPages
    <2>2. \A h \in live' : \/ \E p \in Pids : pages'[p].h = h
                           \/ h \in leaked'
                           \/ \E y \in Procs : h \in Holds(y)'
      BY <1>2, <2>1
    <2> QED BY <2>2 DEF ViewsAccountedFor
  <1>7. ViewsDistinct'
    BY <1>2 DEF ViewInv, ViewsMatchPages, ViewsDistinct
  <1> QED BY <1>5, <1>6, <1>7 DEF ViewsMatchPages

(* A call gives its view to a page that has none.                           *)
LEMMA GivesView ==
  ASSUME TypeOK, ViewInv, NEW x \in Procs, NEW p \in Pids, NEW h \in Nat \ {0},
         \A y \in Procs \ {x} : Holds(y)' = Holds(y),
         UNCHANGED <<live, leaked>>,
         Holds(x) = {h}, Holds(x)' = {},
         pages[p].h = 0, pages'[p].h = h,
         \A q \in Pids \ {p} : pages'[q].h = pages[q].h
  PROVE  HeldInv' /\ ViewsMatchPages'
  <1>1. /\ h \in live
        /\ \A q \in Pids : pages[q].h # h
        /\ \A y \in Procs \ {x} : h \notin Holds(y)
    BY DEF ViewInv, HeldInv
  <1>2. HeldInv'
    BY <1>1 DEF ViewInv, HeldInv
  <1>3. ViewsAccountedFor'
    <2>1. \A g \in live : \/ \E q \in Pids : pages[q].h = g
                          \/ g \in leaked
                          \/ \E y \in Procs : g \in Holds(y)
      BY Owned DEF ViewInv, ViewsMatchPages
    <2>2. 0 \notin live
      BY DEF TypeOK, TypeEngine
    <2>3. ASSUME NEW g \in live'
          PROVE  \/ \E q \in Pids : pages'[q].h = g
                 \/ g \in leaked'
                 \/ \E y \in Procs : g \in Holds(y)'
      BY <2>1, <2>2, <2>3
    <2> QED BY <2>3 DEF ViewsAccountedFor
  <1>4. ViewsDistinct'
    BY <1>1 DEF ViewInv, ViewsMatchPages, ViewsDistinct
  <1> QED BY <1>2, <1>3, <1>4 DEF ViewsMatchPages

(* A call takes the views of pages, to close them.                          *)
LEMMA TakesViews ==
  ASSUME TypeOK, ViewInv, NEW x \in Procs, NEW P \in SUBSET Pids,
         \A y \in Procs \ {x} : Holds(y)' = Holds(y),
         UNCHANGED <<live, leaked>>,
         Holds(x) = {}, Holds(x)' \ {0} = {pages[p].h : p \in P} \ {0},
         \A p \in P : pages'[p].h = 0,
         \A p \in Pids \ P : pages'[p].h = pages[p].h
  PROVE  HeldInv' /\ ViewsMatchPages'
  <1>1. \A h \in Holds(x)' \ {0} : \E p \in P : pages[p].h = h
    OBVIOUS
  <1>2. \A p \in P : pages[p].h # 0 => pages[p].h \in Holds(x)'
    OBVIOUS
  <1>3. HeldInv'
    <2>1. ASSUME NEW h \in Holds(x)' \ {0}
          PROVE  /\ h \in live'
                 /\ \A p \in Pids : pages'[p].h # h
                 /\ \A y \in Procs \ {x} : h \notin Holds(y)'
      BY <1>1, <2>1 DEF ViewInv, HeldInv, ViewsMatchPages, ViewsDistinct
    <2>2. ASSUME NEW y \in Procs \ {x}, NEW h \in Holds(y)' \ {0}
          PROVE  /\ h \in live'
                 /\ \A p \in Pids : pages'[p].h # h
                 /\ \A z \in Procs : h \in Holds(z)' => z = y
      BY <2>1, <2>2 DEF ViewInv, HeldInv
    <2>3. \A z \in Procs : z = x \/ z \in Procs \ {x}
      OBVIOUS
    <2> QED BY <2>1, <2>2, <2>3 DEF HeldInv
  <1>4. ViewsAccountedFor'
    <2>1. \A g \in live : \/ \E q \in Pids : pages[q].h = g
                          \/ g \in leaked
                          \/ \E y \in Procs : g \in Holds(y)
      BY Owned DEF ViewInv, ViewsMatchPages
    <2>2. 0 \notin live
      BY DEF TypeOK, TypeEngine
    <2>3. ASSUME NEW g \in live'
          PROVE  \/ \E q \in Pids : pages'[q].h = g
                 \/ g \in leaked'
                 \/ \E y \in Procs : g \in Holds(y)'
      BY <1>2, <2>1, <2>2, <2>3
    <2> QED BY <2>3 DEF ViewsAccountedFor
  <1>5. ViewsDistinct'
    BY DEF ViewInv, ViewsMatchPages, ViewsDistinct
  <1> QED BY <1>3, <1>4, <1>5 DEF ViewsMatchPages

(* Nothing changes hands.                                                   *)
LEMMA KeepsViews ==
  ASSUME TypeOK, ViewInv, NEW x \in Procs,
         \A y \in Procs \ {x} : proc'[y] = proc[y],
         UNCHANGED live, leaked \subseteq leaked',
         \A p \in Pids : /\ pages'[p].h = pages[p].h
                         /\ pages'[p].sid = 0 => pages[p].sid = 0,
         proc'[x].hs = {},
         proc'[x].pc \in Carrying => Holds(x) = {proc'[x].h},
         proc'[x].pc \notin Carrying => Holds(x) \subseteq leaked' \cup {0}
  PROVE  ViewInv'
  <1>1. \A y \in Procs \ {x} : Holds(y)' = Holds(y)
    BY HoldsNext
  <1>2. /\ Holds(x)' \subseteq Holds(x)
        /\ \A h \in Holds(x) : h = 0 \/ h \in Holds(x)' \/ h \in leaked'
    BY HoldsNext
  <1>3. HeldInv' /\ ViewsMatchPages'
    BY <1>1, <1>2, LetsViewsGo, {} \in SUBSET Holds(x), live = live \ {}
  <1>4. HandleInv'
    BY DEF ViewInv, HandleInv
  <1> QED BY <1>3, <1>4 DEF ViewInv

(* The same of a step at a label without a view, to another such label.     *)
LEMMA HoldsNoView ==
  ASSUME TypeOK, ViewInv, NEW x \in Procs,
         proc[x].pc \notin Carrying \cup {"close_views"},
         \A y \in Procs \ {x} : proc'[y] = proc[y],
         UNCHANGED live, leaked \subseteq leaked',
         \A p \in Pids : /\ pages'[p].h = pages[p].h
                         /\ pages'[p].sid = 0 => pages[p].sid = 0,
         proc'[x].hs = {}, proc'[x].pc \notin Carrying
  PROVE  ViewInv'
  <1>1. Holds(x) = {}
    BY HoldsBy DEF ViewInv
  <1> QED BY <1>1, KeepsViews

(* Nobody has a web view in a daemon that has just been started.            *)
LEMMA ViewInit == Init => ViewInv
  <1> SUFFICES ASSUME Init PROVE ViewInv
    OBVIOUS
  <1>1. HandleInv
    BY DEF Init, HandleInv, Done, NoPage
  <1>2. \A x \in Procs : Holds(x) = {}
    BY <1>1, HoldsBy DEF Init, Done, Carrying
  <1>3. HeldInv /\ ViewsMatchPages
    BY <1>2 DEF Init, HeldInv, ViewsMatchPages, ViewsAccountedFor, ViewsDistinct, NoPage
  <1> QED BY <1>1, <1>3 DEF ViewInv

(* A crash closes every view and forgets every handle.                      *)
LEMMA ViewCrash ==
  ASSUME CrashRestart
  PROVE  ViewInv'
  <1>1. live' = {} /\ \A p \in Pids : pages'[p].h = 0
    BY DEF CrashRestart, NoPage
  <1>2. \A x \in Procs : proc'[x].hs = {} /\ proc'[x].pc = "idle"
    BY DEF CrashRestart, Done
  <1>3. HandleInv'
    BY <1>1, <1>2 DEF HandleInv
  <1>4. \A x \in Procs : Holds(x)' = {}
    BY <1>2, HoldsNext DEF Carrying
  <1>5. HeldInv' /\ ViewsMatchPages'
    BY <1>1, <1>4 DEF HeldInv, ViewsMatchPages, ViewsAccountedFor, ViewsDistinct
  <1> QED BY <1>3, <1>5 DEF ViewInv

(* The label of one thread changes.                                         *)
LEMMA Going1 ==
  ASSUME TypeOK, NEW x \in Procs, NEW l, Goto(x, l)
  PROVE  /\ \A y \in Procs \ {x} : proc'[y] = proc[y]
         /\ proc'[x].pc = l /\ proc'[x].hs = proc[x].hs /\ proc'[x].h = proc[x].h
         /\ proc'[x].sid = proc[x].sid /\ proc'[x].pid = proc[x].pid
  BY DEF Goto, TypeOK, CallStates

(* A call is over.                                                          *)
LEMMA Finished ==
  ASSUME TypeOK, NEW x \in Procs, Finish(x)
  PROVE  /\ \A y \in Procs \ {x} : proc'[y] = proc[y]
         /\ proc'[x].pc = "idle" /\ proc'[x].hs = {}
  BY DEF Finish, Done, TypeOK

(* The session's views go to the call that removed it, which closes them    *)
(* one by one.                                                              *)
LEMMA ViewRemoveSession ==
  ASSUME TypeOK, CallInv, ViewInv, NEW x \in Procs, RemoveSession(x)
  PROVE  ViewInv'
  <1> DEFINE s == proc[x].sid
  <1>1. proc[x].pc = "remove" /\ proc[x].hs = {} /\ Holds(x) = {}
    BY HoldsBy DEF RemoveSession, Carrying, ViewInv, HandleInv
  <1>2. UNCHANGED <<live, leaked>>
    BY DEF RemoveSession, engineVars
  <1>3. CASE s \notin sessions
    <2>1. Goto(x, "targets") /\ UNCHANGED pages
      BY <1>3 DEF RemoveSession
    <2> QED BY <1>1, <1>2, <2>1, Going1, HoldsNoView DEF Carrying
  <1>4. CASE s \in sessions
    <2> DEFINE H == {pages[p].h : p \in Pages(s)} \ {0}
    <2>1. /\ pages' = [p \in Pids |-> IF p \in Pages(s) THEN NoPage ELSE pages[p]]
          /\ proc' = [proc EXCEPT ![x].pc = "close_views", ![x].hs = H]
      BY <1>4 DEF RemoveSession
    <2>2. Pages(s) \in SUBSET Pids
      BY DEF Pages
    <2>3. /\ \A p \in Pages(s) : pages'[p].h = 0
          /\ \A p \in Pids \ Pages(s) : pages'[p] = pages[p]
      BY <2>1, <2>2 DEF NoPage
    <2> HIDE DEF s, H
    <2>4. /\ \A y \in Procs \ {x} : proc'[y] = proc[y]
          /\ proc'[x].pc = "close_views" /\ proc'[x].hs = H
      BY <2>1 DEF TypeOK, CallStates
    <2>5. Holds(x)' = H /\ \A y \in Procs \ {x} : Holds(y)' = Holds(y)
      BY <2>4, HoldsNext
    <2>6. H \ {0} = {pages[p].h : p \in Pages(s)} \ {0}
      BY DEF H
    <2>7. HeldInv' /\ ViewsMatchPages'
      BY <1>1, <1>2, <2>2, <2>3, <2>5, <2>6, TakesViews
    <2>8. HandleInv'
      BY <2>3, <2>4 DEF ViewInv, HandleInv
    <2> QED BY <2>7, <2>8 DEF ViewInv
  <1> QED BY <1>3, <1>4

(* A session_close closes one of the views it holds.                        *)
LEMMA ViewCloseViews ==
  ASSUME TypeOK, CallInv, ViewInv, NEW x \in Procs, CloseViews(x)
  PROVE  ViewInv'
  <1>1. proc[x].pc = "close_views" /\ Holds(x) = proc[x].hs
    BY HoldsBy DEF CloseViews, ViewInv
  <1>2. UNCHANGED <<pages, leaked>>
    BY DEF CloseViews, mapVars, histVars
  <1>3. CASE proc[x].hs = {}
    <2>1. Goto(x, "close_rows") /\ UNCHANGED live
      BY <1>3 DEF CloseViews
    <2>2. /\ \A y \in Procs \ {x} : proc'[y] = proc[y]
          /\ proc'[x].pc = "close_rows" /\ proc'[x].hs = {}
      BY <1>3, <2>1, Going1
    <2> QED BY <1>1, <1>2, <1>3, <2>1, <2>2, KeepsViews DEF Carrying
  <1>4. CASE proc[x].hs # {}
    <2>1. PICK h \in proc[x].hs :
            /\ live' = live \ {h}
            /\ proc' = [proc EXCEPT ![x].hs = @ \ {h}]
      BY <1>4 DEF CloseViews
    <2>2. /\ \A y \in Procs \ {x} : proc'[y] = proc[y]
          /\ proc'[x].pc = "close_views" /\ proc'[x].hs = proc[x].hs \ {h}
      BY <1>1, <2>1 DEF TypeOK, CallStates
    <2>3. Holds(x)' = Holds(x) \ {h} /\ \A y \in Procs \ {x} : Holds(y)' = Holds(y)
      BY <1>1, <2>2, HoldsNext
    <2>4. HeldInv' /\ ViewsMatchPages'
      BY <1>1, <1>2, <2>1, <2>3, LetsViewsGo, {h} \in SUBSET Holds(x)
    <2>5. HandleInv'
      BY <1>2, <2>2 DEF ViewInv, HandleInv
    <2> QED BY <2>4, <2>5 DEF ViewInv
  <1> QED BY <1>3, <1>4

(* A call opens a view: for a new page, or for one that is dormant.         *)
LEMMA ViewOpened ==
  ASSUME TypeOK, ViewInv, NEW x \in Procs, EngineOpen(x) \/ Reopen(x)
  PROVE  ViewInv'
  <1>1. proc[x].hs = {} /\ Holds(x) = {}
    BY HoldsBy DEF EngineOpen, Reopen, Carrying, ViewInv, HandleInv
  <1>2. UNCHANGED <<pages, leaked>> /\ live' = live \cup {opened + 1}
    BY DEF EngineOpen, Reopen, mapVars, histVars
  <1>3. /\ \A y \in Procs \ {x} : proc'[y] = proc[y]
        /\ proc'[x].pc \in Carrying /\ proc'[x].hs = {} /\ proc'[x].h = opened + 1
    <2>1. CASE EngineOpen(x)
      BY <1>1, <2>1 DEF EngineOpen, Carrying, TypeOK, CallStates
    <2>2. CASE Reopen(x)
      BY <1>1, <2>2 DEF Reopen, Carrying, TypeOK, CallStates
    <2> QED BY <2>1, <2>2
  <1>4. Holds(x)' = {opened + 1} /\ \A y \in Procs \ {x} : Holds(y)' = Holds(y)
    BY <1>3, HoldsNext
  <1>5. HeldInv' /\ ViewsMatchPages'
    BY <1>1, <1>2, <1>4, OpensView
  <1>6. HandleInv'
    BY <1>2, <1>3 DEF ViewInv, HandleInv
  <1> QED BY <1>5, <1>6 DEF ViewInv

(* A view is given to a page in the map that has none.                      *)
LEMMA ViewGiven ==
  ASSUME TypeOK, ViewInv, NEW x \in Procs, NEW p \in Pids,
         proc[x].pc \in Carrying, proc[x].h # 0,
         \A y \in Procs \ {x} : proc'[y] = proc[y],
         proc'[x].pc \notin Carrying, proc'[x].hs = {},
         UNCHANGED <<live, leaked>>,
         pages[p].h = 0, pages'[p].h = proc[x].h, pages'[p].sid # 0,
         \A q \in Pids \ {p} : pages'[q] = pages[q]
  PROVE  ViewInv'
  <1>1. proc[x].h \in Nat \ {0}
    BY DEF TypeOK, CallStates
  <1>2. Holds(x) = {proc[x].h} /\ Holds(x)' = {}
    BY HoldsBy, HoldsNext DEF ViewInv
  <1>3. \A y \in Procs \ {x} : Holds(y)' = Holds(y)
    BY HoldsNext
  <1>4. HeldInv' /\ ViewsMatchPages'
    BY <1>1, <1>2, <1>3, GivesView
  <1>5. HandleInv'
    BY DEF ViewInv, HandleInv
  <1> QED BY <1>4, <1>5 DEF ViewInv

(* A call closes the one view it has.                                       *)
LEMMA ViewClosed ==
  ASSUME TypeOK, ViewInv, NEW x \in Procs,
         proc[x].pc \in Carrying,
         \A y \in Procs \ {x} : proc'[y] = proc[y],
         proc'[x].pc \notin Carrying, proc'[x].hs = {},
         UNCHANGED leaked, live' = live \ {proc[x].h},
         \A p \in Pids : pages'[p].h = pages[p].h /\ pages'[p].sid = pages[p].sid
  PROVE  ViewInv'
  <1>1. Holds(x) = {proc[x].h} /\ Holds(x)' = {}
    BY HoldsBy, HoldsNext DEF ViewInv
  <1>2. \A y \in Procs \ {x} : Holds(y)' = Holds(y)
    BY HoldsNext
  <1>3. HeldInv' /\ ViewsMatchPages'
    BY <1>1, <1>2, LetsViewsGo, {proc[x].h} \in SUBSET Holds(x)
  <1>4. HandleInv'
    BY DEF ViewInv, HandleInv
  <1> QED BY <1>3, <1>4 DEF ViewInv

(* A call takes the view of one page, if the page has one.                  *)
LEMMA ViewTaken ==
  ASSUME TypeOK, ViewInv, NEW x \in Procs, NEW p \in Pids,
         proc[x].pc \notin Carrying \cup {"close_views"},
         \A y \in Procs \ {x} : proc'[y] = proc[y],
         proc'[x].pc \in Carrying, proc'[x].hs = {}, proc'[x].h = pages[p].h,
         UNCHANGED <<live, leaked>>,
         pages'[p].h = 0,
         \A q \in Pids \ {p} : pages'[q] = pages[q]
  PROVE  ViewInv'
  <1>1. Holds(x) = {} /\ Holds(x)' = {pages[p].h}
    BY HoldsBy, HoldsNext DEF ViewInv
  <1>2. \A y \in Procs \ {x} : Holds(y)' = Holds(y)
    BY HoldsNext
  <1>3. Holds(x)' \ {0} = {pages[q].h : q \in {p}} \ {0}
    BY <1>1
  <1>4. HeldInv' /\ ViewsMatchPages'
    BY <1>1, <1>2, <1>3, TakesViews, {p} \in SUBSET Pids
  <1>5. HandleInv'
    BY DEF ViewInv, HandleInv
  <1> QED BY <1>4, <1>5 DEF ViewInv

(* Every step keeps the owners of the views.                                *)
LEMMA ViewStep == TypeOK /\ CallInv /\ BackInv /\ ViewInv /\ [Next]_vars => ViewInv'
  <1> SUFFICES ASSUME TypeOK, CallInv, BackInv, ViewInv, [Next]_vars PROVE ViewInv'
    OBVIOUS
  <1> USE DEF mapVars, engineVars, storeVars, histVars, countVars
  <1>1. \A y \in Procs : proc[y].pc # "close_views" => proc[y].hs = {}
    BY DEF ViewInv, HandleInv
  <1>2. \A y \in Procs, l \in Labels : Goto(y, l) =>
          /\ \A z \in Procs \ {y} : proc'[z] = proc[z]
          /\ proc'[y].pc = l /\ proc'[y].hs = proc[y].hs /\ proc'[y].h = proc[y].h
    BY Going1
  <1>3. \A y \in Procs : Finish(y) =>
          /\ \A z \in Procs \ {y} : proc'[z] = proc[z]
          /\ proc'[y].pc = "idle" /\ proc'[y].hs = {}
    BY Finished
  <1>4. ASSUME NEW x \in Procs, Begin(x) PROVE ViewInv'
    <2>1. PICK r \in Starts : proc' = [proc EXCEPT ![x] = r]
      BY <1>4, BeginStarts
    <2>2. /\ \A y \in Procs \ {x} : proc'[y] = proc[y]
          /\ proc'[x].pc \notin Carrying /\ proc'[x].hs = {}
      BY <2>1 DEF Starts, Carrying, TypeOK
    <2> QED BY <1>4, <2>2, HoldsNoView DEF Begin, Carrying
  <1>5. ASSUME NEW x \in Procs, CreateSession(x) PROVE ViewInv'
    <2>1. UNCHANGED <<pages, live, leaked>> /\ proc[x].pc \notin Carrying \cup {"close_views"}
      BY <1>5 DEF CreateSession, Carrying
    <2>2. /\ \A y \in Procs \ {x} : proc'[y] = proc[y]
          /\ proc'[x].pc \notin Carrying /\ proc'[x].hs = {}
      BY <1>1, <1>3, <1>5 DEF CreateSession, Carrying, TypeOK, CallStates
    <2> QED BY <2>1, <2>2, HoldsNoView
  <1>6. ASSUME NEW x \in Procs, InsertSession(x) PROVE ViewInv'
    <2>1. UNCHANGED <<pages, live, leaked>> /\ proc[x].pc \notin Carrying \cup {"close_views"}
      BY <1>6 DEF InsertSession, Carrying
    <2>2. /\ \A y \in Procs \ {x} : proc'[y] = proc[y]
          /\ proc'[x].pc \notin Carrying /\ proc'[x].hs = {}
      BY <1>1, <1>2, <1>3, <1>6, LabelTypes DEF InsertSession, Carrying
    <2> QED BY <2>1, <2>2, HoldsNoView
  <1>7. ASSUME NEW x \in Procs, CloseRows(x) PROVE ViewInv'
    <2>1. UNCHANGED <<pages, live, leaked>> /\ proc[x].pc \notin Carrying \cup {"close_views"}
      BY <1>7 DEF CloseRows, Carrying
    <2>2. /\ \A y \in Procs \ {x} : proc'[y] = proc[y]
          /\ proc'[x].pc \notin Carrying /\ proc'[x].hs = {}
      BY <1>1, <1>2, <1>3, <1>7, LabelTypes DEF CloseRows, Carrying
    <2> QED BY <2>1, <2>2, HoldsNoView
  <1>8. ASSUME NEW x \in Procs, Require(x) PROVE ViewInv'
    <2>1. UNCHANGED <<pages, live, leaked>> /\ proc[x].pc \notin Carrying \cup {"close_views"}
      BY <1>8 DEF Require, Carrying
    <2>2. /\ \A y \in Procs \ {x} : proc'[y] = proc[y]
          /\ proc'[x].pc \notin Carrying /\ proc'[x].hs = {}
      BY <1>1, <1>2, <1>3, <1>8, LabelTypes DEF Require, Carrying
    <2> QED BY <2>1, <2>2, HoldsNoView
  <1>9. ASSUME NEW x \in Procs, CloseRow(x) PROVE ViewInv'
    <2>1. UNCHANGED <<pages, live, leaked>> /\ proc[x].pc \notin Carrying \cup {"close_views"}
      BY <1>9 DEF CloseRow, Carrying
    <2>2. /\ \A y \in Procs \ {x} : proc'[y] = proc[y]
          /\ proc'[x].pc \notin Carrying /\ proc'[x].hs = {}
      BY <1>1, <1>2, <1>3, <1>9, LabelTypes DEF CloseRow, Carrying
    <2> QED BY <2>1, <2>2, HoldsNoView
  <1>10. ASSUME NEW x \in Procs, HandleFor(x) PROVE ViewInv'
    <2>1. UNCHANGED <<pages, live, leaked>> /\ proc[x].pc \notin Carrying \cup {"close_views"}
      BY <1>10 DEF HandleFor, Carrying
    <2>2. /\ \A y \in Procs \ {x} : proc'[y] = proc[y]
          /\ proc'[x].pc \notin Carrying /\ proc'[x].hs = {}
      BY <1>1, <1>3, <1>10 DEF HandleFor, Carrying, TypeOK, CallStates
    <2> QED BY <2>1, <2>2, HoldsNoView
  <1>11. ASSUME NEW x \in Procs, Call(x) PROVE ViewInv'
    <2>1. UNCHANGED <<pages, live, leaked>> /\ proc[x].pc \notin Carrying \cup {"close_views"}
      BY <1>11 DEF Call, Carrying
    <2>2. /\ \A y \in Procs \ {x} : proc'[y] = proc[y]
          /\ proc'[x].pc \notin Carrying /\ proc'[x].hs = {}
      BY <1>1, <1>2, <1>3, <1>11, LabelTypes DEF Call, Carrying
    <2> QED BY <2>1, <2>2, HoldsNoView
  <1>12. ASSUME NEW x \in Procs, UpdateRow(x) PROVE ViewInv'
    <2>1. UNCHANGED <<pages, live, leaked>> /\ proc[x].pc \notin Carrying \cup {"close_views"}
      BY <1>12 DEF UpdateRow, Carrying
    <2>2. /\ \A y \in Procs \ {x} : proc'[y] = proc[y]
          /\ proc'[x].pc \notin Carrying /\ proc'[x].hs = {}
      BY <1>1, <1>2, <1>3, <1>12, LabelTypes DEF UpdateRow, Carrying
    <2> QED BY <2>1, <2>2, HoldsNoView
  <1>13. ASSUME NEW x \in Procs, NextTarget(x) PROVE ViewInv'
    <2>1. /\ UNCHANGED <<pages, live, leaked>>
          /\ proc[x].pc \notin Carrying \cup {"close_views"} /\ proc[x].hs = {}
      BY <1>1, <1>13 DEF NextTarget, Carrying
    <2>2. \/ Finish(x)
          \/ \E s \in Sids : proc' = [proc EXCEPT ![x].pc = "remove", ![x].sid = s,
                                                ![x].targets = @ \ {s}]
      BY <1>13 DEF NextTarget, TypeOK, CallStates
    <2>3. /\ \A y \in Procs \ {x} : proc'[y] = proc[y]
          /\ proc'[x].pc \notin Carrying /\ proc'[x].hs = {}
      <3>1. CASE Finish(x)
        BY <1>3, <3>1 DEF Carrying
      <3>2. ASSUME NEW s \in Sids,
                   proc' = [proc EXCEPT ![x].pc = "remove", ![x].sid = s,
                                        ![x].targets = @ \ {s}]
            PROVE  /\ \A y \in Procs \ {x} : proc'[y] = proc[y]
                   /\ proc'[x].pc \notin Carrying /\ proc'[x].hs = {}
        BY <2>1, <3>2 DEF Carrying, TypeOK, CallStates
      <3> QED BY <2>2, <3>1, <3>2
    <2> QED BY <2>1, <2>3, HoldsNoView
  <1>14. ASSUME NEW x \in Procs, CreatePage(x) \/ FirstSnapshot(x) PROVE ViewInv'
    <2>1. /\ UNCHANGED <<pages, live, leaked>>
          /\ proc[x].pc \in Carrying
          /\ Goto(x, "snapshot") \/ Goto(x, "insert_page")
      BY <1>14 DEF CreatePage, FirstSnapshot, Carrying
    <2>2. Holds(x) = {proc[x].h} /\ proc[x].hs = {}
      BY <1>1, <2>1, HoldsBy DEF ViewInv, Carrying
    <2>3. /\ \A y \in Procs \ {x} : proc'[y] = proc[y]
          /\ proc'[x].pc \in Carrying /\ proc'[x].hs = {} /\ proc'[x].h = proc[x].h
      BY <1>2, <2>1, <2>2, LabelTypes DEF Carrying
    <2> QED BY <2>1, <2>2, <2>3, KeepsViews
  <1>15. ASSUME NEW x \in Procs, NEW S, Fail(x, S), UNCHANGED <<pages, live>>,
               proc[x].pc # "close_views", proc[x].pc \in Carrying => S = {proc[x].h}
        PROVE  ViewInv'
    <2>1. proc[x].pc \in Carrying => Holds(x) = {proc[x].h}
      BY HoldsBy DEF ViewInv
    <2>2. proc[x].pc \notin Carrying => Holds(x) = {}
      BY <1>15, HoldsBy DEF ViewInv
    <2>3. Finish(x) /\ leaked' = leaked \cup S
      BY <1>15 DEF Fail
    <2>4. /\ \A y \in Procs \ {x} : proc'[y] = proc[y]
          /\ proc'[x].pc \notin Carrying /\ proc'[x].hs = {}
      BY <1>3, <2>3 DEF Carrying
    <2>5. Holds(x) \subseteq leaked' /\ leaked \subseteq leaked'
      BY <1>15, <2>1, <2>2, <2>3
    <2> QED BY <1>15, <2>4, <2>5, KeepsViews
  <1>16. ASSUME NEW x \in Procs, EngineFault(x) PROVE ViewInv'
    <2>1. /\ Fail(x, IF proc[x].pc = "snapshot" THEN {proc[x].h} ELSE {})
          /\ UNCHANGED <<pages, live>>
          /\ proc[x].pc \in {"open", "reopen", "snapshot", "call"}
      BY <1>16 DEF EngineFault
    <2> QED BY <1>15, <2>1 DEF Carrying
  <1>17. ASSUME NEW x \in Procs, InsertPage(x) PROVE ViewInv'
    <2>1. proc[x].pc = "insert_page" /\ UNCHANGED live
      BY <1>17 DEF InsertPage
    <2>2. CASE proc[x].sid \notin sessions
      <3>1. Fail(x, {proc[x].h}) /\ UNCHANGED pages
        BY <1>17, <2>2 DEF InsertPage
      <3> QED BY <1>15, <2>1, <3>1
    <2>3. CASE proc[x].sid \in sessions
      <3> DEFINE p == proc[x].pid
      <3>1. p \in Pids /\ pages[p].sid = 0
        BY <2>1 DEF CallInv, OnPage, BackInv, PageInv, Opening
      <3>2. pages[p].h = 0 /\ 0 \notin sessions
        BY <3>1 DEF ViewInv, HandleInv, TypeOK, TypeMap, Sids
      <3>3. /\ pages' = [pages EXCEPT ![p] = [sid |-> proc[x].sid, h |-> proc[x].h]]
            /\ Finish(x) /\ UNCHANGED leaked
        BY <1>17, <2>3 DEF InsertPage
      <3>4. /\ pages'[p].h = proc[x].h /\ pages'[p].sid # 0
            /\ \A q \in Pids \ {p} : pages'[q] = pages[q]
        BY <2>3, <3>1, <3>2, <3>3 DEF TypeOK, TypeMap
      <3>5. /\ \A y \in Procs \ {x} : proc'[y] = proc[y]
            /\ proc'[x].pc \notin Carrying /\ proc'[x].hs = {}
        BY <1>3, <3>3 DEF Carrying
      <3>6. Holds(x) = {proc[x].h} /\ proc[x].pc \in Carrying
        BY <2>1, HoldsBy DEF ViewInv, Carrying
      <3>7. CASE proc[x].h = 0
        <4>1. \A q \in Pids : pages'[q].h = pages[q].h /\ (pages'[q].sid = 0 => pages[q].sid = 0)
          BY <3>1, <3>2, <3>4, <3>7
        <4> QED BY <2>1, <3>3, <3>5, <3>6, <3>7, <4>1, KeepsViews
      <3>8. CASE proc[x].h # 0
        <4> HIDE DEF p
        <4> QED BY <2>1, <3>1, <3>2, <3>3, <3>4, <3>5, <3>6, <3>8, ViewGiven
      <3> QED BY <3>7, <3>8
    <2> QED BY <2>2, <2>3
  <1>18. ASSUME NEW x \in Procs, RemovePage(x) PROVE ViewInv'
    <2>1. proc[x].pc = "close" /\ proc[x].hs = {} /\ UNCHANGED <<live, leaked>>
      BY <1>1, <1>18 DEF RemovePage
    <2>2. CASE ~InMap(x)
      <3>1. Finish(x) /\ UNCHANGED pages
        BY <1>18, <2>2 DEF RemovePage
      <3>2. /\ \A y \in Procs \ {x} : proc'[y] = proc[y]
            /\ proc'[x].pc \notin Carrying /\ proc'[x].hs = {}
        BY <1>3, <3>1 DEF Carrying
      <3> QED BY <2>1, <3>1, <3>2, HoldsNoView DEF Carrying
    <2>3. CASE InMap(x)
      <3> DEFINE p == proc[x].pid
      <3>1. /\ pages' = [pages EXCEPT ![p] = NoPage]
            /\ proc' = [proc EXCEPT ![x].pc = "close_view", ![x].h = pages[p].h]
        BY <1>18, <2>3 DEF RemovePage
      <3>2. p \in Pids
        BY <2>1 DEF CallInv, OnPage
      <3>3. pages'[p].h = 0 /\ \A q \in Pids \ {p} : pages'[q] = pages[q]
        BY <3>1, <3>2 DEF NoPage, TypeOK, TypeMap
      <3>4. /\ \A y \in Procs \ {x} : proc'[y] = proc[y]
            /\ proc'[x].pc \in Carrying /\ proc'[x].hs = {} /\ proc'[x].h = pages[p].h
        BY <2>1, <3>1 DEF Carrying, TypeOK, CallStates
      <3> HIDE DEF p
      <3> QED BY <2>1, <3>2, <3>3, <3>4, ViewTaken DEF Carrying
    <2> QED BY <2>2, <2>3
  <1>19. ASSUME NEW x \in Procs, CloseView(x) PROVE ViewInv'
    <2>1. /\ proc[x].pc \in Carrying /\ proc[x].hs = {} /\ live' = live \ {proc[x].h}
          /\ UNCHANGED <<pages, leaked>> /\ Goto(x, "close_row")
      BY <1>1, <1>19 DEF CloseView, Carrying
    <2>2. /\ \A y \in Procs \ {x} : proc'[y] = proc[y]
          /\ proc'[x].pc \notin Carrying /\ proc'[x].hs = {}
      BY <1>2, <2>1, LabelTypes DEF Carrying
    <2> QED BY <2>1, <2>2, ViewClosed
  <1>20. ASSUME NEW x \in Procs, Install(x) PROVE ViewInv'
    <2>1. proc[x].pc = "install" /\ proc[x].hs = {}
      BY <1>1, <1>20 DEF Install
    <2>2. CASE ~InMap(x)
      <3>1. Fail(x, {proc[x].h}) /\ UNCHANGED <<pages, live>>
        BY <1>20, <2>2 DEF Install
      <3> QED BY <1>15, <2>1, <3>1
    <2>3. CASE InMap(x)
      <3> DEFINE p == proc[x].pid
                 g == IF pages[p].h # 0 THEN pages[p].h ELSE proc[x].h
      <3>1. /\ proc' = [proc EXCEPT ![x].pc = "call", ![x].h = g]
            /\ live' = IF pages[p].h # 0 THEN live \ {proc[x].h} ELSE live
            /\ pages' = [pages EXCEPT ![p].h = proc'[x].h]
            /\ UNCHANGED leaked
        BY <1>20, <2>3 DEF Install
      <3>2. p \in Pids /\ pages[p].sid # 0
        BY <2>1, <2>3 DEF CallInv, OnPage, InMap, TypeOK, TypeMap, Sids
      <3>3. proc[x].pc \in Carrying
        BY <2>1 DEF Carrying
      <3> HIDE DEF g
      <3>4. /\ \A y \in Procs \ {x} : proc'[y] = proc[y]
            /\ proc'[x].pc \notin Carrying /\ proc'[x].hs = {} /\ proc'[x].h = g
        BY <2>1, <3>1 DEF Carrying, TypeOK, CallStates
      <3> HIDE DEF p
      <3>5. /\ pages'[p].h = g /\ pages'[p].sid = pages[p].sid
            /\ \A q \in Pids \ {p} : pages'[q] = pages[q]
        BY <3>1, <3>2, <3>4 DEF TypeOK, TypeMap
      <3>6. CASE pages[p].h # 0
        <4>1. g = pages[p].h /\ live' = live \ {proc[x].h}
          BY <3>1, <3>6 DEF g
        <4> QED BY <3>1, <3>2, <3>3, <3>4, <3>5, <4>1, ViewClosed
      <3>7. CASE pages[p].h = 0 /\ proc[x].h # 0
        <4>1. g = proc[x].h /\ live' = live
          BY <3>1, <3>7 DEF g
        <4> QED BY <3>1, <3>2, <3>3, <3>4, <3>5, <3>7, <4>1, ViewGiven
      <3>8. CASE pages[p].h = 0 /\ proc[x].h = 0
        <4>1. g = 0 /\ live' = live
          BY <3>1, <3>8 DEF g
        <4>2. Holds(x) = {0}
          BY <3>3, <3>8, HoldsBy DEF ViewInv
        <4>3. \A q \in Pids : /\ pages'[q].h = pages[q].h
                              /\ pages'[q].sid = 0 => pages[q].sid = 0
          BY <3>2, <3>5, <3>8, <4>1
        <4> QED BY <3>1, <3>4, <4>1, <4>2, <4>3, KeepsViews
      <3> QED BY <3>6, <3>7, <3>8
    <2> QED BY <2>2, <2>3
  <1>21. ASSUME ReapPlan PROVE ViewInv'
    <2>1. /\ UNCHANGED <<pages, live, leaked>>
          /\ proc[Reaper].pc \notin Carrying \cup {"close_views"} /\ Reaper \in Procs
      BY <1>21, ProcTypes DEF ReapPlan, Carrying
    <2>2. /\ \A y \in Procs \ {Reaper} : proc'[y] = proc[y]
          /\ proc'[Reaper].pc \notin Carrying /\ proc'[Reaper].hs = {}
      BY <1>21, <2>1 DEF ReapPlan, Carrying, Done, TypeOK
    <2> QED BY <2>1, <2>2, HoldsNoView
  <1>22. ASSUME ReapPage PROVE ViewInv'
    <2>1. /\ proc[Reaper].pc = "dormant" /\ proc[Reaper].hs = {} /\ Reaper \in Procs
          /\ UNCHANGED <<live, leaked>>
      BY <1>1, <1>22, ProcTypes DEF ReapPage
    <2>2. CASE proc[Reaper].dormant = {}
      <3>1. Goto(Reaper, "targets") /\ UNCHANGED pages
        BY <1>22, <2>2 DEF ReapPage
      <3>2. /\ \A y \in Procs \ {Reaper} : proc'[y] = proc[y]
            /\ proc'[Reaper].pc \notin Carrying /\ proc'[Reaper].hs = {}
        BY <1>2, <2>1, <3>1, LabelTypes DEF Carrying
      <3> QED BY <2>1, <3>1, <3>2, HoldsNoView DEF Carrying
    <2>3. CASE proc[Reaper].dormant # {}
      <3>1. PICK p \in proc[Reaper].dormant :
              /\ pages' = [pages EXCEPT ![p].h = 0]
              /\ proc' = [proc EXCEPT ![Reaper].pc = "close_dormant", ![Reaper].h = pages[p].h,
                                      ![Reaper].dormant = @ \ {p}]
        BY <1>22, <2>3 DEF ReapPage
      <3>2. p \in Pids
        BY <2>1 DEF TypeOK, CallStates
      <3>3. pages'[p].h = 0 /\ \A q \in Pids \ {p} : pages'[q] = pages[q]
        BY <3>1, <3>2 DEF TypeOK, TypeMap
      <3>4. /\ \A y \in Procs \ {Reaper} : proc'[y] = proc[y]
            /\ proc'[Reaper].pc \in Carrying /\ proc'[Reaper].hs = {}
            /\ proc'[Reaper].h = pages[p].h
        BY <2>1, <3>1 DEF Carrying, TypeOK, CallStates
      <3> QED BY <2>1, <3>2, <3>3, <3>4, ViewTaken DEF Carrying
    <2> QED BY <2>2, <2>3
  <1>23. ASSUME CloseDormant PROVE ViewInv'
    <2>1. /\ Reaper \in Procs /\ proc[Reaper].pc \in Carrying /\ proc[Reaper].hs = {}
          /\ live' = live \ {proc[Reaper].h} /\ UNCHANGED <<pages, leaked>>
      BY <1>1, <1>23, ProcTypes DEF CloseDormant, Carrying
    <2>2. /\ \A y \in Procs \ {Reaper} : proc'[y] = proc[y]
          /\ proc'[Reaper].pc \notin Carrying /\ proc'[Reaper].hs = {}
      BY <1>23, <2>1 DEF CloseDormant, Carrying, TypeOK, CallStates
    <2> QED BY <2>1, <2>2, ViewClosed
  <1>24. ASSUME UNCHANGED <<pages, live, leaked, proc>> PROVE ViewInv'
    BY <1>24 DEF ViewInv, HandleInv, HeldInv, Holds, ViewsMatchPages, ViewsAccountedFor,
             ViewsDistinct
  <1>25. CASE Tick
    BY <1>24, <1>25 DEF Tick
  <1>26. CASE UNCHANGED vars
    BY <1>24, <1>26 DEF vars
  <1> QED
    BY <1>4, <1>5, <1>6, <1>7, <1>8, <1>9, <1>10, <1>11, <1>12, <1>13, <1>14, <1>16, <1>17, <1>18, <1>19, <1>20, <1>21, <1>22, <1>23, <1>25, <1>26,
       ProcTypes, ViewRemoveSession, ViewCloseViews, ViewOpened, ViewCrash
    DEF Next, CallStep, ReaperStep, Rest

(* Web views and the map agree, whatever calls, sweeps and crashes do: every *)
(* view has an owner, and every handle in the map its own open view.         *)
THEOREM ViewsAndPagesMatch == Spec => []ViewsMatchPages
  <1>1. Init => TypeOK /\ CallInv /\ BackInv /\ ViewInv
    BY InitType, BackInit, ViewInit
  <1>2. TypeOK /\ CallInv /\ BackInv /\ ViewInv /\ [Next]_vars
          => (TypeOK /\ CallInv /\ BackInv /\ ViewInv)'
    BY TypeStep, BackStep, ViewStep
  <1>3. ViewInv => ViewsMatchPages
    BY DEF ViewInv
  <1> QED BY <1>1, <1>2, <1>3, PTL DEF Spec

-----------------------------------------------------------------------------
(* What a client was told of.                                               *)

(* A page leaves the map only into "ended".                                 *)
LEMMA ToldStep ==
  TypeOK /\ CallInv /\ BackInv /\ ToldPageKept /\ [Next]_vars => ToldPageKept'
  <1> SUFFICES ASSUME TypeOK, CallInv, BackInv, ToldPageKept, [Next]_vars PROVE ToldPageKept'
    OBVIOUS
  <1> USE DEF mapVars, engineVars, storeVars, histVars, countVars
  <1>1. ASSUME \A p \in Pids : pages'[p].sid = 0 => pages[p].sid = 0,
               UNCHANGED <<told, ended>>
        PROVE  ToldPageKept'
    BY <1>1 DEF ToldPageKept
  <1>2. ASSUME NEW x \in Procs, InsertSession(x) PROVE ToldPageKept'
    BY <1>2 DEF InsertSession, ToldPageKept, Ids
  <1>3. ASSUME NEW x \in Procs, RemoveSession(x) PROVE ToldPageKept'
    <2>1. CASE proc[x].sid \notin sessions
      BY <1>1, <1>3, <2>1 DEF RemoveSession
    <2>2. CASE proc[x].sid \in sessions
      <3>1. /\ pages' = [p \in Pids |-> IF p \in Pages(proc[x].sid) THEN NoPage ELSE pages[p]]
            /\ ended' = ended \cup Ids({proc[x].sid}, Pages(proc[x].sid))
            /\ told' = told
        BY <1>3, <2>2 DEF RemoveSession
      <3>2. \A p \in Pages(proc[x].sid) : <<"p", p>> \in ended'
        BY <3>1 DEF Ids
      <3> QED BY <3>1, <3>2 DEF ToldPageKept
    <2> QED BY <2>1, <2>2
  <1>4. ASSUME NEW x \in Procs, InsertPage(x) PROVE ToldPageKept'
    <2>1. CASE proc[x].sid \notin sessions
      BY <1>1, <1>4, <2>1 DEF InsertPage, Fail
    <2>2. CASE proc[x].sid \in sessions
      <3>1. /\ pages' = [pages EXCEPT ![proc[x].pid] = [sid |-> proc[x].sid, h |-> proc[x].h]]
            /\ told' = told \cup Ids({}, {proc[x].pid}) /\ ended' = ended
        BY <1>4, <2>2 DEF InsertPage
      <3>2. \A p \in Pids : <<"p", p>> \in told' => <<"p", p>> \in told \/ p = proc[x].pid
        BY <3>1 DEF Ids
      <3>3. proc[x].sid # 0
        BY <2>2 DEF TypeOK, TypeMap, Sids
      <3>4. pages'[proc[x].pid].sid # 0 \/ proc[x].pid \notin Pids
        BY <3>1, <3>3 DEF TypeOK, TypeMap
      <3>5. \A p \in Pids \ {proc[x].pid} : pages'[p] = pages[p]
        BY <3>1 DEF TypeOK, TypeMap
      <3> QED BY <3>1, <3>2, <3>4, <3>5 DEF ToldPageKept
    <2> QED BY <2>1, <2>2
  <1>5. ASSUME NEW x \in Procs, RemovePage(x) PROVE ToldPageKept'
    <2>1. CASE ~InMap(x)
      BY <1>1, <1>5, <2>1 DEF RemovePage
    <2>2. CASE InMap(x)
      <3>1. /\ pages' = [pages EXCEPT ![proc[x].pid] = NoPage]
            /\ ended' = ended \cup Ids({}, {proc[x].pid}) /\ told' = told
        BY <1>5, <2>2 DEF RemovePage
      <3>2. <<"p", proc[x].pid>> \in ended'
        BY <3>1 DEF Ids
      <3>3. \A p \in Pids \ {proc[x].pid} : pages'[p] = pages[p]
        BY <3>1 DEF TypeOK, TypeMap
      <3> QED BY <3>1, <3>2, <3>3 DEF ToldPageKept
    <2> QED BY <2>1, <2>2
  <1>6. ASSUME NEW x \in Procs, Install(x) PROVE ToldPageKept'
    <2>1. \A p \in Pids : pages'[p].sid = pages[p].sid
      BY <1>6 DEF Install, TypeOK, TypeMap
    <2>2. UNCHANGED <<told, ended>>
      BY <1>6 DEF Install, Fail
    <2> QED BY <1>1, <2>1, <2>2
  <1>7. ASSUME ReapPage PROVE ToldPageKept'
    <2>1. pages' = pages \/ \E p : pages' = [pages EXCEPT ![p].h = 0]
      BY <1>7 DEF ReapPage
    <2>2. \A p \in Pids : pages'[p].sid = pages[p].sid
      BY <2>1 DEF TypeOK, TypeMap
    <2> QED BY <1>1, <1>7, <2>2 DEF ReapPage
  <1>8. ASSUME CrashRestart PROVE ToldPageKept'
    <2> SUFFICES ASSUME NEW p \in Pids, <<"p", p>> \in told', <<"p", p>> \notin ended'
                 PROVE  pages'[p].sid # 0
      BY DEF ToldPageKept
    <2>1. told' = told /\ ended \subseteq ended'
      BY <1>8 DEF CrashRestart
    <2>2. pages[p].sid # 0 /\ pseen[p] < 2
      <3>1. pages[p].sid # 0
        BY <2>1 DEF ToldPageKept
      <3>2. pseen[p] = 2 => <<"p", p>> \in ended'
        BY <1>8, <3>1 DEF CrashRestart, Ids
      <3> QED BY <3>1, <3>2 DEF TypeOK, TypeStore
    <2>3. /\ pages[p].sid \in sessions
          /\ prow[p] = [sid |-> pages[p].sid, st |-> "open"]
      BY <2>2 DEF BackInv, MemoryBacked
    <2>4. p \in Recent(pages[p].sid) /\ prow[p].sid = pages[p].sid
      BY <2>2, <2>3 DEF Recent
    <2>5. pages[p].sid \in Sids /\ srow[pages[p].sid] = "open"
      BY <2>3 DEF TypeOK, TypeMap, BackInv, MemoryBacked
    <2>6. pages'[p] = [sid |-> prow[p].sid, h |-> 0]
      BY <1>8, <2>4, <2>5 DEF CrashRestart
    <2> QED BY <2>2, <2>4, <2>6
  <1>9. CASE UNCHANGED <<pages, told, ended>>
    BY <1>1, <1>9
  <1>10. ASSUME NEW x \in Procs,
                \/ Begin(x) \/ EngineFault(x) \/ CreateSession(x) \/ NextTarget(x)
                \/ CloseViews(x) \/ CloseRows(x) \/ Require(x) \/ EngineOpen(x)
                \/ CreatePage(x) \/ FirstSnapshot(x) \/ CloseView(x) \/ CloseRow(x)
                \/ HandleFor(x) \/ Reopen(x) \/ Call(x) \/ UpdateRow(x)
         PROVE  UNCHANGED <<pages, told, ended>>
    BY <1>10
    DEF Begin, EngineFault, Fail, CreateSession, NextTarget, CloseViews, CloseRows, Require,
        EngineOpen, CreatePage, FirstSnapshot, CloseView, CloseRow, HandleFor, Reopen, Call,
        UpdateRow
  <1>11. CASE ReapPlan \/ CloseDormant \/ Tick \/ UNCHANGED vars
    BY <1>9, <1>11 DEF ReapPlan, CloseDormant, Tick, vars
  <1> QED
    BY <1>2, <1>3, <1>4, <1>5, <1>6, <1>7, <1>8, <1>9, <1>10, <1>11, ProcTypes
    DEF Next, CallStep, ReaperStep, Rest

(* A page a client was answered with stays addressable, crash or not, until *)
(* it or its session is closed, or a restart finds it unused for a day.     *)
THEOREM ToldPagesAreKept == Spec => []ToldPageKept
  <1>1. Init => TypeOK /\ CallInv /\ BackInv /\ ToldPageKept
    BY InitType, BackInit DEF Init, ToldPageKept
  <1>2. TypeOK /\ CallInv /\ BackInv /\ ToldPageKept /\ [Next]_vars
          => (TypeOK /\ CallInv /\ BackInv /\ ToldPageKept)'
    BY TypeStep, BackStep, ToldStep
  <1> QED BY <1>1, <1>2, PTL DEF Spec

=============================================================================
