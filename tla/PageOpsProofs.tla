---------------------------- MODULE PageOpsProofs ----------------------------
(***************************************************************************)
(* What holds of PageOps for any number of clients, trees, urls and calls. *)
(***************************************************************************)
EXTENDS PageOps, TLAPS

-----------------------------------------------------------------------------
(* Types.                                                                   *)

(* An arbitrary argument hash is one of the argument hashes.                *)
LEMMA AnyArgType == AnyArg \in Args
  BY SentinelAssumption DEF AnyArg

(* ZERO is a token, and so is the token of any tree at any url.             *)
LEMMA TokenTypes ==
  /\ ZERO \in Tokens
  /\ \A t \in Trees \cup {NoTree}, u \in Urls \cup {NoUrl} : compute(t, u) \in Tokens
  BY DEF ZERO, Tokens, compute

(* Handle 0, and a first one, fit the bound.                                *)
LEMMA HandleTypes == 0 \in Handles /\ 1 \in Handles
  BY BoundAssumption DEF Handles

(* The constant records have their types.                                   *)
LEMMA RecordTypes == NoReply \in Replies /\ NoLocals \in Locals
  BY TokenTypes, HandleTypes DEF NoReply, Replies, NoLocals, Locals

(* Where the calls go next is a label.                                      *)
LEMMA LabelTypes ==
  /\ \A op \in AllOps : /\ FirstStep(op) \in Labels
                        /\ AfterHandle(op) \in Labels
                        /\ AfterEngine(op) \in Labels
  /\ {"idle", "handle", "reopen", "install", "lookup", "engine", "snapshot", "poll",
      "apply", "rebase", "token", "store", "closing", "audit"} \subseteq Labels
  BY DEF FirstStep, AfterHandle, AfterEngine, Labels

(* An early return is well typed.                                           *)
LEMMA ReturnType ==
  ASSUME TypeOK, NEW c \in Clients, NEW tok \in Tokens,
         NEW kind \in {"none", "ok", "hit", "stale", "err"}, Return(c, kind, tok)
  PROVE  /\ pc' \in [Clients -> Labels]
         /\ reply' \in [Clients -> Replies]
         /\ mutate_lock' \in Clients \cup {NoClient}
  BY LabelTypes, RecordTypes
  DEF TypeOK, TypeCalls, TypePage, Return, Goto, Unlock, NoReply, Replies

(* What a call holds is well typed.                                         *)
LEMMA CallTypes ==
  ASSUME TypeOK, NEW c \in Clients
  PROVE  /\ req[c].op \in AllOps /\ req[c].arg \in Args /\ req[c].before \in Tokens
         /\ loc[c].id \in Nat /\ loc[c].h \in Handles /\ loc[c].chk \in Nat
         /\ loc[c].snap \in Trees \cup {NoTree}
         /\ web[loc[c].h] \in Trees \cup {NoTree}
  BY DEF TypeOK, TypeCalls, TypeEngine, AllRequests, Locals

(* A call's handle and snapshot may be replaced.                            *)
LEMMA LocTypes ==
  ASSUME TypeOK, NEW c \in Clients
  PROVE  /\ \A i \in Handles : [loc EXCEPT ![c].h = i] \in [Clients -> Locals]
         /\ \A t \in Trees : [loc EXCEPT ![c].snap = t] \in [Clients -> Locals]
  BY DEF TypeOK, TypeCalls, Locals

(* So may its count of polls.                                               *)
LEMMA PollType ==
  ASSUME TypeOK, NEW c \in Clients
  PROVE  [loc EXCEPT ![c].polls = @ + 1] \in [Clients -> Locals]
  BY DEF TypeOK, TypeCalls, Locals

(* What the engine did for a vs_act is recorded well typed.                 *)
LEMMA EffectType ==
  ASSUME TypeOK, NEW c \in Clients, NEW m \in BOOLEAN, NEW f \in BOOLEAN
  PROVE  [id |-> loc[c].id, epoch |-> loc[c].chk, arg |-> req[c].arg,
          before |-> req[c].before, saw |-> web[loc[c].h], failed |-> f,
          moved |-> m, ttl |-> TRUE] \in Effects
  BY CallTypes DEF Effects

(* What vs_open leaves behind is well typed.                                *)
LEMMA InitType == Init => TypeOK
  <1> SUFFICES ASSUME Init PROVE TypeOK
    OBVIOUS
  <1> USE HandleTypes, AnyArgType, TokenTypes, RecordTypes
  <1>1. TypePage
    BY DEF Init, TypePage
  <1>2. TypeEngine
    BY DEF Init, TypeEngine
  <1>3. TypeStore
    BY DEF Init, TypeStore
  <1>4. TypeCalls
    BY LabelTypes DEF Init, TypeCalls, AllRequests, AllOps
  <1>5. TypeAgents
    BY DEF Init, TypeAgents
  <1>6. TypeHistory
    <2>1. misordered \in BOOLEAN
      BY Zenon DEF Init
    <2> QED BY <2>1 DEF Init, TypeHistory
  <1> QED BY <1>1, <1>2, <1>3, <1>4, <1>5, <1>6 DEF TypeOK

(* Every step keeps the types.                                              *)
LEMMA TypeStep == TypeOK /\ [Next]_vars => TypeOK'
  <1> SUFFICES ASSUME TypeOK, [Next]_vars PROVE TypeOK'
    OBVIOUS
  <1>1. ASSUME NEW c \in Clients, Begin(c) PROVE TypeOK'
    <2>1. TypeCalls'
      <3>1. PICK r \in Requests(c) : /\ req' = [req EXCEPT ![c] = r]
                                     /\ Goto(c, FirstStep(r.op))
        BY <1>1 DEF Begin
      <3>2. r \in AllRequests
        BY <3>1, AnyArgType, TokenTypes, SentinelAssumption
        DEF Requests, AllRequests, TypeOK, TypeAgents, AllOps
      <3>3. r.op \in AllOps
        BY <3>2 DEF AllRequests
      <3>4. /\ pc' \in [Clients -> Labels]
            /\ req' \in [Clients -> AllRequests]
        BY <3>1, <3>2, <3>3, LabelTypes DEF Goto, TypeOK, TypeCalls
      <3>5. [NoLocals EXCEPT !.id = ncalls + 1] \in Locals
        BY RecordTypes DEF TypeOK, TypeHistory, NoLocals, Locals
      <3> QED BY <1>1, <3>4, <3>5, RecordTypes DEF Begin, TypeOK, TypeCalls
    <2>2. TypeHistory'
      BY <1>1 DEF TypeOK, Begin, TypeHistory, pageVars, engineVars, storeVars, callVars, agentVars, boundVars, histVars
    <2>3. TypePage' /\ TypeEngine' /\ TypeStore' /\ TypeAgents'
      BY <1>1 DEF TypeOK, Begin, TypePage, TypeEngine, TypeStore, TypeAgents, pageVars, engineVars, storeVars, callVars, agentVars, boundVars, histVars
    <2> QED BY <2>1, <2>2, <2>3 DEF TypeOK
  <1>2. ASSUME NEW c \in Clients, EngineHandleFor(c) PROVE TypeOK'
    <2>1. TypeCalls'
      BY <1>2, LabelTypes, CallTypes, LocTypes DEF TypeOK, EngineHandleFor, Goto, TypeCalls, TypePage
    <2>2. TypePage' /\ TypeEngine' /\ TypeStore' /\ TypeAgents' /\ TypeHistory'
      BY <1>2 DEF TypeOK, EngineHandleFor, TypePage, TypeEngine, TypeStore, TypeAgents, TypeHistory, pageVars, engineVars, storeVars, callVars, agentVars, boundVars, histVars
    <2> QED BY <2>1, <2>2 DEF TypeOK
  <1>3. ASSUME NEW c \in Clients, Reopen(c) PROVE TypeOK'
    <2>0. opened + 1 \in Handles
      BY <1>3, BoundAssumption DEF Reopen, TypeOK, TypeEngine, Handles
    <2>1. TypeEngine'
      BY <1>3, <2>0 DEF TypeOK, Reopen, TypeEngine, engineVars
    <2>2. TypeCalls'
      BY <1>3, <2>0, LabelTypes, LocTypes DEF TypeOK, Reopen, Goto, TypeCalls
    <2>3. TypePage' /\ TypeStore' /\ TypeAgents' /\ TypeHistory'
      BY <1>3 DEF TypeOK, Reopen, TypePage, TypeStore, TypeAgents, TypeHistory, pageVars, engineVars, storeVars, callVars, agentVars, boundVars, histVars
    <2> QED BY <2>1, <2>2, <2>3 DEF TypeOK
  <1>4. ASSUME NEW c \in Clients, Install(c) PROVE TypeOK'
    <2>1. TypePage'
      BY <1>4 DEF TypeOK, Install, TypePage, TypeCalls, Locals, pageVars, engineVars, storeVars, callVars, agentVars, boundVars, histVars
    <2>2. TypeEngine'
      BY <1>4 DEF TypeOK, Install, TypeEngine, pageVars, engineVars, storeVars, callVars, agentVars, boundVars, histVars
    <2>3. TypeCalls'
      BY <1>4, LabelTypes, CallTypes, LocTypes DEF TypeOK, Install, Goto, TypeCalls, TypePage
    <2>4. TypeStore' /\ TypeAgents' /\ TypeHistory'
      BY <1>4 DEF TypeOK, Install, TypeStore, TypeAgents, TypeHistory, pageVars, engineVars, storeVars, callVars, agentVars, boundVars, histVars
    <2> QED BY <2>1, <2>2, <2>3, <2>4 DEF TypeOK
  <1>5. ASSUME NEW c \in Clients, PageGone(c) PROVE TypeOK'
    <2>1. TypePage'
      BY <1>5, ReturnType, TokenTypes DEF TypeOK, PageGone, TypePage, pageVars, engineVars, storeVars, callVars, agentVars, boundVars, histVars
    <2>2. TypeCalls'
      BY <1>5, ReturnType, TokenTypes DEF TypeOK, PageGone, TypeCalls, pageVars, engineVars, storeVars, callVars, agentVars, boundVars, histVars
    <2>3. TypeEngine' /\ TypeStore' /\ TypeAgents' /\ TypeHistory'
      BY <1>5 DEF TypeOK, PageGone, TypeEngine, TypeStore, TypeAgents, TypeHistory, pageVars, engineVars, storeVars, callVars, agentVars, boundVars, histVars
    <2> QED BY <2>1, <2>2, <2>3 DEF TypeOK
  <1>6. ASSUME NEW c \in Clients, HandleGone(c) PROVE TypeOK'
    <2>1. TypePage'
      BY <1>6, ReturnType, TokenTypes DEF TypeOK, HandleGone, TypePage, pageVars, engineVars, storeVars, callVars, agentVars, boundVars, histVars
    <2>2. TypeCalls'
      BY <1>6, ReturnType, TokenTypes DEF TypeOK, HandleGone, TypeCalls, pageVars, engineVars, storeVars, callVars, agentVars, boundVars, histVars
    <2>3. TypeEngine' /\ TypeStore' /\ TypeAgents' /\ TypeHistory'
      BY <1>6 DEF TypeOK, HandleGone, TypeEngine, TypeStore, TypeAgents, TypeHistory, pageVars, engineVars, storeVars, callVars, agentVars, boundVars, histVars
    <2> QED BY <2>1, <2>2, <2>3 DEF TypeOK
  <1>7. ASSUME NEW c \in Clients, EngineFault(c) PROVE TypeOK'
    <2>1. TypePage'
      BY <1>7, ReturnType, TokenTypes DEF TypeOK, EngineFault, TypePage, pageVars, engineVars, storeVars, callVars, agentVars, boundVars, histVars
    <2>2. TypeEngine'
      BY <1>7 DEF TypeOK, EngineFault, TypeEngine, pageVars, engineVars, storeVars, callVars, agentVars, boundVars, histVars
    <2>3. TypeCalls'
      BY <1>7, ReturnType, TokenTypes DEF TypeOK, EngineFault, TypeCalls, pageVars, engineVars, storeVars, callVars, agentVars, boundVars, histVars
    <2>4. TypeHistory'
      <3>1. effects' \subseteq Effects
        <4> DEFINE m == web'[loc[c].h] # req[c].before[1]
        <4>1. m \in BOOLEAN
          OBVIOUS
        <4> HIDE DEF m
        <4>2. effects' \subseteq effects \cup
                {[id |-> loc[c].id, epoch |-> loc[c].chk, arg |-> req[c].arg,
                  before |-> req[c].before, saw |-> web[loc[c].h], failed |-> TRUE,
                  moved |-> m, ttl |-> TRUE]}
          BY <1>7 DEF EngineFault, m
        <4> QED BY <4>1, <4>2, EffectType DEF TypeOK, TypeHistory
      <3> QED BY <1>7, <3>1 DEF TypeOK, EngineFault, TypeHistory
    <2>5. TypeStore' /\ TypeAgents'
      BY <1>7 DEF TypeOK, EngineFault, TypeStore, TypeAgents, pageVars, engineVars, storeVars, callVars, agentVars, boundVars, histVars
    <2> QED BY <2>1, <2>2, <2>3, <2>4, <2>5 DEF TypeOK
  <1>8. ASSUME NEW c \in Clients, Snapshot(c) PROVE TypeOK'
    <2>1. TypeCalls'
      BY <1>8, LabelTypes DEF TypeOK, Snapshot, Goto, Locals, TypeCalls, TypeEngine, pageVars, engineVars, storeVars, callVars, agentVars, boundVars, histVars
    <2>2. TypePage' /\ TypeEngine' /\ TypeStore' /\ TypeAgents' /\ TypeHistory'
      BY <1>8 DEF TypeOK, Snapshot, TypePage, TypeEngine, TypeStore, TypeAgents, TypeHistory, pageVars, engineVars, storeVars, callVars, agentVars, boundVars, histVars
    <2> QED BY <2>1, <2>2 DEF TypeOK
  <1>9. ASSUME NEW c \in Clients, Apply(c) PROVE TypeOK'
    <2>1. TypePage'
      BY <1>9, TokenTypes DEF TypeOK, Apply, apply_snapshot, SetToken, TypePage, TypeCalls, Locals, pageVars, engineVars, storeVars, callVars, agentVars, boundVars, histVars
    <2>2. TypeCalls'
      BY <1>9, LabelTypes, TokenTypes DEF TypeOK, Apply, Goto, ViewForm, NoReply, Replies, Locals, TypeCalls, TypePage, pageVars, engineVars, storeVars, callVars, agentVars, boundVars, histVars
    <2>3. TypeHistory'
      BY <1>9 DEF TypeOK, Apply, apply_snapshot, SetToken, Published, TypeHistory, pageVars, engineVars, storeVars, callVars, agentVars, boundVars, histVars
    <2>4. TypeEngine' /\ TypeStore' /\ TypeAgents'
      BY <1>9 DEF TypeOK, Apply, TypeEngine, TypeStore, TypeAgents, pageVars, engineVars, storeVars, callVars, agentVars, boundVars, histVars
    <2> QED BY <2>1, <2>2, <2>3, <2>4 DEF TypeOK
  <1>10. ASSUME NEW c \in Clients, Store(c) PROVE TypeOK'
    <2>1. TypePage'
      BY <1>10 DEF TypeOK, Store, Unlock, TypePage, pageVars, engineVars, storeVars, callVars, agentVars, boundVars, histVars
    <2>2. TypeStore'
      BY <1>10 DEF TypeOK, Store, TypeStore, TypeCalls, Replies, AllRequests, pageVars, engineVars, storeVars, callVars, agentVars, boundVars, histVars
    <2>3. TypeCalls'
      BY <1>10, LabelTypes DEF TypeOK, Store, Goto, TypeCalls, pageVars, engineVars, storeVars, callVars, agentVars, boundVars, histVars
    <2>4. TypeEngine' /\ TypeAgents' /\ TypeHistory'
      BY <1>10 DEF TypeOK, Store, RowWritten, TypeEngine, TypeAgents, TypeHistory, pageVars, engineVars, storeVars, callVars, agentVars, boundVars, histVars
    <2> QED BY <2>1, <2>2, <2>3, <2>4 DEF TypeOK
  <1>11. ASSUME NEW c \in Clients, Audit(c) PROVE TypeOK'
    <2>1. TypeStore'
      BY <1>11 DEF TypeOK, Audit, TypeStore, TypeCalls, Replies, AllRequests, IdemKeys, pageVars, engineVars, storeVars, callVars, agentVars, boundVars, histVars
    <2>2. TypeCalls'
      BY <1>11, LabelTypes DEF TypeOK, Audit, Goto, TypeCalls, pageVars, engineVars, storeVars, callVars, agentVars, boundVars, histVars
    <2>3. TypeAgents'
      BY <1>11 DEF TypeOK, Audit, TypeAgents, TypeCalls, Replies, pageVars, engineVars, storeVars, callVars, agentVars, boundVars, histVars
    <2>4. TypePage' /\ TypeEngine' /\ TypeHistory'
      BY <1>11 DEF TypeOK, Audit, TypePage, TypeEngine, TypeHistory, pageVars, engineVars, storeVars, callVars, agentVars, boundVars, histVars
    <2> QED BY <2>1, <2>2, <2>3, <2>4 DEF TypeOK
  <1>12. ASSUME NEW c \in Clients, ActLock(c) PROVE TypeOK'
    <2>1. TypePage'
      BY <1>12 DEF TypeOK, ActLock, TypePage, pageVars, engineVars, storeVars, callVars, agentVars, boundVars, histVars
    <2>2. TypeCalls'
      BY <1>12, LabelTypes DEF TypeOK, ActLock, Goto, TypeCalls, pageVars, engineVars, storeVars, callVars, agentVars, boundVars, histVars
    <2>3. TypeEngine' /\ TypeStore' /\ TypeAgents' /\ TypeHistory'
      BY <1>12 DEF TypeOK, ActLock, TypeEngine, TypeStore, TypeAgents, TypeHistory, pageVars, engineVars, storeVars, callVars, agentVars, boundVars, histVars
    <2> QED BY <2>1, <2>2, <2>3 DEF TypeOK
  <1>13. ASSUME NEW c \in Clients, ActStale(c) PROVE TypeOK'
    <2>1. TypePage'
      BY <1>13, ReturnType DEF TypeOK, ActStale, TypePage, pageVars, engineVars, storeVars, callVars, agentVars, boundVars, histVars
    <2>2. TypeCalls'
      BY <1>13, ReturnType DEF TypeOK, ActStale, TypeCalls, TypePage, pageVars, engineVars, storeVars, callVars, agentVars, boundVars, histVars
    <2>3. TypeEngine' /\ TypeStore' /\ TypeAgents' /\ TypeHistory'
      BY <1>13 DEF TypeOK, ActStale, TypeEngine, TypeStore, TypeAgents, TypeHistory, pageVars, engineVars, storeVars, callVars, agentVars, boundVars, histVars
    <2> QED BY <2>1, <2>2, <2>3 DEF TypeOK
  <1>14. ASSUME NEW c \in Clients, ActHit(c) PROVE TypeOK'
    <2>1. TypePage'
      BY <1>14, ReturnType DEF TypeOK, ActHit, TypePage, TypeStore, IdemKeys, TypeCalls, AllRequests, pageVars, engineVars, storeVars, callVars, agentVars, boundVars, histVars
    <2>2. TypeCalls'
      BY <1>14, ReturnType DEF TypeOK, ActHit, TypeCalls, TypeStore, IdemKeys, AllRequests, pageVars, engineVars, storeVars, callVars, agentVars, boundVars, histVars
    <2>3. TypeEngine' /\ TypeStore' /\ TypeAgents' /\ TypeHistory'
      BY <1>14 DEF TypeOK, ActHit, TypeEngine, TypeStore, TypeAgents, TypeHistory, pageVars, engineVars, storeVars, callVars, agentVars, boundVars, histVars
    <2> QED BY <2>1, <2>2, <2>3 DEF TypeOK
  <1>15. ASSUME NEW c \in Clients, ActPass(c) PROVE TypeOK'
    <2>1. TypeCalls'
      BY <1>15, LabelTypes DEF TypeOK, ActPass, Goto, Locals, TypeCalls, TypeHistory, pageVars, engineVars, storeVars, callVars, agentVars, boundVars, histVars
    <2>2. TypePage' /\ TypeEngine' /\ TypeStore' /\ TypeAgents' /\ TypeHistory'
      BY <1>15 DEF TypeOK, ActPass, TypePage, TypeEngine, TypeStore, TypeAgents, TypeHistory, pageVars, engineVars, storeVars, callVars, agentVars, boundVars, histVars
    <2> QED BY <2>1, <2>2 DEF TypeOK
  <1>32. ASSUME NEW c \in Clients, ActCheck(c) PROVE TypeOK'
    <2>1. TypeCalls'
      BY <1>32, LabelTypes DEF TypeOK, ActCheck, Goto, Locals, TypeCalls, TypeHistory, pageVars, engineVars, storeVars, callVars, agentVars, boundVars, histVars
    <2>2. TypePage' /\ TypeEngine' /\ TypeStore' /\ TypeAgents' /\ TypeHistory'
      BY <1>32 DEF TypeOK, ActCheck, TypePage, TypeEngine, TypeStore, TypeAgents, TypeHistory, pageVars, engineVars, storeVars, callVars, agentVars, boundVars, histVars
    <2> QED BY <2>1, <2>2 DEF TypeOK
  <1>16. ASSUME NEW c \in Clients, ActEngine(c) PROVE TypeOK'
    <2>1. TypeEngine'
      <3>1. PICK t \in Trees : web' = [web EXCEPT ![loc[c].h] = t]
        BY <1>16 DEF ActEngine
      <3>2. web' \in [Handles -> Trees \cup {NoTree}]
        BY <3>1 DEF TypeOK, TypeEngine
      <3>3. UNCHANGED <<opened, reaper>>
        BY <1>16 DEF ActEngine
      <3> QED BY <3>2, <3>3 DEF TypeOK, TypeEngine
    <2>2. TypeCalls'
      BY <1>16, LabelTypes, LocTypes DEF TypeOK, ActEngine, Goto, TypeCalls
    <2>3. TypeHistory'
      <3>1. PICK t \in Trees : effects' = effects \cup
              {[id |-> loc[c].id, epoch |-> loc[c].chk, arg |-> req[c].arg,
                before |-> req[c].before, saw |-> web[loc[c].h],
                failed |-> FALSE, moved |-> t # req[c].before[1], ttl |-> TRUE]}
        BY <1>16 DEF ActEngine
      <3>2. effects' \subseteq Effects
        <4>1. (t # req[c].before[1]) \in BOOLEAN
          OBVIOUS
        <4> QED BY <3>1, <4>1, EffectType DEF TypeOK, TypeHistory
      <3> QED BY <1>16, <3>2 DEF TypeOK, ActEngine, TypeHistory, boundVars
    <2>4. TypePage' /\ TypeStore' /\ TypeAgents'
      BY <1>16 DEF TypeOK, ActEngine, TypePage, TypeStore, TypeAgents, pageVars, engineVars, storeVars, callVars, agentVars, boundVars, histVars
    <2> QED BY <2>1, <2>2, <2>3, <2>4 DEF TypeOK
  <1>17. ASSUME NEW c \in Clients, EngineOp(c) PROVE TypeOK'
    <2>1. TypeEngine'
      BY <1>17 DEF TypeOK, EngineOp, TypeEngine, pageVars, engineVars, storeVars, callVars, agentVars, boundVars, histVars
    <2>2. TypeCalls'
      BY <1>17, LabelTypes DEF TypeOK, EngineOp, Goto, TypeCalls, AllRequests, pageVars, engineVars, storeVars, callVars, agentVars, boundVars, histVars
    <2>3. TypePage' /\ TypeStore' /\ TypeAgents' /\ TypeHistory'
      BY <1>17 DEF TypeOK, EngineOp, TypePage, TypeStore, TypeAgents, TypeHistory, pageVars, engineVars, storeVars, callVars, agentVars, boundVars, histVars
    <2> QED BY <2>1, <2>2, <2>3 DEF TypeOK
  <1>18. ASSUME NEW c \in Clients, InvalidateBaseline(c) PROVE TypeOK'
    <2>1. TypePage'
      BY <1>18 DEF TypeOK, InvalidateBaseline, TypePage, pageVars, engineVars, storeVars, callVars, agentVars, boundVars, histVars
    <2>2. TypeCalls'
      BY <1>18, LabelTypes DEF TypeOK, InvalidateBaseline, Goto, TypeCalls, pageVars, engineVars, storeVars, callVars, agentVars, boundVars, histVars
    <2>3. TypeEngine' /\ TypeStore' /\ TypeAgents' /\ TypeHistory'
      BY <1>18 DEF TypeOK, InvalidateBaseline, TypeEngine, TypeStore, TypeAgents, TypeHistory, pageVars, engineVars, storeVars, callVars, agentVars, boundVars, histVars
    <2> QED BY <2>1, <2>2, <2>3 DEF TypeOK
  <1>19. ASSUME NEW c \in Clients, CurrentToken(c) PROVE TypeOK'
    <2>1. TypePage'
      BY <1>19, ReturnType DEF TypeOK, CurrentToken, TypePage, pageVars, engineVars, storeVars, callVars, agentVars, boundVars, histVars
    <2>2. TypeCalls'
      BY <1>19, ReturnType DEF TypeOK, CurrentToken, TypeCalls, TypePage, pageVars, engineVars, storeVars, callVars, agentVars, boundVars, histVars
    <2>3. TypeEngine' /\ TypeStore' /\ TypeAgents' /\ TypeHistory'
      BY <1>19 DEF TypeOK, CurrentToken, TypeEngine, TypeStore, TypeAgents, TypeHistory, pageVars, engineVars, storeVars, callVars, agentVars, boundVars, histVars
    <2> QED BY <2>1, <2>2, <2>3 DEF TypeOK
  <1>20. ASSUME NEW c \in Clients, Rebase(c) PROVE TypeOK'
    <2>1. TypePage'
      BY <1>20, TokenTypes DEF TypeOK, Rebase, SetToken, TypePage, TypeCalls, Locals, AllRequests, pageVars, engineVars, storeVars, callVars, agentVars, boundVars, histVars
    <2>2. TypeCalls'
      BY <1>20, LabelTypes, TokenTypes DEF TypeOK, Rebase, SetToken, Goto, NoReply, Replies, Locals, AllRequests, TypeCalls, TypePage, pageVars, engineVars, storeVars, callVars, agentVars, boundVars, histVars
    <2>3. TypeHistory'
      BY <1>20 DEF TypeOK, Rebase, SetToken, Published, TypeHistory, pageVars, engineVars, storeVars, callVars, agentVars, boundVars, histVars
    <2>4. TypeEngine' /\ TypeStore' /\ TypeAgents'
      BY <1>20 DEF TypeOK, Rebase, TypeEngine, TypeStore, TypeAgents, pageVars, engineVars, storeVars, callVars, agentVars, boundVars, histVars
    <2> QED BY <2>1, <2>2, <2>3, <2>4 DEF TypeOK
  <1>21. ASSUME NEW c \in Clients, Baseline(c) PROVE TypeOK'
    <2>1. TypeCalls'
      BY <1>21, LabelTypes DEF TypeOK, Baseline, Goto, Locals, TypeCalls, TypePage, pageVars, engineVars, storeVars, callVars, agentVars, boundVars, histVars
    <2>2. TypePage' /\ TypeEngine' /\ TypeStore' /\ TypeAgents' /\ TypeHistory'
      BY <1>21 DEF TypeOK, Baseline, TypePage, TypeEngine, TypeStore, TypeAgents, TypeHistory, pageVars, engineVars, storeVars, callVars, agentVars, boundVars, histVars
    <2> QED BY <2>1, <2>2 DEF TypeOK
  <1>22. ASSUME NEW c \in Clients, Poll(c) PROVE TypeOK'
    <2>1. TypeCalls'
      <3>1. loc' \in [Clients -> Locals]
        <4>1. web[loc[c].h] \in Trees
          BY <1>22, CallTypes DEF Poll
        <4>2. \/ loc' = [loc EXCEPT ![c].snap = web[loc[c].h]]
              \/ loc' = [loc EXCEPT ![c].polls = @ + 1]
          BY <1>22 DEF Poll
        <4>3. [loc EXCEPT ![c].snap = web[loc[c].h]] \in [Clients -> Locals]
          BY <4>1, LocTypes
        <4>4. [loc EXCEPT ![c].polls = @ + 1] \in [Clients -> Locals]
          BY PollType
        <4> QED BY <4>2, <4>3, <4>4, Zenon
      <3>2. pc' \in [Clients -> Labels]
        BY <1>22, LabelTypes DEF TypeOK, TypeCalls, Poll, Goto
      <3>3. req' = req /\ reply' = reply
        BY <1>22 DEF Poll
      <3> QED BY <3>1, <3>2, <3>3 DEF TypeOK, TypeCalls
    <2>2. TypePage' /\ TypeEngine' /\ TypeStore' /\ TypeAgents' /\ TypeHistory'
      BY <1>22 DEF TypeOK, Poll, TypePage, TypeEngine, TypeStore, TypeAgents, TypeHistory, pageVars, engineVars, storeVars, callVars, agentVars, boundVars, histVars
    <2> QED BY <2>1, <2>2 DEF TypeOK
  <1>23. ASSUME NEW c \in Clients, PollTimeout(c) PROVE TypeOK'
    <2>1. TypePage'
      BY <1>23, ReturnType, TokenTypes DEF TypeOK, PollTimeout, TypePage, pageVars, engineVars, storeVars, callVars, agentVars, boundVars, histVars
    <2>2. TypeCalls'
      BY <1>23, ReturnType, TokenTypes DEF TypeOK, PollTimeout, TypeCalls, pageVars, engineVars, storeVars, callVars, agentVars, boundVars, histVars
    <2>3. TypeEngine' /\ TypeStore' /\ TypeAgents' /\ TypeHistory'
      BY <1>23 DEF TypeOK, PollTimeout, TypeEngine, TypeStore, TypeAgents, TypeHistory, pageVars, engineVars, storeVars, callVars, agentVars, boundVars, histVars
    <2> QED BY <2>1, <2>2, <2>3 DEF TypeOK
  <1>24. ASSUME NEW c \in Clients, CloseRemove(c) PROVE TypeOK'
    <2>1. TypePage'
      BY <1>24 DEF TypeOK, CloseRemove, TypePage, pageVars, engineVars, storeVars, callVars, agentVars, boundVars, histVars
    <2>2. TypeCalls'
      BY <1>24, LabelTypes DEF TypeOK, CloseRemove, Goto, Locals, TypeCalls, TypePage, pageVars, engineVars, storeVars, callVars, agentVars, boundVars, histVars
    <2>3. TypeEngine' /\ TypeStore' /\ TypeAgents' /\ TypeHistory'
      BY <1>24 DEF TypeOK, CloseRemove, TypeEngine, TypeStore, TypeAgents, TypeHistory, pageVars, engineVars, storeVars, callVars, agentVars, boundVars, histVars
    <2> QED BY <2>1, <2>2, <2>3 DEF TypeOK
  <1>25. ASSUME NEW c \in Clients, CloseEngine(c) PROVE TypeOK'
    <2>1. TypePage'
      BY <1>25, ReturnType, TokenTypes DEF TypeOK, CloseEngine, TypePage, pageVars, engineVars, storeVars, callVars, agentVars, boundVars, histVars
    <2>2. TypeEngine'
      BY <1>25 DEF TypeOK, CloseEngine, TypeEngine, pageVars, engineVars, storeVars, callVars, agentVars, boundVars, histVars
    <2>3. TypeCalls'
      BY <1>25, ReturnType, TokenTypes DEF TypeOK, CloseEngine, TypeCalls, pageVars, engineVars, storeVars, callVars, agentVars, boundVars, histVars
    <2>4. TypeStore' /\ TypeAgents' /\ TypeHistory'
      BY <1>25 DEF TypeOK, CloseEngine, TypeStore, TypeAgents, TypeHistory, pageVars, engineVars, storeVars, callVars, agentVars, boundVars, histVars
    <2> QED BY <2>1, <2>2, <2>3, <2>4 DEF TypeOK
  <1>26. ASSUME Drift PROVE TypeOK'
    <2>1. TypeEngine'
      BY <1>26 DEF TypeOK, Drift, TypeEngine, pageVars, engineVars, storeVars, callVars, agentVars, boundVars, histVars
    <2>2. TypeHistory'
      BY <1>26 DEF TypeOK, Drift, TypeHistory, pageVars, engineVars, storeVars, callVars, agentVars, boundVars, histVars
    <2>3. TypePage' /\ TypeStore' /\ TypeCalls' /\ TypeAgents'
      BY <1>26 DEF TypeOK, Drift, TypePage, TypeStore, TypeCalls, TypeAgents, pageVars, engineVars, storeVars, callVars, agentVars, boundVars, histVars
    <2> QED BY <2>1, <2>2, <2>3 DEF TypeOK
  <1>27. ASSUME Expire PROVE TypeOK'
    <2>1. TypeStore'
      BY <1>27 DEF TypeOK, Expire, TypeStore, pageVars, engineVars, storeVars, callVars, agentVars, boundVars, histVars
    <2>2. TypeHistory'
      <3>1. PICK k \in fresh : effects' =
              {IF <<e.before, e.arg>> = k THEN [e EXCEPT !.ttl = FALSE]
                                          ELSE e : e \in effects}
        BY <1>27 DEF Expire
      <3>2. \A e \in Effects : [e EXCEPT !.ttl = FALSE] \in Effects
        BY DEF Effects
      <3>3. effects' \subseteq Effects
        BY <3>1, <3>2 DEF TypeOK, TypeHistory
      <3> QED BY <1>27, <3>3 DEF TypeOK, Expire, TypeHistory
    <2>3. TypePage' /\ TypeEngine' /\ TypeCalls' /\ TypeAgents'
      BY <1>27 DEF TypeOK, Expire, TypePage, TypeEngine, TypeCalls, TypeAgents, pageVars, engineVars, storeVars, callVars, agentVars, boundVars, histVars
    <2> QED BY <2>1, <2>2, <2>3 DEF TypeOK
  <1>28. ASSUME ReapPlan PROVE TypeOK'
    <2>1. TypeEngine'
      BY <1>28 DEF TypeOK, ReapPlan, TypeEngine, pageVars, engineVars, storeVars, callVars, agentVars, boundVars, histVars
    <2>2. TypeHistory'
      BY <1>28 DEF TypeOK, ReapPlan, TypeHistory, pageVars, engineVars, storeVars, callVars, agentVars, boundVars, histVars
    <2>3. TypePage' /\ TypeStore' /\ TypeCalls' /\ TypeAgents'
      BY <1>28 DEF TypeOK, ReapPlan, TypePage, TypeStore, TypeCalls, TypeAgents, pageVars, engineVars, storeVars, callVars, agentVars, boundVars, histVars
    <2> QED BY <2>1, <2>2, <2>3 DEF TypeOK
  <1>29. ASSUME ReapTake PROVE TypeOK'
    <2>1. TypePage'
      BY <1>29, HandleTypes DEF TypeOK, ReapTake, TypePage, pageVars, engineVars, storeVars, callVars, agentVars, boundVars, histVars
    <2>2. TypeEngine'
      BY <1>29, HandleTypes DEF TypeOK, ReapTake, TypeEngine, TypePage, pageVars, engineVars, storeVars, callVars, agentVars, boundVars, histVars
    <2>3. TypeStore' /\ TypeCalls' /\ TypeAgents' /\ TypeHistory'
      BY <1>29 DEF TypeOK, ReapTake, TypeStore, TypeCalls, TypeAgents, TypeHistory, pageVars, engineVars, storeVars, callVars, agentVars, boundVars, histVars
    <2> QED BY <2>1, <2>2, <2>3 DEF TypeOK
  <1>30. ASSUME ReapClose PROVE TypeOK'
    <2>1. TypeEngine'
      BY <1>30, HandleTypes DEF TypeOK, ReapClose, TypeEngine, pageVars, engineVars, storeVars, callVars, agentVars, boundVars, histVars
    <2>2. TypePage' /\ TypeStore' /\ TypeCalls' /\ TypeAgents' /\ TypeHistory'
      BY <1>30 DEF TypeOK, ReapClose, TypePage, TypeStore, TypeCalls, TypeAgents, TypeHistory, pageVars, engineVars, storeVars, callVars, agentVars, boundVars, histVars
    <2> QED BY <2>1, <2>2 DEF TypeOK
  <1>31. ASSUME UNCHANGED vars PROVE TypeOK'
    BY <1>31 DEF TypeOK, vars, pageVars, engineVars, storeVars, callVars, agentVars, boundVars, histVars, TypePage, TypeEngine, TypeStore, TypeCalls, TypeAgents, TypeHistory
  <1> QED
    BY <1>1, <1>2, <1>3, <1>4, <1>5, <1>6, <1>7, <1>8, <1>9, <1>10, <1>11, <1>12, <1>13, <1>14, <1>15, <1>16, <1>17, <1>18, <1>19, <1>20, <1>21, <1>22, <1>23, <1>24, <1>25, <1>26, <1>27, <1>28, <1>29, <1>30, <1>31, <1>32
    DEF Next, CallStep, ReaperStep, Rest

(* The daemon's view of a page, the engine's, the store's and the calls'   *)
(* own state stay well typed in every behaviour.                            *)
THEOREM TypeCorrect == Spec => []TypeOK
  <1>1. Init => TypeOK
    BY InitType
  <1>2. TypeOK /\ [Next]_vars => TypeOK'
    BY TypeStep
  <1> QED BY <1>1, <1>2, PTL DEF Spec

-----------------------------------------------------------------------------
(* Acts are serialised.                                                     *)

(* Nothing has been acted on when the page opens.                           *)
LEMMA SerialInit == Init => SerialInv
  BY DEF Init, SerialInv, LockInv, LabelInv, CheckInv, EngineInv, EffectInv,
         ActsSerialised, InWindow

(* A step that takes no call into the lock's window and no act past its     *)
(* check disturbs nothing when it leaves the acts' record, the token and    *)
(* the other calls alone.                                                   *)
LEMMA SerialFrame ==
  ASSUME SerialInv, NEW c \in Clients,
         UNCHANGED <<req, effects, epoch, last_token, exists, mutate_lock>>,
         \A d \in Clients : d # c => loc'[d] = loc[d] /\ pc'[d] = pc[d],
         InWindow(c)' => InWindow(c), req[c].op = "act" => pc[c] # "apply",
         pc'[c] \in {"snapshot", "baseline", "poll", "invalidate", "token",
                     "rebase", "lookup", "engine", "apply"} => req[c].op # "act",
         pc'[c] \in {"check", "lookup"} => req[c].op = "act"
  PROVE  SerialInv'
  <1> USE DEF SerialInv, InWindow
  <1>1. LockInv'
    BY DEF LockInv
  <1>2. LabelInv'
    BY DEF LabelInv
  <1>3. CheckInv'
    BY DEF CheckInv
  <1>4. EngineInv'
    BY DEF EngineInv
  <1>5. EffectInv'
    <2>1. Unpublished => Unpublished'
      BY DEF Unpublished
    <2> QED BY <2>1 DEF EffectInv
  <1>6. ActsSerialised'
    BY DEF ActsSerialised
  <1> QED BY <1>1, <1>2, <1>3, <1>4, <1>5, <1>6

(* Every step keeps the lock's window exclusive and its check current.      *)
LEMMA SerialStep == TypeOK /\ SerialInv /\ [Next]_vars => SerialInv'
  <1> SUFFICES ASSUME TypeOK, SerialInv, [Next]_vars PROVE SerialInv'
    OBVIOUS
  <1> USE SentinelAssumption DEF TypeOK, TypePage, TypeCalls, TypeHistory,
      pageVars, engineVars, storeVars, callVars, agentVars, boundVars, histVars,
      Goto, Locals, Effects, SerialInv, LockInv, LabelInv, CheckInv, EngineInv, EffectInv, Unpublished, ActsSerialised, InWindow
  <1>1. ASSUME NEW c \in Clients, Begin(c) PROVE SerialInv'
    BY <1>1 DEF Begin, FirstStep, NoLocals
  <1>2. ASSUME NEW c \in Clients, EngineHandleFor(c) PROVE SerialInv'
    <2>1. /\ UNCHANGED <<req, effects, epoch, last_token, exists, mutate_lock>>
          /\ \A d \in Clients : d # c => loc'[d] = loc[d] /\ pc'[d] = pc[d]
      BY <1>2 DEF EngineHandleFor
    <2>2. /\ InWindow(c)' => InWindow(c)
          /\ req[c].op = "act" => pc[c] # "apply"
          /\ pc'[c] \in {"snapshot", "baseline", "poll", "invalidate", "token",
                        "rebase", "lookup", "engine", "apply"} => req[c].op # "act"
          /\ pc'[c] \in {"check", "lookup"} => req[c].op = "act"
      BY <1>2, <2>1 DEF EngineHandleFor, AfterHandle
    <2> QED BY <2>1, <2>2, SerialFrame
  <1>3. ASSUME NEW c \in Clients, Reopen(c) PROVE SerialInv'
    BY <1>3 DEF Reopen
  <1>4. ASSUME NEW c \in Clients, Install(c) PROVE SerialInv'
    BY <1>4 DEF Install, AfterHandle
  <1>5. ASSUME NEW c \in Clients, PageGone(c) PROVE SerialInv'
    BY <1>5 DEF PageGone, Return, Unlock
  <1>6. ASSUME NEW c \in Clients, HandleGone(c) PROVE SerialInv'
    BY <1>6 DEF HandleGone, Return, Unlock
  <1>7. ASSUME NEW c \in Clients, EngineFault(c) PROVE SerialInv'
    <2>1. \A e \in effects' : e \in effects \/ (e.failed /\ e.epoch = loc[c].chk /\ InWindow(c) /\ pc[c] = "engine")
      BY <1>7 DEF EngineFault
    <2>2. /\ \A d \in Clients : InWindow(d)' => InWindow(d) /\ d # c
          /\ \A d \in Clients \ {c} : pc'[d] = pc[d]
          /\ pc'[c] = "audit"
          /\ UNCHANGED <<req, loc, epoch, last_token, exists>>
      BY <1>7 DEF EngineFault, Return
    <2>3. LockInv' /\ LabelInv' /\ CheckInv'
      BY <1>7, <2>2 DEF EngineFault, Return, Unlock
    <2>4. EngineInv'
      BY <2>1, <2>2
    <2>5. EffectInv'
      <3> SUFFICES ASSUME NEW e \in effects'
                   PROVE  /\ e.epoch <= epoch'
                          /\ e.moved /\ ~e.failed /\ e.epoch = epoch' /\ exists' => Unpublished'
        OBVIOUS
      <3>1. CASE e \in effects
        BY <3>1, <1>7, <2>2 DEF EngineFault
      <3>2. CASE e \notin effects
        BY <3>2, <2>1, <2>2
      <3> QED BY <3>1, <3>2
    <2>6. ActsSerialised'
      BY <2>1, <2>2
    <2> QED BY <2>3, <2>4, <2>5, <2>6
  <1>8. ASSUME NEW c \in Clients, Snapshot(c) PROVE SerialInv'
    BY <1>8 DEF Snapshot
  <1>9. ASSUME NEW c \in Clients, Apply(c) PROVE SerialInv'
    BY <1>9 DEF Apply, apply_snapshot, SetToken, compute
  <1>10. ASSUME NEW c \in Clients, Store(c) PROVE SerialInv'
    BY <1>10 DEF Store, Unlock
  <1>11. ASSUME NEW c \in Clients, Audit(c) PROVE SerialInv'
    BY <1>11 DEF Audit
  <1>12. ASSUME NEW c \in Clients, ActLock(c) PROVE SerialInv'
    BY <1>12 DEF ActLock
  <1>13. ASSUME NEW c \in Clients, ActStale(c) PROVE SerialInv'
    BY <1>13 DEF ActStale, Return, Unlock
  <1>14. ASSUME NEW c \in Clients, ActHit(c) PROVE SerialInv'
    BY <1>14 DEF ActHit, Return, Unlock
  <1>32. ASSUME NEW c \in Clients, ActCheck(c) PROVE SerialInv'
    BY <1>32 DEF ActCheck
  <1>15. ASSUME NEW c \in Clients, ActPass(c) PROVE SerialInv'
    BY <1>15 DEF ActPass
  <1>16. ASSUME NEW c \in Clients, ActEngine(c) PROVE SerialInv'
    <2>1. PICK t \in Trees :
            /\ loc' = [loc EXCEPT ![c].snap = t]
            /\ effects' = effects \cup
                 {[id |-> loc[c].id, epoch |-> loc[c].chk, arg |-> req[c].arg,
                   before |-> req[c].before, saw |-> web[loc[c].h],
                   failed |-> FALSE, moved |-> t # req[c].before[1], ttl |-> TRUE]}
      BY <1>16 DEF ActEngine
    <2> DEFINE new == [id |-> loc[c].id, epoch |-> loc[c].chk, arg |-> req[c].arg,
                       before |-> req[c].before, saw |-> web[loc[c].h],
                       failed |-> FALSE, moved |-> t # req[c].before[1], ttl |-> TRUE]
    <2>2. /\ new.id = loc[c].id /\ new.epoch = loc[c].chk
          /\ new.moved <=> t # req[c].before[1]
          /\ ~new.failed
      OBVIOUS
    <2>3. \A d \in Clients : InWindow(d) => d = c
      BY <1>16 DEF ActEngine
    <2>4. /\ \A d \in Clients : /\ loc'[d].chk = loc[d].chk
                                /\ d # c => loc'[d] = loc[d] /\ pc'[d] = pc[d]
          /\ loc'[c].snap = t /\ pc'[c] = "apply"
      BY <1>16, <2>1 DEF ActEngine
    <2>5. LockInv' /\ LabelInv' /\ CheckInv'
      BY <1>16, <2>4 DEF ActEngine
    <2>6. EngineInv'
      BY <1>16, <2>3, <2>4 DEF ActEngine
    <2>7. EffectInv'
      <3> SUFFICES ASSUME NEW e \in effects'
                   PROVE  /\ e.epoch <= epoch'
                          /\ e.moved /\ ~e.failed /\ e.epoch = epoch' /\ exists' => Unpublished'
        OBVIOUS
      <3>1. CASE e \in effects
        BY <3>1, <1>16, <2>3, <2>4 DEF ActEngine
      <3>2. CASE e = new
        BY <3>2, <1>16, <2>2, <2>4 DEF ActEngine
      <3> QED BY <3>1, <3>2, <2>1
    <2>8. ActsSerialised'
      <3>1. \A e \in effects : e.moved /\ ~e.failed => e.epoch # new.epoch
        BY <1>16, <2>2 DEF ActEngine
      <3>2. \A d, e \in Clients : InWindow(d)' /\ InWindow(e)' => d = e
        BY <1>16, <2>3, <2>4 DEF ActEngine
      <3> QED BY <2>1, <3>1, <3>2
    <2> QED BY <2>5, <2>6, <2>7, <2>8
  <1>17. ASSUME NEW c \in Clients, EngineOp(c) PROVE SerialInv'
    BY <1>17 DEF EngineOp, AfterEngine
  <1>18. ASSUME NEW c \in Clients, InvalidateBaseline(c) PROVE SerialInv'
    BY <1>18 DEF InvalidateBaseline
  <1>19. ASSUME NEW c \in Clients, CurrentToken(c) PROVE SerialInv'
    BY <1>19 DEF CurrentToken, Return, Unlock
  <1>20. ASSUME NEW c \in Clients, Rebase(c) PROVE SerialInv'
    BY <1>20 DEF Rebase, SetToken
  <1>21. ASSUME NEW c \in Clients, Baseline(c) PROVE SerialInv'
    <2>1. /\ UNCHANGED <<req, effects, epoch, last_token, exists, mutate_lock>>
          /\ \A d \in Clients : d # c => loc'[d] = loc[d] /\ pc'[d] = pc[d]
      BY <1>21 DEF Baseline
    <2>2. /\ InWindow(c)' => InWindow(c)
          /\ req[c].op = "act" => pc[c] # "apply"
          /\ pc'[c] \in {"snapshot", "baseline", "poll", "invalidate", "token",
                        "rebase", "lookup", "engine", "apply"} => req[c].op # "act"
          /\ pc'[c] \in {"check", "lookup"} => req[c].op = "act"
      BY <1>21, <2>1 DEF Baseline
    <2> QED BY <2>1, <2>2, SerialFrame
  <1>22. ASSUME NEW c \in Clients, Poll(c) PROVE SerialInv'
    <2>1. /\ UNCHANGED <<req, effects, epoch, last_token, exists, mutate_lock>>
          /\ \A d \in Clients : d # c => loc'[d] = loc[d] /\ pc'[d] = pc[d]
      BY <1>22 DEF Poll
    <2>2. /\ InWindow(c)' => InWindow(c)
          /\ req[c].op = "act" => pc[c] # "apply"
          /\ pc'[c] \in {"snapshot", "baseline", "poll", "invalidate", "token",
                        "rebase", "lookup", "engine", "apply"} => req[c].op # "act"
          /\ pc'[c] \in {"check", "lookup"} => req[c].op = "act"
      BY <1>22, <2>1 DEF Poll
    <2> QED BY <2>1, <2>2, SerialFrame
  <1>23. ASSUME NEW c \in Clients, PollTimeout(c) PROVE SerialInv'
    BY <1>23 DEF PollTimeout, Return, Unlock
  <1>24. ASSUME NEW c \in Clients, CloseRemove(c) PROVE SerialInv'
    BY <1>24 DEF CloseRemove
  <1>25. ASSUME NEW c \in Clients, CloseEngine(c) PROVE SerialInv'
    BY <1>25 DEF CloseEngine, Return, Unlock
  <1>26. ASSUME Drift PROVE SerialInv'
    BY <1>26 DEF Drift
  <1>27. ASSUME Expire PROVE SerialInv'
    <2>1. /\ UNCHANGED <<req, pc, loc, epoch, last_token, exists, mutate_lock>>
          /\ \A x \in effects' : \E e \in effects :
               /\ x.id = e.id /\ x.epoch = e.epoch
               /\ x.moved = e.moved /\ x.failed = e.failed
      BY <1>27 DEF Expire
    <2>2. /\ LockInv' /\ LabelInv' /\ CheckInv'
          /\ Unpublished => Unpublished'
          /\ \A d \in Clients : InWindow(d)' <=> InWindow(d)
      BY <2>1
    <2>3. EngineInv'
      BY <2>1
    <2>4. EffectInv'
      BY <2>1, <2>2
    <2>5. ActsSerialised'
      BY <2>1, <2>2
    <2> QED BY <2>2, <2>3, <2>4, <2>5
  <1>28. ASSUME ReapPlan PROVE SerialInv'
    BY <1>28 DEF ReapPlan
  <1>29. ASSUME ReapTake PROVE SerialInv'
    BY <1>29 DEF ReapTake
  <1>30. ASSUME ReapClose PROVE SerialInv'
    BY <1>30 DEF ReapClose
  <1>31. ASSUME UNCHANGED vars PROVE SerialInv'
    BY <1>31 DEF vars
  <1> QED
    BY <1>1, <1>2, <1>3, <1>4, <1>5, <1>6, <1>7, <1>8, <1>9, <1>10, <1>11, <1>12, <1>13, <1>14, <1>15, <1>16, <1>17, <1>18, <1>19, <1>20, <1>21, <1>22, <1>23, <1>24, <1>25, <1>26, <1>27, <1>28, <1>29, <1>30, <1>31, <1>32
    DEF Next, CallStep, ReaperStep, Rest

(* Of the acts checked against one published token at most one moves the    *)
(* page, for any number of clients and whatever else they do meanwhile.     *)
THEOREM ActsAreSerialised == Spec => []ActsSerialised
  <1>1. Init => SerialInv
    BY SerialInit
  <1>2. TypeOK /\ SerialInv /\ [Next]_vars => SerialInv'
    BY SerialStep
  <1>3. SerialInv => ActsSerialised
    BY DEF SerialInv
  <1> QED BY <1>1, <1>2, <1>3, TypeCorrect, PTL DEF Spec

-----------------------------------------------------------------------------
(* The session map never points to a closed engine page.                    *)

(* vs_open installs the first handle.                                       *)
LEMMA HandleInit == Init => HandleInv
  BY HandleTypes, SentinelAssumption DEF Init, HandleInv, MapHandleLive,
     HandleBound, ReaperHandle, ClosingGone, InstallHandles, InstallApart

(* A step of c that closes no engine page, takes no handle out of the map   *)
(* and does not leave c about to install or close one keeps the invariant.  *)
LEMMA HandleFrame ==
  ASSUME TypeOK, HandleInv, NEW c \in Clients,
         \A d \in Clients \ {c} : pc'[d] = pc[d] /\ loc'[d] = loc[d],
         pc'[c] \notin {"install", "closing"},
         \A i \in Handles : web[i] # NoTree => web'[i] # NoTree,
         UNCHANGED <<exists, engine_handle, opened, reaper>>
  PROVE  HandleInv'
  <1>1. \A i \in 1..opened : i \in Handles
    BY BoundAssumption DEF TypeOK, TypeEngine, Handles
  <1>2. MapHandleLive' /\ HandleBound' /\ ReaperHandle'
    BY DEF HandleInv, MapHandleLive, HandleBound, ReaperHandle, TypeOK, TypePage
  <1>3. \A d \in Clients : pc'[d] \in {"install", "closing"} =>
          pc[d] = pc'[d] /\ loc[d] = loc'[d]
    OBVIOUS
  <1>4. ClosingGone' /\ InstallHandles'
    BY <1>1, <1>3 DEF HandleInv, ClosingGone, InstallHandles
  <1>5. InstallApart'
    BY <1>3 DEF HandleInv, InstallApart
  <1> QED BY <1>2, <1>4, <1>5 DEF HandleInv

(* No call starts, or goes on from its handle, at install or closing.       *)
LEMMA HandleLabels ==
  \A op \in AllOps :
    {FirstStep(op), AfterHandle(op), AfterEngine(op)} \cap {"install", "closing"} = {}
  BY DEF FirstStep, AfterHandle, AfterEngine

(* Every step keeps the handles in circulation apart.                       *)
LEMMA HandleStep == TypeOK /\ HandleInv /\ [Next]_vars => HandleInv'
  <1> SUFFICES ASSUME TypeOK, HandleInv, [Next]_vars PROVE HandleInv'
    OBVIOUS
  <1>0. /\ pc \in [Clients -> Labels] /\ loc \in [Clients -> Locals]
        /\ web \in [Handles -> Trees \cup {NoTree}]
    BY DEF TypeOK, TypeCalls, TypeEngine
  <1> USE <1>0 DEF pageVars, engineVars, callVars, Goto
  <1>1. ASSUME NEW c \in Clients, Begin(c) PROVE HandleInv'
    <2>1. PICK r \in Requests(c) : pc' = [pc EXCEPT ![c] = FirstStep(r.op)]
      BY <1>1 DEF Begin
    <2>2. r.op \in AllOps
      BY <2>1, SentinelAssumption DEF Requests, AllOps
    <2>3. pc'[c] \notin {"install", "closing"}
      BY <2>1, <2>2, HandleLabels
    <2> QED BY <1>1, <2>1, <2>3, HandleFrame DEF Begin
  <1>2. ASSUME NEW c \in Clients, EngineHandleFor(c) PROVE HandleInv'
    <2>1. pc'[c] \notin {"install", "closing"}
      BY <1>2, HandleLabels, CallTypes DEF EngineHandleFor
    <2>2. \A d \in Clients \ {c} : pc'[d] = pc[d] /\ loc'[d] = loc[d]
      BY <1>2 DEF EngineHandleFor
    <2> QED BY <1>2, <2>1, <2>2, HandleFrame DEF EngineHandleFor
  <1>3. ASSUME NEW c \in Clients, Reopen(c) PROVE HandleInv'
    <2>1. /\ opened \in Nat /\ opened' = opened + 1 /\ opened + 1 \in Handles
          /\ \A i \in 1..opened : i \in Handles
      BY <1>3, BoundAssumption DEF Reopen, TypeOK, TypeEngine, Handles
    <2>2. /\ pc'[c] = "install"
          /\ \A d \in Clients \ {c} : pc'[d] = pc[d] /\ loc'[d] = loc[d]
      BY <1>3 DEF Reopen
    <2>3. loc'[c].h = opened + 1
      BY <1>3 DEF Reopen, Locals
    <2>4. /\ web'[opened + 1] # NoTree
          /\ \A i \in Handles \ {opened + 1} : web'[i] = web[i]
      BY <1>3, <2>1, SentinelAssumption DEF Reopen
    <2>5. /\ engine_handle \in Handles /\ engine_handle \in Nat
          /\ UNCHANGED <<exists, engine_handle, reaper>>
      BY <1>3, BoundAssumption DEF Reopen, TypeOK, TypePage, Handles
    <2>6. MapHandleLive' /\ HandleBound' /\ ReaperHandle' /\ ClosingGone'
      BY <2>1, <2>2, <2>4, <2>5
      DEF HandleInv, MapHandleLive, HandleBound, ReaperHandle, ClosingGone
    <2>7. InstallHandles'
      BY <2>1, <2>2, <2>3, <2>4, <2>5
      DEF HandleInv, HandleBound, ReaperHandle, InstallHandles
    <2>8. InstallApart'
      BY <2>1, <2>2, <2>3 DEF HandleInv, InstallHandles, InstallApart
    <2> QED BY <2>6, <2>7, <2>8 DEF HandleInv
  <1>4. ASSUME NEW c \in Clients, Install(c) PROVE HandleInv'
    <2>1. pc'[c] \notin {"install", "closing"}
      BY <1>4, HandleLabels, CallTypes DEF Install
    <2>2. \A d \in Clients \ {c} : pc'[d] = pc[d] /\ loc'[d] = loc[d]
      BY <1>4 DEF Install
    <2>3. UNCHANGED <<exists, opened, reaper>>
      BY <1>4 DEF Install
    <2>4. /\ loc[c].h \in 1..opened /\ loc[c].h # engine_handle
          /\ web[loc[c].h] # NoTree
          /\ reaper.pc = "close" => loc[c].h # reaper.h
          /\ \A d \in Clients \ {c} : pc[d] = "install" => loc[d].h # loc[c].h
      BY <1>4 DEF Install, HandleInv, InstallHandles, InstallApart
    <2>5. CASE engine_handle # 0
      <3>1. /\ \A i \in Handles \ {loc[c].h} : web'[i] = web[i]
            /\ engine_handle' = engine_handle
        BY <1>4, <2>5 DEF Install
      <3>2. /\ engine_handle \in Handles /\ \A i \in 1..opened : i \in Handles
        BY BoundAssumption DEF TypeOK, TypePage, TypeEngine, Handles
      <3> QED BY <2>1, <2>2, <2>3, <2>4, <3>1, <3>2
          DEF HandleInv, MapHandleLive, HandleBound, ReaperHandle, ClosingGone,
              InstallHandles, InstallApart
    <2>6. CASE engine_handle = 0
      <3>1. web' = web /\ engine_handle' = loc[c].h
        BY <1>4, <2>6 DEF Install
      <3>2. loc[c].h <= opened
        BY <2>4 DEF TypeOK, TypeEngine, Handles
      <3> QED BY <2>1, <2>2, <2>3, <2>4, <3>1, <3>2
          DEF HandleInv, MapHandleLive, HandleBound, ReaperHandle, ClosingGone,
              InstallHandles, InstallApart
    <2> QED BY <2>5, <2>6
  <1>5. ASSUME NEW c \in Clients, PageGone(c) PROVE HandleInv'
    BY <1>5, HandleFrame DEF PageGone, Return
  <1>6. ASSUME NEW c \in Clients, HandleGone(c) PROVE HandleInv'
    BY <1>6, HandleFrame DEF HandleGone, Return
  <1>7. ASSUME NEW c \in Clients, Snapshot(c) PROVE HandleInv'
    BY <1>7, HandleFrame DEF Snapshot
  <1>8. ASSUME NEW c \in Clients, Apply(c) PROVE HandleInv'
    BY <1>8, HandleFrame DEF Apply
  <1>9. ASSUME NEW c \in Clients, Store(c) PROVE HandleInv'
    BY <1>9, HandleFrame DEF Store
  <1>10. ASSUME NEW c \in Clients, Audit(c) PROVE HandleInv'
    BY <1>10, HandleFrame DEF Audit
  <1>11. ASSUME NEW c \in Clients, ActLock(c) PROVE HandleInv'
    BY <1>11, HandleFrame DEF ActLock
  <1>12. ASSUME NEW c \in Clients, ActStale(c) PROVE HandleInv'
    BY <1>12, HandleFrame DEF ActStale, Return
  <1>13. ASSUME NEW c \in Clients, ActHit(c) PROVE HandleInv'
    BY <1>13, HandleFrame DEF ActHit, Return
  <1>32. ASSUME NEW c \in Clients, ActCheck(c) PROVE HandleInv'
    BY <1>32, HandleFrame DEF ActCheck
  <1>14. ASSUME NEW c \in Clients, ActPass(c) PROVE HandleInv'
    BY <1>14, HandleFrame DEF ActPass
  <1>15. ASSUME NEW c \in Clients, InvalidateBaseline(c) PROVE HandleInv'
    BY <1>15, HandleFrame DEF InvalidateBaseline
  <1>16. ASSUME NEW c \in Clients, CurrentToken(c) PROVE HandleInv'
    BY <1>16, HandleFrame DEF CurrentToken, Return
  <1>17. ASSUME NEW c \in Clients, Rebase(c) PROVE HandleInv'
    BY <1>17, HandleFrame DEF Rebase
  <1>18. ASSUME NEW c \in Clients, Baseline(c) PROVE HandleInv'
    BY <1>18, HandleFrame DEF Baseline
  <1>19. ASSUME NEW c \in Clients, PollTimeout(c) PROVE HandleInv'
    BY <1>19, HandleFrame DEF PollTimeout, Return
  <1>20. ASSUME NEW c \in Clients, ActEngine(c) PROVE HandleInv'
    <2>1. \A i \in Handles : web[i] # NoTree => web'[i] # NoTree
      BY <1>20, SentinelAssumption DEF ActEngine
    <2>2. /\ \A d \in Clients \ {c} : pc'[d] = pc[d] /\ loc'[d] = loc[d]
          /\ pc'[c] \notin {"install", "closing"}
          /\ UNCHANGED <<exists, engine_handle, opened, reaper>>
      BY <1>20 DEF ActEngine
    <2> QED BY <2>1, <2>2, HandleFrame
  <1>21. ASSUME NEW c \in Clients, EngineFault(c) PROVE HandleInv'
    <2>1. \A i \in Handles : web[i] # NoTree => web'[i] # NoTree
      BY <1>21, SentinelAssumption DEF EngineFault
    <2>2. /\ \A d \in Clients \ {c} : pc'[d] = pc[d] /\ loc'[d] = loc[d]
          /\ pc'[c] \notin {"install", "closing"}
          /\ UNCHANGED <<exists, engine_handle, opened, reaper>>
      BY <1>21 DEF EngineFault, Return
    <2> QED BY <2>1, <2>2, HandleFrame
  <1>22. ASSUME NEW c \in Clients, EngineOp(c) PROVE HandleInv'
    <2>1. \A i \in Handles : web[i] # NoTree => web'[i] # NoTree
      BY <1>22, SentinelAssumption DEF EngineOp
    <2>2. pc'[c] \notin {"install", "closing"}
      BY <1>22, HandleLabels, CallTypes DEF EngineOp
    <2> QED BY <1>22, <2>1, <2>2, HandleFrame DEF EngineOp
  <1>23. ASSUME NEW c \in Clients, Poll(c) PROVE HandleInv'
    <2>1. pc'[c] \notin {"install", "closing"}
      BY <1>23 DEF Poll
    <2>2. \A d \in Clients \ {c} : pc'[d] = pc[d] /\ loc'[d] = loc[d]
      BY <1>23 DEF Poll
    <2> QED BY <1>23, <2>1, <2>2, HandleFrame DEF Poll
  <1>24. ASSUME NEW c \in Clients, CloseRemove(c) PROVE HandleInv'
    BY <1>24 DEF CloseRemove, HandleInv, MapHandleLive, HandleBound, ReaperHandle, ClosingGone,
           InstallHandles, InstallApart
  <1>25. ASSUME NEW c \in Clients, CloseEngine(c) PROVE HandleInv'
    <2>1. ~exists
      BY <1>25 DEF CloseEngine, HandleInv, ClosingGone
    <2> QED BY <1>25, <2>1 DEF CloseEngine, Return, HandleInv, MapHandleLive, HandleBound, ReaperHandle, ClosingGone,
           InstallHandles, InstallApart
  <1>26. ASSUME Drift PROVE HandleInv'
    <2>1. \A i \in Handles : web[i] # NoTree => web'[i] # NoTree
      BY <1>26, SentinelAssumption DEF Drift
    <2>2. /\ engine_handle \in Handles /\ \A i \in 1..opened : i \in Handles
      BY BoundAssumption DEF TypeOK, TypePage, TypeEngine, Handles
    <2> QED BY <1>26, <2>1, <2>2
        DEF Drift, HandleInv, MapHandleLive, HandleBound, ReaperHandle, ClosingGone,
           InstallHandles, InstallApart
  <1>27. ASSUME Expire PROVE HandleInv'
    BY <1>27 DEF Expire, TypeOK, TypeEngine, HandleInv, MapHandleLive, HandleBound, ReaperHandle, ClosingGone,
           InstallHandles, InstallApart
  <1>28. ASSUME ReapPlan PROVE HandleInv'
    BY <1>28 DEF ReapPlan, TypeOK, TypeEngine, HandleInv, MapHandleLive, HandleBound, ReaperHandle, ClosingGone,
           InstallHandles, InstallApart
  <1>29. ASSUME ReapTake PROVE HandleInv'
    <2>1. /\ engine_handle \in Nat /\ opened \in Nat
      BY BoundAssumption DEF TypeOK, TypePage, TypeEngine, Handles
    <2> QED BY <1>29, <2>1 DEF ReapTake, HandleInv, MapHandleLive, HandleBound, ReaperHandle, ClosingGone,
           InstallHandles, InstallApart
  <1>30. ASSUME ReapClose PROVE HandleInv'
    <2>1. /\ reaper.h # engine_handle /\ reaper'.pc = "sleep"
          /\ \A i \in Handles \ {reaper.h} : web'[i] = web[i]
          /\ UNCHANGED <<exists, engine_handle, opened, pc, loc>>
      BY <1>30 DEF ReapClose, HandleInv, ReaperHandle
    <2>2. /\ engine_handle \in Handles /\ \A i \in 1..opened : i \in Handles
      BY BoundAssumption DEF TypeOK, TypePage, TypeEngine, Handles
    <2> QED BY <1>30, <2>1, <2>2 DEF ReapClose, HandleInv, MapHandleLive, HandleBound, ReaperHandle, ClosingGone,
           InstallHandles, InstallApart
  <1>31. ASSUME UNCHANGED vars PROVE HandleInv'
    BY <1>31 DEF vars, HandleInv, MapHandleLive, HandleBound, ReaperHandle, ClosingGone,
           InstallHandles, InstallApart
  <1> QED
    BY <1>1, <1>2, <1>3, <1>4, <1>5, <1>6, <1>7, <1>8, <1>9, <1>10, <1>11, <1>12, <1>13, <1>14, <1>15, <1>16, <1>17, <1>18, <1>19, <1>20, <1>21, <1>22, <1>23, <1>24, <1>25, <1>26, <1>27, <1>28, <1>29, <1>30, <1>31, <1>32
    DEF Next, CallStep, ReaperStep, Rest

(* However reaping, reopening and closing race, the handle the daemon gives *)
(* a call is that of an open engine page.                                   *)
THEOREM MapHandleIsLive == Spec => []MapHandleLive
  <1>1. Init => HandleInv
    BY HandleInit
  <1>2. TypeOK /\ HandleInv /\ [Next]_vars => HandleInv'
    BY HandleStep
  <1>3. HandleInv => MapHandleLive
    BY DEF HandleInv
  <1> QED BY <1>1, <1>2, <1>3, TypeCorrect, PTL DEF Spec

-----------------------------------------------------------------------------
(* A token-change wait returns a change.                                    *)

(* Every step leaves each call at a label its primitive comes by.           *)
LEMMA PathStep == TypeOK /\ PathInv /\ [Next]_vars => PathInv'
  <1> SUFFICES ASSUME TypeOK, PathInv, [Next]_vars PROVE PathInv'
    OBVIOUS
  <1> USE SentinelAssumption
      DEF TypeOK, TypeCalls, AllRequests, pageVars, engineVars, storeVars, callVars, agentVars, boundVars, histVars, Goto, PathInv, Path, AllOps
  <1>1. ASSUME NEW c \in Clients, Begin(c) PROVE PathInv'
    <2>1. PICK r \in Requests(c) : /\ req' = [req EXCEPT ![c] = r]
                                   /\ pc' = [pc EXCEPT ![c] = FirstStep(r.op)]
      BY <1>1 DEF Begin
    <2>2. r.op \in AllOps
      BY <2>1 DEF Requests
    <2>3. req'[c].op \in Path(pc'[c])
      BY <2>1, <2>2 DEF FirstStep
    <2>4. \A d \in Clients \ {c} : req'[d] = req[d] /\ pc'[d] = pc[d]
      BY <2>1
    <2> QED BY <2>3, <2>4
  <1>2. ASSUME NEW c \in Clients, EngineHandleFor(c) PROVE PathInv'
    BY <1>2 DEF EngineHandleFor, AfterHandle
  <1>3. ASSUME NEW c \in Clients, Reopen(c) PROVE PathInv'
    BY <1>3 DEF Reopen
  <1>4. ASSUME NEW c \in Clients, Install(c) PROVE PathInv'
    BY <1>4 DEF Install, AfterHandle
  <1>5. ASSUME NEW c \in Clients, PageGone(c) PROVE PathInv'
    BY <1>5 DEF PageGone, Return
  <1>6. ASSUME NEW c \in Clients, HandleGone(c) PROVE PathInv'
    BY <1>6 DEF HandleGone, Return
  <1>7. ASSUME NEW c \in Clients, EngineFault(c) PROVE PathInv'
    BY <1>7 DEF EngineFault, Return
  <1>8. ASSUME NEW c \in Clients, Snapshot(c) PROVE PathInv'
    BY <1>8 DEF Snapshot
  <1>9. ASSUME NEW c \in Clients, Apply(c) PROVE PathInv'
    BY <1>9 DEF Apply
  <1>10. ASSUME NEW c \in Clients, Store(c) PROVE PathInv'
    BY <1>10 DEF Store
  <1>11. ASSUME NEW c \in Clients, Audit(c) PROVE PathInv'
    BY <1>11 DEF Audit
  <1>12. ASSUME NEW c \in Clients, ActLock(c) PROVE PathInv'
    BY <1>12 DEF ActLock
  <1>13. ASSUME NEW c \in Clients, ActStale(c) PROVE PathInv'
    BY <1>13 DEF ActStale, Return
  <1>14. ASSUME NEW c \in Clients, ActHit(c) PROVE PathInv'
    BY <1>14 DEF ActHit, Return
  <1>15. ASSUME NEW c \in Clients, ActCheck(c) PROVE PathInv'
    BY <1>15 DEF ActCheck
  <1>16. ASSUME NEW c \in Clients, ActPass(c) PROVE PathInv'
    BY <1>16 DEF ActPass
  <1>17. ASSUME NEW c \in Clients, ActEngine(c) PROVE PathInv'
    BY <1>17 DEF ActEngine
  <1>18. ASSUME NEW c \in Clients, EngineOp(c) PROVE PathInv'
    BY <1>18 DEF EngineOp, AfterEngine
  <1>19. ASSUME NEW c \in Clients, InvalidateBaseline(c) PROVE PathInv'
    BY <1>19 DEF InvalidateBaseline
  <1>20. ASSUME NEW c \in Clients, CurrentToken(c) PROVE PathInv'
    BY <1>20 DEF CurrentToken, Return
  <1>21. ASSUME NEW c \in Clients, Rebase(c) PROVE PathInv'
    BY <1>21 DEF Rebase
  <1>22. ASSUME NEW c \in Clients, Baseline(c) PROVE PathInv'
    BY <1>22 DEF Baseline
  <1>23. ASSUME NEW c \in Clients, Poll(c) PROVE PathInv'
    BY <1>23 DEF Poll
  <1>24. ASSUME NEW c \in Clients, PollTimeout(c) PROVE PathInv'
    BY <1>24 DEF PollTimeout, Return
  <1>25. ASSUME NEW c \in Clients, CloseRemove(c) PROVE PathInv'
    BY <1>25 DEF CloseRemove
  <1>26. ASSUME NEW c \in Clients, CloseEngine(c) PROVE PathInv'
    BY <1>26 DEF CloseEngine, Return
  <1>27. ASSUME Drift PROVE PathInv'
    BY <1>27 DEF Drift
  <1>28. ASSUME Expire PROVE PathInv'
    BY <1>28 DEF Expire
  <1>29. ASSUME ReapPlan PROVE PathInv'
    BY <1>29 DEF ReapPlan
  <1>30. ASSUME ReapTake PROVE PathInv'
    BY <1>30 DEF ReapTake
  <1>31. ASSUME ReapClose PROVE PathInv'
    BY <1>31 DEF ReapClose
  <1>32. ASSUME UNCHANGED vars PROVE PathInv'
    BY <1>32 DEF vars
  <1> QED
    BY <1>1, <1>2, <1>3, <1>4, <1>5, <1>6, <1>7, <1>8, <1>9, <1>10, <1>11, <1>12, <1>13,
       <1>14, <1>15, <1>16, <1>17, <1>18, <1>19, <1>20, <1>21, <1>22, <1>23, <1>24, <1>25,
       <1>26, <1>27, <1>28, <1>29, <1>30, <1>31, <1>32
    DEF Next, CallStep, ReaperStep, Rest

(* The token on record stays that of the tree and the url on record.        *)
LEMMA TokenStep == TypeOK /\ TokenInv /\ [Next]_vars => TokenInv'
  <1> SUFFICES ASSUME TypeOK, TokenInv, [Next]_vars PROVE TokenInv'
    OBVIOUS
  <1>1. ASSUME NEW c \in Clients, Apply(c) PROVE TokenInv'
    <2>1. last_token' = compute(loc[c].snap, url) /\ url' = url
      BY <1>1 DEF Apply, apply_snapshot, SetToken
    <2>2. last_tree' = loc[c].snap \/ (last_tree' = last_tree /\ last_token = compute(loc[c].snap, url))
      BY <1>1 DEF Apply, apply_snapshot
    <2> QED BY <2>1, <2>2 DEF TokenInv, compute
  <1>2. ASSUME NEW c \in Clients, Rebase(c) PROVE TokenInv'
    BY <1>2 DEF Rebase, SetToken, TokenInv, compute
  <1>3. CASE UNCHANGED <<url, last_tree, last_token>>
    BY <1>3 DEF TokenInv, compute
  <1>4. ASSUME NEW c \in Clients, Begin(c) \/ CallStep(c) \/ EngineFault(c)
        PROVE  Apply(c) \/ Rebase(c) \/ UNCHANGED <<url, last_tree, last_token>>
    BY <1>4
    DEF CallStep, Begin, EngineHandleFor, Reopen, Install, PageGone, HandleGone, EngineFault, Snapshot,
        Store, Audit, ActLock, ActStale, ActHit, ActCheck, ActPass, ActEngine, EngineOp,
        InvalidateBaseline, CurrentToken, Baseline, Poll, PollTimeout, CloseRemove, CloseEngine,
        pageVars
  <1>5. CASE Drift \/ Expire \/ ReapPlan \/ ReapTake \/ ReapClose \/ UNCHANGED vars
    BY <1>5, <1>3 DEF Drift, Expire, ReapPlan, ReapTake, ReapClose, vars, pageVars
  <1> QED BY <1>1, <1>2, <1>3, <1>4, <1>5 DEF Next, ReaperStep, Rest

(* What a wait compares with stays what it was captured as.                 *)
LEMMA WaitStep ==
  TypeOK /\ PathInv /\ TokenInv /\ WaitInv /\ [Next]_vars => WaitInv'
  <1> SUFFICES ASSUME TypeOK, PathInv, TokenInv, WaitInv, [Next]_vars PROVE WaitInv'
    OBVIOUS
  <1> USE SentinelAssumption
      DEF TypeOK, TypeCalls, TypePage, Locals, Replies, pageVars, engineVars, storeVars, callVars, agentVars, boundVars, histVars, Goto, WaitInv
  <1>1. ASSUME NEW c \in Clients, Begin(c) PROVE WaitInv'
    BY <1>1 DEF Begin, NoLocals, FirstStep
  <1>2. ASSUME NEW c \in Clients, EngineHandleFor(c) PROVE WaitInv'
    BY <1>2 DEF EngineHandleFor, AfterHandle
  <1>3. ASSUME NEW c \in Clients, Reopen(c) PROVE WaitInv'
    BY <1>3 DEF Reopen
  <1>4. ASSUME NEW c \in Clients, Install(c) PROVE WaitInv'
    BY <1>4 DEF Install, AfterHandle
  <1>5. ASSUME NEW c \in Clients, PageGone(c) PROVE WaitInv'
    BY <1>5 DEF PageGone, Return
  <1>6. ASSUME NEW c \in Clients, HandleGone(c) PROVE WaitInv'
    BY <1>6 DEF HandleGone, Return
  <1>7. ASSUME NEW c \in Clients, EngineFault(c) PROVE WaitInv'
    BY <1>7 DEF EngineFault, Return
  <1>8. ASSUME NEW c \in Clients, Snapshot(c) PROVE WaitInv'
    BY <1>8 DEF Snapshot, PathInv, Path
  <1>9. ASSUME NEW c \in Clients, Apply(c) PROVE WaitInv'
    BY <1>9 DEF Apply, ViewForm, compute
  <1>10. ASSUME NEW c \in Clients, Store(c) PROVE WaitInv'
    BY <1>10 DEF Store
  <1>11. ASSUME NEW c \in Clients, Audit(c) PROVE WaitInv'
    BY <1>11 DEF Audit
  <1>12. ASSUME NEW c \in Clients, ActLock(c) PROVE WaitInv'
    BY <1>12 DEF ActLock
  <1>13. ASSUME NEW c \in Clients, ActStale(c) PROVE WaitInv'
    BY <1>13 DEF ActStale, Return
  <1>14. ASSUME NEW c \in Clients, ActHit(c) PROVE WaitInv'
    BY <1>14 DEF ActHit, Return
  <1>15. ASSUME NEW c \in Clients, ActCheck(c) PROVE WaitInv'
    BY <1>15 DEF ActCheck
  <1>16. ASSUME NEW c \in Clients, ActPass(c) PROVE WaitInv'
    BY <1>16 DEF ActPass
  <1>17. ASSUME NEW c \in Clients, ActEngine(c) PROVE WaitInv'
    BY <1>17 DEF ActEngine, PathInv, Path
  <1>18. ASSUME NEW c \in Clients, EngineOp(c) PROVE WaitInv'
    BY <1>18 DEF EngineOp, AfterEngine
  <1>19. ASSUME NEW c \in Clients, InvalidateBaseline(c) PROVE WaitInv'
    BY <1>19 DEF InvalidateBaseline
  <1>20. ASSUME NEW c \in Clients, CurrentToken(c) PROVE WaitInv'
    BY <1>20 DEF CurrentToken, Return
  <1>21. ASSUME NEW c \in Clients, Rebase(c) PROVE WaitInv'
    BY <1>21 DEF Rebase, compute
  <1>22. ASSUME NEW c \in Clients, Baseline(c) PROVE WaitInv'
    BY <1>22 DEF Baseline, TokenInv, compute
  <1>23. ASSUME NEW c \in Clients, Poll(c) PROVE WaitInv'
    <2>1. loc[c].base = <<loc[c].base[1], loc[c].base[2]>>
      BY DEF Tokens
    <2>2. req[c].op = "token_change"
      BY <1>23 DEF Poll, PathInv, Path
    <2>3. \A d \in Clients \ {c} : pc'[d] = pc[d] /\ loc'[d] = loc[d]
      BY <1>23 DEF Poll
    <2>4. /\ loc'[c].base = loc[c].base /\ loc'[c].burl = loc[c].burl
          /\ pc'[c] \in {"poll", "apply"}
          /\ pc'[c] = "apply" => loc'[c].snap # loc[c].base[1]
      BY <1>23, <2>1, <2>2 DEF Poll, compute
    <2>5. req' = req /\ reply' = reply
      BY <1>23 DEF Poll
    <2> QED BY <1>23, <2>2, <2>3, <2>4, <2>5 DEF Poll
  <1>24. ASSUME NEW c \in Clients, PollTimeout(c) PROVE WaitInv'
    BY <1>24 DEF PollTimeout, Return
  <1>25. ASSUME NEW c \in Clients, CloseRemove(c) PROVE WaitInv'
    BY <1>25 DEF CloseRemove
  <1>26. ASSUME NEW c \in Clients, CloseEngine(c) PROVE WaitInv'
    BY <1>26 DEF CloseEngine, Return
  <1>27. ASSUME Drift PROVE WaitInv'
    BY <1>27 DEF Drift
  <1>28. ASSUME Expire PROVE WaitInv'
    BY <1>28 DEF Expire
  <1>29. ASSUME ReapPlan PROVE WaitInv'
    BY <1>29 DEF ReapPlan
  <1>30. ASSUME ReapTake PROVE WaitInv'
    BY <1>30 DEF ReapTake
  <1>31. ASSUME ReapClose PROVE WaitInv'
    BY <1>31 DEF ReapClose
  <1>32. ASSUME UNCHANGED vars PROVE WaitInv'
    BY <1>32 DEF vars
  <1> QED
    BY <1>1, <1>2, <1>3, <1>4, <1>5, <1>6, <1>7, <1>8, <1>9, <1>10, <1>11, <1>12, <1>13,
       <1>14, <1>15, <1>16, <1>17, <1>18, <1>19, <1>20, <1>21, <1>22, <1>23, <1>24, <1>25,
       <1>26, <1>27, <1>28, <1>29, <1>30, <1>31, <1>32
    DEF Next, CallStep, ReaperStep, Rest

(* A vs_wait for a token change returns a token other than the one it       *)
(* started from, whatever the page's other calls did while it polled.       *)
THEOREM WaitsSeeAChange == Spec => []WaitSawChange
  <1>1. Init => PathInv /\ TokenInv /\ WaitInv
    BY DEF Init, PathInv, Path, AllOps, TokenInv, WaitInv
  <1>2. TypeOK /\ PathInv /\ TokenInv /\ WaitInv /\ [Next]_vars
          => (PathInv /\ TokenInv /\ WaitInv)'
    BY PathStep, TokenStep, WaitStep
  <1>3. WaitInv => WaitSawChange
    BY DEF WaitInv, WaitSawChange
  <1> QED BY <1>1, <1>2, <1>3, TypeCorrect, PTL DEF Spec

-----------------------------------------------------------------------------
(* The page row agrees with the page.                                       *)

(* Whatever form a body takes, its token is that of the snapshot.           *)
LEMMA FormToken ==
  ASSUME NEW t, NEW forced \in BOOLEAN
  PROVE  ViewForm(t, forced).kind = "ok" /\ ViewForm(t, forced).token = compute(t, url)
  BY DEF ViewForm

(* A step that publishes nothing and writes no row.                         *)
LEMMA RowFrame ==
  ASSUME RowInv, UNCHANGED <<url, last_token, row, ahead, misordered>>,
         \A c \in Clients : /\ pc'[c] = "store" <=> pc[c] = "store"
                            /\ pc[c] = "store" => req'[c] = req[c] /\ reply'[c] = reply[c]
  PROVE  RowInv'
  BY DEF RowInv, RowAgrees, Navigating

(* A call that publishes is behind all that have a row to write; the first  *)
(* of them to write leaves the others as they are.                          *)
LEMMA RowStep == TypeOK /\ PathInv /\ RowInv /\ [Next]_vars => RowInv'
  <1> SUFFICES ASSUME TypeOK, PathInv, RowInv, [Next]_vars PROVE RowInv'
    OBVIOUS
  <1> USE SentinelAssumption
      DEF TypeOK, TypeCalls, TypePage, TypeStore, Replies, NoReply, pageVars, engineVars, storeVars, callVars, agentVars, boundVars, histVars,
          Goto, RowInv, RowAgrees, Navigating
  <1>1. ASSUME NEW c \in Clients, Begin(c) PROVE RowInv'
    BY <1>1, RowFrame DEF Begin, Requests, FirstStep
  <1>2. ASSUME NEW c \in Clients, EngineHandleFor(c) PROVE RowInv'
    BY <1>2, RowFrame DEF EngineHandleFor, AfterHandle
  <1>3. ASSUME NEW c \in Clients, Reopen(c) PROVE RowInv'
    BY <1>3, RowFrame DEF Reopen
  <1>4. ASSUME NEW c \in Clients, Install(c) PROVE RowInv'
    BY <1>4, RowFrame DEF Install, AfterHandle
  <1>5. ASSUME NEW c \in Clients, PageGone(c) PROVE RowInv'
    BY <1>5, RowFrame DEF PageGone, Return
  <1>6. ASSUME NEW c \in Clients, HandleGone(c) PROVE RowInv'
    BY <1>6, RowFrame DEF HandleGone, Return
  <1>7. ASSUME NEW c \in Clients, EngineFault(c) PROVE RowInv'
    BY <1>7, RowFrame DEF EngineFault, Return
  <1>8. ASSUME NEW c \in Clients, Snapshot(c) PROVE RowInv'
    BY <1>8, RowFrame DEF Snapshot
  <1>9. ASSUME NEW c \in Clients, Apply(c) PROVE RowInv'
    <2>1. /\ reply'[c].token = compute(loc[c].snap, url) /\ req[c].op # "navigate"
          /\ last_token' = compute(loc[c].snap, url)
      BY <1>9, FormToken DEF Apply, PathInv, Path, apply_snapshot, SetToken
    <2>2. /\ \A d \in Clients \ {c} : pc'[d] = pc[d] /\ reply'[d] = reply[d]
          /\ pc[c] = "apply" /\ pc'[c] = "store"
          /\ UNCHANGED <<req, row, url, misordered>>
      BY <1>9 DEF Apply
    <2>3. /\ ahead \subseteq ahead'
          /\ \A d \in Clients : pc[d] = "store" => <<d, c>> \in ahead'
      BY <1>9 DEF Apply, Published
    <2> QED BY <2>1, <2>2, <2>3
  <1>10. ASSUME NEW c \in Clients, Store(c) PROVE RowInv'
    <2>1. /\ \A d \in Clients \ {c} : pc'[d] = pc[d]
          /\ pc[c] = "store" /\ pc'[c] = "audit"
          /\ UNCHANGED <<req, reply, url, last_token>>
          /\ row' = [url |-> IF req[c].op = "navigate" THEN req[c].url ELSE row.url,
                     token |-> reply[c].token]
      BY <1>10 DEF Store
    <2>2. /\ ~misordered' => ~misordered /\ \A d \in Clients : <<d, c>> \notin ahead
          /\ \A d, e \in Clients \ {c} : <<d, e>> \in ahead => <<d, e>> \in ahead'
      BY <1>10 DEF Store, RowWritten
    <2> SUFFICES ASSUME ~misordered' PROVE RowInv'
      OBVIOUS
    <2>3. ASSUME NEW d \in Clients, pc'[d] = "store",
                 \A e \in Clients : pc'[e] = "store" => <<d, e>> \notin ahead'
          PROVE  reply'[d].token = last_token'
      BY <2>1, <2>2, <2>3
    <2>4. ASSUME NEW d \in Clients, Navigating(d)',
                 \A e \in Clients : Navigating(e)' => <<d, e>> \notin ahead'
          PROVE  req'[d].url = url'
      BY <2>1, <2>2, <2>4
    <2>5. ASSUME \A d \in Clients : ~Navigating(d)' PROVE row'.url = url'
      <3>1. CASE req[c].op = "navigate"
        BY <2>1, <2>2, <2>5, <3>1
      <3>2. CASE req[c].op # "navigate"
        BY <2>1, <2>2, <2>5, <3>2
      <3> QED BY <3>1, <3>2
    <2>6. ASSUME \A d \in Clients : pc'[d] # "store" PROVE row'.token = last_token'
      BY <2>1, <2>2, <2>6
    <2> QED BY <2>3, <2>4, <2>5, <2>6
  <1>11. ASSUME NEW c \in Clients, Audit(c) PROVE RowInv'
    BY <1>11, RowFrame DEF Audit
  <1>12. ASSUME NEW c \in Clients, ActLock(c) PROVE RowInv'
    BY <1>12, RowFrame DEF ActLock
  <1>13. ASSUME NEW c \in Clients, ActStale(c) PROVE RowInv'
    BY <1>13, RowFrame DEF ActStale, Return
  <1>14. ASSUME NEW c \in Clients, ActHit(c) PROVE RowInv'
    BY <1>14, RowFrame DEF ActHit, Return
  <1>15. ASSUME NEW c \in Clients, ActCheck(c) PROVE RowInv'
    BY <1>15, RowFrame DEF ActCheck
  <1>16. ASSUME NEW c \in Clients, ActPass(c) PROVE RowInv'
    BY <1>16, RowFrame DEF ActPass
  <1>17. ASSUME NEW c \in Clients, ActEngine(c) PROVE RowInv'
    BY <1>17, RowFrame DEF ActEngine
  <1>18. ASSUME NEW c \in Clients, EngineOp(c) PROVE RowInv'
    BY <1>18, RowFrame DEF EngineOp, AfterEngine
  <1>19. ASSUME NEW c \in Clients, InvalidateBaseline(c) PROVE RowInv'
    BY <1>19, RowFrame DEF InvalidateBaseline
  <1>20. ASSUME NEW c \in Clients, CurrentToken(c) PROVE RowInv'
    BY <1>20, RowFrame DEF CurrentToken, Return
  <1>21. ASSUME NEW c \in Clients, Rebase(c) PROVE RowInv'
    <2>1. /\ reply'[c].token = last_token' /\ url' = req[c].url /\ req[c].op = "navigate"
      BY <1>21 DEF Rebase
    <2>2. /\ \A d \in Clients \ {c} : pc'[d] = pc[d] /\ reply'[d] = reply[d]
          /\ pc[c] = "rebase" /\ pc'[c] = "store"
          /\ UNCHANGED <<req, row, misordered>>
      BY <1>21 DEF Rebase
    <2>3. /\ ahead \subseteq ahead'
          /\ \A d \in Clients : pc[d] = "store" => <<d, c>> \in ahead'
      BY <1>21 DEF Rebase, Published
    <2> QED BY <2>1, <2>2, <2>3
  <1>22. ASSUME NEW c \in Clients, Baseline(c) PROVE RowInv'
    BY <1>22, RowFrame DEF Baseline
  <1>23. ASSUME NEW c \in Clients, Poll(c) PROVE RowInv'
    BY <1>23, RowFrame DEF Poll
  <1>24. ASSUME NEW c \in Clients, PollTimeout(c) PROVE RowInv'
    BY <1>24, RowFrame DEF PollTimeout, Return
  <1>25. ASSUME NEW c \in Clients, CloseRemove(c) PROVE RowInv'
    BY <1>25, RowFrame DEF CloseRemove
  <1>26. ASSUME NEW c \in Clients, CloseEngine(c) PROVE RowInv'
    BY <1>26, RowFrame DEF CloseEngine, Return
  <1>27. ASSUME Drift PROVE RowInv'
    BY <1>27, RowFrame DEF Drift
  <1>28. ASSUME Expire PROVE RowInv'
    BY <1>28, RowFrame DEF Expire
  <1>29. ASSUME ReapPlan PROVE RowInv'
    BY <1>29, RowFrame DEF ReapPlan
  <1>30. ASSUME ReapTake PROVE RowInv'
    BY <1>30, RowFrame DEF ReapTake
  <1>31. ASSUME ReapClose PROVE RowInv'
    BY <1>31, RowFrame DEF ReapClose
  <1>32. ASSUME UNCHANGED vars PROVE RowInv'
    BY <1>32, RowFrame DEF vars
  <1> QED
    BY <1>1, <1>2, <1>3, <1>4, <1>5, <1>6, <1>7, <1>8, <1>9, <1>10, <1>11, <1>12, <1>13,
       <1>14, <1>15, <1>16, <1>17, <1>18, <1>19, <1>20, <1>21, <1>22, <1>23, <1>24, <1>25,
       <1>26, <1>27, <1>28, <1>29, <1>30, <1>31, <1>32
    DEF Next, CallStep, ReaperStep, Rest

(* With no row left to write, the store's row has the page's url and token, *)
(* unless two calls wrote in another order than they published, for any     *)
(* number of clients (update_page_url, update_page_token).                  *)
THEOREM RowsAgree == Spec => []RowAgrees
  <1>1. Init => PathInv /\ RowInv
    BY DEF Init, PathInv, Path, AllOps, RowInv, RowAgrees, Navigating
  <1>2. TypeOK /\ PathInv /\ RowInv /\ [Next]_vars => (PathInv /\ RowInv)'
    BY PathStep, RowStep
  <1>3. TypeOK /\ RowInv => RowAgrees
    BY DEF RowInv, RowAgrees
  <1> QED BY <1>1, <1>2, <1>3, TypeCorrect, PTL DEF Spec

=============================================================================
