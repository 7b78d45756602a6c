-------------------------- MODULE LoneClientProofs --------------------------
(***************************************************************************)
(* What the daemon promises a client that has a page to itself, while the  *)
(* page's own scripts, the reaper and the clock go on.                     *)
(***************************************************************************)
EXTENDS PageOpsProofs

-----------------------------------------------------------------------------
(* What a call publishes is the page's token until it is answered.          *)

(* No other call publishes in between.                                      *)
LEMMA LoneRowStep ==
  ASSUME Alone
  PROVE  TypeOK /\ PathInv /\ LoneRowInv /\ [Next]_vars => LoneRowInv'
  <1> SUFFICES ASSUME TypeOK, PathInv, LoneRowInv, [Next]_vars PROVE LoneRowInv'
    OBVIOUS
  <1> USE SentinelAssumption
      DEF TypeOK, TypeCalls, TypePage, TypeStore, Replies, NoReply, pageVars, engineVars, storeVars, callVars, agentVars, boundVars, histVars,
          Goto, Alone, LoneRowInv
  <1>1. ASSUME NEW c \in Clients, Begin(c) PROVE LoneRowInv'
    BY <1>1 DEF Begin, Requests, FirstStep
  <1>2. ASSUME NEW c \in Clients, EngineHandleFor(c) PROVE LoneRowInv'
    BY <1>2 DEF EngineHandleFor, AfterHandle
  <1>3. ASSUME NEW c \in Clients, Reopen(c) PROVE LoneRowInv'
    BY <1>3 DEF Reopen
  <1>4. ASSUME NEW c \in Clients, Install(c) PROVE LoneRowInv'
    BY <1>4 DEF Install, AfterHandle
  <1>5. ASSUME NEW c \in Clients, PageGone(c) PROVE LoneRowInv'
    BY <1>5 DEF PageGone, Return
  <1>6. ASSUME NEW c \in Clients, HandleGone(c) PROVE LoneRowInv'
    BY <1>6 DEF HandleGone, Return
  <1>7. ASSUME NEW c \in Clients, EngineFault(c) PROVE LoneRowInv'
    BY <1>7 DEF EngineFault, Return
  <1>8. ASSUME NEW c \in Clients, Snapshot(c) PROVE LoneRowInv'
    BY <1>8 DEF Snapshot
  <1>9. ASSUME NEW c \in Clients, Apply(c) PROVE LoneRowInv'
    <2>1. /\ reply'[c].kind = "ok" /\ reply'[c].token = compute(loc[c].snap, url)
          /\ req[c].op # "navigate"
      BY <1>9, FormToken DEF Apply, PathInv, Path
    <2>2. last_token' = compute(loc[c].snap, url) /\ pc'[c] = "store" /\ pc[c] # "store"
      BY <1>9 DEF Apply, apply_snapshot, SetToken
    <2> QED BY <1>9, <2>1, <2>2 DEF Apply
  <1>10. ASSUME NEW c \in Clients, Store(c) PROVE LoneRowInv'
    BY <1>10 DEF Store
  <1>11. ASSUME NEW c \in Clients, Audit(c) PROVE LoneRowInv'
    BY <1>11 DEF Audit
  <1>12. ASSUME NEW c \in Clients, ActLock(c) PROVE LoneRowInv'
    BY <1>12 DEF ActLock
  <1>13. ASSUME NEW c \in Clients, ActStale(c) PROVE LoneRowInv'
    BY <1>13 DEF ActStale, Return
  <1>14. ASSUME NEW c \in Clients, ActHit(c) PROVE LoneRowInv'
    BY <1>14 DEF ActHit, Return
  <1>15. ASSUME NEW c \in Clients, ActCheck(c) PROVE LoneRowInv'
    BY <1>15 DEF ActCheck
  <1>16. ASSUME NEW c \in Clients, ActPass(c) PROVE LoneRowInv'
    BY <1>16 DEF ActPass
  <1>17. ASSUME NEW c \in Clients, ActEngine(c) PROVE LoneRowInv'
    BY <1>17 DEF ActEngine
  <1>18. ASSUME NEW c \in Clients, EngineOp(c) PROVE LoneRowInv'
    BY <1>18 DEF EngineOp, AfterEngine
  <1>19. ASSUME NEW c \in Clients, InvalidateBaseline(c) PROVE LoneRowInv'
    BY <1>19 DEF InvalidateBaseline
  <1>20. ASSUME NEW c \in Clients, CurrentToken(c) PROVE LoneRowInv'
    BY <1>20 DEF CurrentToken, Return
  <1>21. ASSUME NEW c \in Clients, Rebase(c) PROVE LoneRowInv'
    BY <1>21 DEF Rebase, SetToken
  <1>22. ASSUME NEW c \in Clients, Baseline(c) PROVE LoneRowInv'
    BY <1>22 DEF Baseline
  <1>23. ASSUME NEW c \in Clients, Poll(c) PROVE LoneRowInv'
    BY <1>23 DEF Poll
  <1>24. ASSUME NEW c \in Clients, PollTimeout(c) PROVE LoneRowInv'
    BY <1>24 DEF PollTimeout, Return
  <1>25. ASSUME NEW c \in Clients, CloseRemove(c) PROVE LoneRowInv'
    BY <1>25 DEF CloseRemove
  <1>26. ASSUME NEW c \in Clients, CloseEngine(c) PROVE LoneRowInv'
    BY <1>26 DEF CloseEngine, Return
  <1>27. ASSUME Drift PROVE LoneRowInv'
    BY <1>27 DEF Drift
  <1>28. ASSUME Expire PROVE LoneRowInv'
    BY <1>28 DEF Expire
  <1>29. ASSUME ReapPlan PROVE LoneRowInv'
    BY <1>29 DEF ReapPlan
  <1>30. ASSUME ReapTake PROVE LoneRowInv'
    BY <1>30 DEF ReapTake
  <1>31. ASSUME ReapClose PROVE LoneRowInv'
    BY <1>31 DEF ReapClose
  <1>32. ASSUME UNCHANGED vars PROVE LoneRowInv'
    BY <1>32 DEF vars
  <1> QED
    BY <1>1, <1>2, <1>3, <1>4, <1>5, <1>6, <1>7, <1>8, <1>9, <1>10, <1>11, <1>12, <1>13,
       <1>14, <1>15, <1>16, <1>17, <1>18, <1>19, <1>20, <1>21, <1>22, <1>23, <1>24, <1>25,
       <1>26, <1>27, <1>28, <1>29, <1>30, <1>31, <1>32
    DEF Next, CallStep, ReaperStep, Rest

(* It holds throughout.                                                     *)
LEMMA LoneRowAlways == ASSUME Alone PROVE Spec => [](TypeOK /\ PathInv /\ TokenInv /\ LoneRowInv)
  <1>1. Init => PathInv /\ TokenInv /\ LoneRowInv
    BY DEF Init, PathInv, Path, AllOps, TokenInv, LoneRowInv
  <1>2. TypeOK /\ PathInv /\ TokenInv /\ LoneRowInv /\ [Next]_vars
          => (PathInv /\ TokenInv /\ LoneRowInv)'
    BY PathStep, TokenStep, LoneRowStep
  <1> QED BY <1>1, <1>2, TypeCorrect, PTL DEF Spec

-----------------------------------------------------------------------------
(* The token answered is the page's.                                        *)

(* What a call published it answers with.                                   *)
LEMMA AnswerStep ==
  ASSUME Alone
  PROVE  TypeOK /\ PathInv /\ LoneRowInv /\ HandleInv /\ AnswerInv /\ [Next]_vars => AnswerInv'
  <1> SUFFICES ASSUME TypeOK, PathInv, LoneRowInv, HandleInv, AnswerInv, [Next]_vars
               PROVE  AnswerInv'
    OBVIOUS
  <1> USE SentinelAssumption
      DEF TypeOK, TypeCalls, TypePage, TypeAgents, Replies, NoReply, pageVars, engineVars, storeVars, callVars, agentVars, boundVars, histVars,
          Goto, Alone, AnswerInv, ExecutedTokenValid
  <1>1. ASSUME NEW c \in Clients, Begin(c) PROVE AnswerInv'
    BY <1>1 DEF Begin, NoReply
  <1>2. ASSUME NEW c \in Clients, EngineHandleFor(c) PROVE AnswerInv'
    BY <1>2 DEF EngineHandleFor, AfterHandle
  <1>3. ASSUME NEW c \in Clients, Reopen(c) PROVE AnswerInv'
    BY <1>3 DEF Reopen
  <1>4. ASSUME NEW c \in Clients, Install(c) PROVE AnswerInv'
    BY <1>4 DEF Install, AfterHandle
  <1>5. ASSUME NEW c \in Clients, PageGone(c) PROVE AnswerInv'
    BY <1>5 DEF PageGone, Return
  <1>6. ASSUME NEW c \in Clients, HandleGone(c) PROVE AnswerInv'
    BY <1>6 DEF HandleGone, Return
  <1>7. ASSUME NEW c \in Clients, EngineFault(c) PROVE AnswerInv'
    BY <1>7 DEF EngineFault, Return
  <1>8. ASSUME NEW c \in Clients, Snapshot(c) PROVE AnswerInv'
    BY <1>8 DEF Snapshot
  <1>9. ASSUME NEW c \in Clients, Apply(c) PROVE AnswerInv'
    BY <1>9 DEF Apply
  <1>10. ASSUME NEW c \in Clients, Store(c) PROVE AnswerInv'
    BY <1>10 DEF Store, LoneRowInv, PathInv, Path
  <1>11. ASSUME NEW c \in Clients, Audit(c) PROVE AnswerInv'
    BY <1>11 DEF Audit, LoneRowInv
  <1>12. ASSUME NEW c \in Clients, ActLock(c) PROVE AnswerInv'
    BY <1>12 DEF ActLock
  <1>13. ASSUME NEW c \in Clients, ActStale(c) PROVE AnswerInv'
    BY <1>13 DEF ActStale, Return
  <1>14. ASSUME NEW c \in Clients, ActHit(c) PROVE AnswerInv'
    BY <1>14 DEF ActHit, Return
  <1>15. ASSUME NEW c \in Clients, ActCheck(c) PROVE AnswerInv'
    BY <1>15 DEF ActCheck
  <1>16. ASSUME NEW c \in Clients, ActPass(c) PROVE AnswerInv'
    BY <1>16 DEF ActPass
  <1>17. ASSUME NEW c \in Clients, ActEngine(c) PROVE AnswerInv'
    BY <1>17 DEF ActEngine
  <1>18. ASSUME NEW c \in Clients, EngineOp(c) PROVE AnswerInv'
    BY <1>18 DEF EngineOp, AfterEngine
  <1>19. ASSUME NEW c \in Clients, InvalidateBaseline(c) PROVE AnswerInv'
    BY <1>19 DEF InvalidateBaseline
  <1>20. ASSUME NEW c \in Clients, CurrentToken(c) PROVE AnswerInv'
    BY <1>20 DEF CurrentToken, Return, PathInv, Path
  <1>21. ASSUME NEW c \in Clients, Rebase(c) PROVE AnswerInv'
    BY <1>21 DEF Rebase
  <1>22. ASSUME NEW c \in Clients, Baseline(c) PROVE AnswerInv'
    BY <1>22 DEF Baseline
  <1>23. ASSUME NEW c \in Clients, Poll(c) PROVE AnswerInv'
    BY <1>23 DEF Poll
  <1>24. ASSUME NEW c \in Clients, PollTimeout(c) PROVE AnswerInv'
    BY <1>24 DEF PollTimeout, Return
  <1>25. ASSUME NEW c \in Clients, CloseRemove(c) PROVE AnswerInv'
    BY <1>25 DEF CloseRemove
  <1>26. ASSUME NEW c \in Clients, CloseEngine(c) PROVE AnswerInv'
    BY <1>26 DEF CloseEngine, Return, HandleInv, ClosingGone
  <1>27. ASSUME Drift PROVE AnswerInv'
    BY <1>27 DEF Drift
  <1>28. ASSUME Expire PROVE AnswerInv'
    BY <1>28 DEF Expire
  <1>29. ASSUME ReapPlan PROVE AnswerInv'
    BY <1>29 DEF ReapPlan
  <1>30. ASSUME ReapTake PROVE AnswerInv'
    BY <1>30 DEF ReapTake
  <1>31. ASSUME ReapClose PROVE AnswerInv'
    BY <1>31 DEF ReapClose
  <1>32. ASSUME UNCHANGED vars PROVE AnswerInv'
    BY <1>32 DEF vars
  <1> QED
    BY <1>1, <1>2, <1>3, <1>4, <1>5, <1>6, <1>7, <1>8, <1>9, <1>10, <1>11, <1>12, <1>13,
       <1>14, <1>15, <1>16, <1>17, <1>18, <1>19, <1>20, <1>21, <1>22, <1>23, <1>24, <1>25,
       <1>26, <1>27, <1>28, <1>29, <1>30, <1>31, <1>32
    DEF Next, CallStep, ReaperStep, Rest

(* The token a lone client was just answered with is the page's: its next   *)
(* vs_act may use it.                                                       *)
THEOREM AnsweredTokensAreValid == ASSUME Alone PROVE Spec => []ExecutedTokenValid
  <1>1. Init => HandleInv /\ AnswerInv
    BY HandleInit DEF Init, AnswerInv, ExecutedTokenValid, NoReply
  <1>2. TypeOK /\ PathInv /\ LoneRowInv /\ HandleInv /\ AnswerInv /\ [Next]_vars
          => (HandleInv /\ AnswerInv)'
    BY HandleStep, AnswerStep
  <1>3. AnswerInv => ExecutedTokenValid
    BY DEF AnswerInv
  <1> QED BY <1>1, <1>2, <1>3, LoneRowAlways, PTL DEF Spec

-----------------------------------------------------------------------------
(* An act is carried out once.                                              *)

(* An act that goes on to the engine was checked in the current epoch and   *)
(* has no row.                                                              *)
LEMMA PassStep ==
  ASSUME Alone
  PROVE  TypeOK /\ PathInv /\ SerialInv /\ PassInv /\ [Next]_vars => PassInv'
  <1> SUFFICES ASSUME TypeOK, PathInv, SerialInv, PassInv, [Next]_vars PROVE PassInv'
    OBVIOUS
  <1> USE SentinelAssumption
      DEF TypeOK, TypeCalls, TypePage, TypeHistory, TypeStore, pageVars, engineVars, storeVars, callVars, agentVars, boundVars, histVars,
          Goto, Alone, PassInv, Key
  <1>1. ASSUME NEW c \in Clients, Begin(c) PROVE PassInv'
    BY <1>1 DEF Begin, FirstStep
  <1>2. ASSUME NEW c \in Clients, EngineHandleFor(c) PROVE PassInv'
    BY <1>2 DEF EngineHandleFor, AfterHandle
  <1>3. ASSUME NEW c \in Clients, Reopen(c) PROVE PassInv'
    BY <1>3 DEF Reopen
  <1>4. ASSUME NEW c \in Clients, Install(c) PROVE PassInv'
    BY <1>4 DEF Install, AfterHandle
  <1>5. ASSUME NEW c \in Clients, PageGone(c) PROVE PassInv'
    BY <1>5 DEF PageGone, Return
  <1>6. ASSUME NEW c \in Clients, HandleGone(c) PROVE PassInv'
    BY <1>6 DEF HandleGone, Return
  <1>7. ASSUME NEW c \in Clients, EngineFault(c) PROVE PassInv'
    BY <1>7 DEF EngineFault, Return, SerialInv, CheckInv
  <1>8. ASSUME NEW c \in Clients, Snapshot(c) PROVE PassInv'
    BY <1>8 DEF Snapshot, PathInv, Path
  <1>9. ASSUME NEW c \in Clients, Apply(c) PROVE PassInv'
    <2>1. \A e \in effects : e.epoch \in Nat /\ e.epoch <= epoch /\ epoch \in Nat
      BY DEF SerialInv, EffectInv, Effects
    <2>2. /\ epoch' = IF last_token' = last_token THEN epoch ELSE epoch + 1
          /\ UNCHANGED <<effects, exists, req, loc, fresh>>
      BY <1>9 DEF Apply, apply_snapshot, SetToken
    <2>3. pc'[c] = "store" /\ \A d \in Clients : d = c
      BY <1>9 DEF Apply
    <2>4. \A e \in effects : e.epoch = epoch' => e.before = last_token'
      BY <2>1, <2>2
    <2> QED BY <2>2, <2>3, <2>4
  <1>10. ASSUME NEW c \in Clients, Store(c) PROVE PassInv'
    BY <1>10 DEF Store
  <1>11. ASSUME NEW c \in Clients, Audit(c) PROVE PassInv'
    BY <1>11 DEF Audit
  <1>12. ASSUME NEW c \in Clients, ActLock(c) PROVE PassInv'
    BY <1>12 DEF ActLock
  <1>13. ASSUME NEW c \in Clients, ActStale(c) PROVE PassInv'
    BY <1>13 DEF ActStale, Return
  <1>14. ASSUME NEW c \in Clients, ActHit(c) PROVE PassInv'
    BY <1>14 DEF ActHit, Return
  <1>15. ASSUME NEW c \in Clients, ActCheck(c) PROVE PassInv'
    BY <1>15 DEF ActCheck
  <1>16. ASSUME NEW c \in Clients, ActPass(c) PROVE PassInv'
    BY <1>16 DEF ActPass
  <1>17. ASSUME NEW c \in Clients, ActEngine(c) PROVE PassInv'
    BY <1>17 DEF ActEngine, SerialInv, CheckInv
  <1>18. ASSUME NEW c \in Clients, EngineOp(c) PROVE PassInv'
    BY <1>18 DEF EngineOp, AfterEngine
  <1>19. ASSUME NEW c \in Clients, InvalidateBaseline(c) PROVE PassInv'
    BY <1>19 DEF InvalidateBaseline
  <1>20. ASSUME NEW c \in Clients, CurrentToken(c) PROVE PassInv'
    BY <1>20 DEF CurrentToken, Return
  <1>21. ASSUME NEW c \in Clients, Rebase(c) PROVE PassInv'
    <2>1. \A e \in effects : e.epoch \in Nat /\ e.epoch <= epoch /\ epoch \in Nat
      BY DEF SerialInv, EffectInv, Effects
    <2>2. /\ epoch' = IF last_token' = last_token THEN epoch ELSE epoch + 1
          /\ UNCHANGED <<effects, exists, req, loc, fresh>>
      BY <1>21 DEF Rebase, apply_snapshot, SetToken
    <2>3. pc'[c] = "store" /\ \A d \in Clients : d = c
      BY <1>21 DEF Rebase
    <2>4. \A e \in effects : e.epoch = epoch' => e.before = last_token'
      BY <2>1, <2>2
    <2> QED BY <2>2, <2>3, <2>4
  <1>22. ASSUME NEW c \in Clients, Baseline(c) PROVE PassInv'
    BY <1>22 DEF Baseline
  <1>23. ASSUME NEW c \in Clients, Poll(c) PROVE PassInv'
    BY <1>23 DEF Poll, PathInv, Path
  <1>24. ASSUME NEW c \in Clients, PollTimeout(c) PROVE PassInv'
    BY <1>24 DEF PollTimeout, Return
  <1>25. ASSUME NEW c \in Clients, CloseRemove(c) PROVE PassInv'
    BY <1>25 DEF CloseRemove, PathInv, Path
  <1>26. ASSUME NEW c \in Clients, CloseEngine(c) PROVE PassInv'
    BY <1>26 DEF CloseEngine, Return
  <1>27. ASSUME Drift PROVE PassInv'
    BY <1>27 DEF Drift
  <1>28. ASSUME Expire PROVE PassInv'
    <2>1. \A d \in effects' : \E e \in effects : d = e \/ d = [e EXCEPT !.ttl = FALSE]
      BY <1>28 DEF Expire
    <2>2. \A d \in effects' : \E e \in effects : d.epoch = e.epoch /\ d.before = e.before
      BY <2>1 DEF Effects
    <2>3. fresh' \subseteq fresh /\ UNCHANGED <<epoch, last_token, exists, pc, req, loc>>
      BY <1>28 DEF Expire
    <2> QED BY <2>2, <2>3
  <1>29. ASSUME ReapPlan PROVE PassInv'
    BY <1>29 DEF ReapPlan
  <1>30. ASSUME ReapTake PROVE PassInv'
    BY <1>30 DEF ReapTake
  <1>31. ASSUME ReapClose PROVE PassInv'
    BY <1>31 DEF ReapClose
  <1>32. ASSUME UNCHANGED vars PROVE PassInv'
    BY <1>32 DEF vars
  <1> QED
    BY <1>1, <1>2, <1>3, <1>4, <1>5, <1>6, <1>7, <1>8, <1>9, <1>10, <1>11, <1>12, <1>13,
       <1>14, <1>15, <1>16, <1>17, <1>18, <1>19, <1>20, <1>21, <1>22, <1>23, <1>24, <1>25,
       <1>26, <1>27, <1>28, <1>29, <1>30, <1>31, <1>32
    DEF Next, CallStep, ReaperStep, Rest

(* A step that carries nothing out keeps it, if the rows that were due are  *)
(* still due or are written, or the page is gone.                           *)
LEMMA OnceFrame ==
  ASSUME OnceInv, UNCHANGED <<effects, nfaults>>, fresh \subseteq fresh', exists' => exists,
         \A e \in effects : e.epoch = epoch' => e.epoch = epoch,
         \A d \in Clients : Due(d) => (Due(d)' /\ Key(d)' = Key(d)) \/ Key(d) \in fresh' \/ ~exists'
  PROVE  OnceInv'
  <1>1. ASSUME nfaults = 0, NEW e \in effects, exists', e.epoch = epoch', e.ttl
        PROVE  <<e.before, e.arg>> \in fresh' \cup {Key(c) : c \in {d \in Clients : Due(d)}}'
    <2>1. <<e.before, e.arg>> \in fresh \cup {Key(c) : c \in {d \in Clients : Due(d)}}
      BY <1>1 DEF OnceInv
    <2> QED BY <1>1, <2>1
  <1>2. nfaults = 0 => AtMostOnce'
    BY DEF OnceInv, AtMostOnce
  <1> QED BY <1>1, <1>2 DEF OnceInv

(* An act the engine carried out in the current epoch has its row, or is    *)
(* about to write it.                                                       *)
LEMMA OnceStep ==
  ASSUME Alone
  PROVE  TypeOK /\ PathInv /\ SerialInv /\ LoneRowInv /\ PassInv /\ OnceInv /\ [Next]_vars => OnceInv'
  <1> SUFFICES ASSUME TypeOK, PathInv, SerialInv, LoneRowInv, PassInv, OnceInv, [Next]_vars
               PROVE  OnceInv'
    OBVIOUS
  <1> USE SentinelAssumption
      DEF TypeOK, TypeCalls, TypePage, pageVars, engineVars, storeVars, callVars, agentVars, boundVars, histVars, Goto, Alone
  <1>1. ASSUME NEW c \in Clients, Begin(c) PROVE OnceInv'
    <2>1. UNCHANGED <<effects, epoch, nfaults>> /\ fresh \subseteq fresh' /\ (exists' => exists)
      BY <1>1 DEF Begin
    <2>2. \A d \in Clients : Due(d) => (Due(d)' /\ Key(d)' = Key(d)) \/ Key(d) \in fresh' \/ ~exists'
      BY <1>1 DEF Begin, Due, Key
    <2> QED BY <2>1, <2>2, OnceFrame
  <1>2. ASSUME NEW c \in Clients, EngineHandleFor(c) PROVE OnceInv'
    <2>1. UNCHANGED <<effects, epoch, nfaults>> /\ fresh \subseteq fresh' /\ (exists' => exists)
      BY <1>2 DEF EngineHandleFor
    <2>2. \A d \in Clients : Due(d) => (Due(d)' /\ Key(d)' = Key(d)) \/ Key(d) \in fresh' \/ ~exists'
      BY <1>2 DEF EngineHandleFor, Due, Key
    <2> QED BY <2>1, <2>2, OnceFrame
  <1>3. ASSUME NEW c \in Clients, Reopen(c) PROVE OnceInv'
    <2>1. UNCHANGED <<effects, epoch, nfaults>> /\ fresh \subseteq fresh' /\ (exists' => exists)
      BY <1>3 DEF Reopen
    <2>2. \A d \in Clients : Due(d) => (Due(d)' /\ Key(d)' = Key(d)) \/ Key(d) \in fresh' \/ ~exists'
      BY <1>3 DEF Reopen, Due, Key
    <2> QED BY <2>1, <2>2, OnceFrame
  <1>4. ASSUME NEW c \in Clients, Install(c) PROVE OnceInv'
    <2>1. UNCHANGED <<effects, epoch, nfaults>> /\ fresh \subseteq fresh' /\ (exists' => exists)
      BY <1>4 DEF Install
    <2>2. \A d \in Clients : Due(d) => (Due(d)' /\ Key(d)' = Key(d)) \/ Key(d) \in fresh' \/ ~exists'
      BY <1>4 DEF Install, Due, Key
    <2> QED BY <2>1, <2>2, OnceFrame
  <1>5. ASSUME NEW c \in Clients, PageGone(c) PROVE OnceInv'
    <2>1. UNCHANGED <<effects, epoch, nfaults>> /\ fresh \subseteq fresh' /\ (exists' => exists)
      BY <1>5 DEF PageGone
    <2>2. \A d \in Clients : Due(d) => (Due(d)' /\ Key(d)' = Key(d)) \/ Key(d) \in fresh' \/ ~exists'
      BY <1>5 DEF PageGone, Return, Due, Key
    <2> QED BY <2>1, <2>2, OnceFrame
  <1>6. ASSUME NEW c \in Clients, HandleGone(c) PROVE OnceInv'
    <2>1. UNCHANGED <<effects, epoch, nfaults>> /\ fresh \subseteq fresh' /\ (exists' => exists)
      BY <1>6 DEF HandleGone
    <2>2. \A d \in Clients : Due(d) => (Due(d)' /\ Key(d)' = Key(d)) \/ Key(d) \in fresh' \/ ~exists'
      BY <1>6 DEF HandleGone, Return, Due, Key
    <2> QED BY <2>1, <2>2, OnceFrame
  <1>7. ASSUME NEW c \in Clients, EngineFault(c) PROVE OnceInv'
    BY <1>7 DEF EngineFault, TypeOK, TypeHistory, OnceInv
  <1>8. ASSUME NEW c \in Clients, Snapshot(c) PROVE OnceInv'
    <2>1. UNCHANGED <<effects, epoch, nfaults>> /\ fresh \subseteq fresh' /\ (exists' => exists)
      BY <1>8 DEF Snapshot
    <2>2. \A d \in Clients : Due(d) => (Due(d)' /\ Key(d)' = Key(d)) \/ Key(d) \in fresh' \/ ~exists'
      BY <1>8 DEF Snapshot, Due, Key
    <2> QED BY <2>1, <2>2, OnceFrame
  <1>9. ASSUME NEW c \in Clients, Apply(c) PROVE OnceInv'
    <2>1. \A e \in effects : e.epoch \in Nat /\ e.epoch <= epoch /\ epoch \in Nat
      BY DEF TypeOK, TypeHistory, Effects, SerialInv, EffectInv
    <2>2. /\ epoch' = IF last_token' = last_token THEN epoch ELSE epoch + 1
          /\ UNCHANGED <<effects, exists, req, fresh, nfaults>>
          /\ pc[c] \in {"apply", "rebase"} /\ pc'[c] = "store"
      BY <1>9 DEF Apply, apply_snapshot, SetToken
    <2>3. \A e \in effects : e.epoch = epoch' => e.epoch = epoch
      BY <2>1, <2>2
    <2>4. \A d \in Clients : Due(d) => Due(d)' /\ Key(d)' = Key(d)
      BY <2>2 DEF Due, Key
    <2>5. fresh \subseteq fresh' /\ (exists' => exists)
      BY <2>2
    <2> QED BY <2>2, <2>3, <2>4, <2>5, OnceFrame
  <1>10. ASSUME NEW c \in Clients, Store(c) PROVE OnceInv'
    <2>1. UNCHANGED <<effects, epoch, nfaults>> /\ fresh \subseteq fresh' /\ (exists' => exists)
      BY <1>10 DEF Store
    <2>2. \A d \in Clients : Due(d) => (Due(d)' /\ Key(d)' = Key(d)) \/ Key(d) \in fresh' \/ ~exists'
      BY <1>10 DEF Store, LoneRowInv, Due, Key
    <2> QED BY <2>1, <2>2, OnceFrame
  <1>11. ASSUME NEW c \in Clients, Audit(c) PROVE OnceInv'
    <2>1. UNCHANGED <<effects, epoch, nfaults>> /\ fresh \subseteq fresh' /\ (exists' => exists)
      BY <1>11 DEF Audit
    <2>2. \A d \in Clients : Due(d) => (Due(d)' /\ Key(d)' = Key(d)) \/ Key(d) \in fresh' \/ ~exists'
      BY <1>11 DEF Audit, Due, Key
    <2> QED BY <2>1, <2>2, OnceFrame
  <1>12. ASSUME NEW c \in Clients, ActLock(c) PROVE OnceInv'
    <2>1. UNCHANGED <<effects, epoch, nfaults>> /\ fresh \subseteq fresh' /\ (exists' => exists)
      BY <1>12 DEF ActLock
    <2>2. \A d \in Clients : Due(d) => (Due(d)' /\ Key(d)' = Key(d)) \/ Key(d) \in fresh' \/ ~exists'
      BY <1>12 DEF ActLock, Due, Key
    <2> QED BY <2>1, <2>2, OnceFrame
  <1>13. ASSUME NEW c \in Clients, ActStale(c) PROVE OnceInv'
    <2>1. UNCHANGED <<effects, epoch, nfaults>> /\ fresh \subseteq fresh' /\ (exists' => exists)
      BY <1>13 DEF ActStale
    <2>2. \A d \in Clients : Due(d) => (Due(d)' /\ Key(d)' = Key(d)) \/ Key(d) \in fresh' \/ ~exists'
      BY <1>13 DEF ActStale, Return, Due, Key
    <2> QED BY <2>1, <2>2, OnceFrame
  <1>14. ASSUME NEW c \in Clients, ActHit(c) PROVE OnceInv'
    <2>1. UNCHANGED <<effects, epoch, nfaults>> /\ fresh \subseteq fresh' /\ (exists' => exists)
      BY <1>14 DEF ActHit
    <2>2. \A d \in Clients : Due(d) => (Due(d)' /\ Key(d)' = Key(d)) \/ Key(d) \in fresh' \/ ~exists'
      BY <1>14 DEF ActHit, Return, Due, Key
    <2> QED BY <2>1, <2>2, OnceFrame
  <1>15. ASSUME NEW c \in Clients, ActCheck(c) PROVE OnceInv'
    <2>1. UNCHANGED <<effects, epoch, nfaults>> /\ fresh \subseteq fresh' /\ (exists' => exists)
      BY <1>15 DEF ActCheck
    <2>2. \A d \in Clients : Due(d) => (Due(d)' /\ Key(d)' = Key(d)) \/ Key(d) \in fresh' \/ ~exists'
      BY <1>15 DEF ActCheck, Due, Key
    <2> QED BY <2>1, <2>2, OnceFrame
  <1>16. ASSUME NEW c \in Clients, ActPass(c) PROVE OnceInv'
    <2>1. UNCHANGED <<effects, epoch, nfaults>> /\ fresh \subseteq fresh' /\ (exists' => exists)
      BY <1>16 DEF ActPass
    <2>2. \A d \in Clients : Due(d) => (Due(d)' /\ Key(d)' = Key(d)) \/ Key(d) \in fresh' \/ ~exists'
      BY <1>16 DEF ActPass, Due, Key
    <2> QED BY <2>1, <2>2, OnceFrame
  <1>17. ASSUME NEW c \in Clients, ActEngine(c) PROVE OnceInv'
    <2> DEFINE new(t) == [id |-> loc[c].id, epoch |-> loc[c].chk, arg |-> req[c].arg,
                          before |-> req[c].before, saw |-> web[loc[c].h],
                          failed |-> FALSE, moved |-> t # req[c].before[1], ttl |-> TRUE]
    <2>1. PICK t \in Trees : effects' = effects \cup {new(t)}
      BY <1>17 DEF ActEngine
    <2>2. /\ loc[c].chk = epoch /\ req[c].before = last_token /\ Key(c) \notin fresh
          /\ \A e \in effects : e.epoch = epoch => e.before = last_token
      BY <1>17 DEF ActEngine, PassInv, SerialInv, CheckInv
    <2>3. /\ new(t).epoch = epoch /\ <<new(t).before, new(t).arg>> = Key(c)
          /\ new(t).arg = req[c].arg
      BY <2>2 DEF Key
    <2> HIDE DEF new
    <2>4. /\ \A d \in Clients : d = c
          /\ ~Due(c) /\ Due(c)' /\ Key(c)' = Key(c) /\ exists
          /\ UNCHANGED <<epoch, exists, fresh, nfaults>>
      BY <1>17 DEF ActEngine, Alone, Due, Key, PassInv
    <2>5. ASSUME nfaults = 0, NEW e \in effects, e.ttl, e.epoch = epoch
          PROVE  <<e.before, e.arg>> \in fresh /\ e.arg # req[c].arg
      <3>1. <<e.before, e.arg>> \in fresh
        BY <2>4, <2>5 DEF OnceInv
      <3> QED BY <2>2, <2>5, <3>1 DEF Key
    <2>6. ASSUME nfaults = 0 PROVE AtMostOnce'
      <3>1. \A x, y \in effects : x.ttl /\ y.ttl /\ x.epoch = y.epoch /\ x.arg = y.arg => x.id = y.id
        BY <2>6 DEF OnceInv, AtMostOnce
      <3>2. \A x \in effects : x.ttl => x.epoch # new(t).epoch \/ x.arg # new(t).arg
        BY <2>3, <2>5, <2>6
      <3>3. ASSUME NEW x \in effects \cup {new(t)}, NEW y \in effects \cup {new(t)},
                   x.ttl, y.ttl, x.epoch = y.epoch, x.arg = y.arg
            PROVE  x.id = y.id
        <4>1. CASE x \in effects /\ y \in effects
          BY <3>1, <3>3, <4>1
        <4>2. CASE x = new(t)
          BY <3>2, <3>3, <4>2
        <4>3. CASE y = new(t)
          BY <3>2, <3>3, <4>3
        <4> QED BY <4>1, <4>2, <4>3
      <3> QED BY <2>1, <3>3 DEF AtMostOnce
    <2>7. ASSUME nfaults = 0, NEW e \in effects', e.epoch = epoch, e.ttl
          PROVE  <<e.before, e.arg>> \in fresh \cup {Key(c)}
      BY <2>1, <2>3, <2>5, <2>7
    <2>8. {Key(d) : d \in {d \in Clients : Due(d)}}' = {Key(c)}
      BY <2>4
    <2> QED BY <2>4, <2>6, <2>7, <2>8 DEF OnceInv
  <1>18. ASSUME NEW c \in Clients, EngineOp(c) PROVE OnceInv'
    <2>1. UNCHANGED <<effects, epoch, nfaults>> /\ fresh \subseteq fresh' /\ (exists' => exists)
      BY <1>18 DEF EngineOp
    <2>2. \A d \in Clients : Due(d) => (Due(d)' /\ Key(d)' = Key(d)) \/ Key(d) \in fresh' \/ ~exists'
      BY <1>18 DEF EngineOp, Due, Key
    <2> QED BY <2>1, <2>2, OnceFrame
  <1>19. ASSUME NEW c \in Clients, InvalidateBaseline(c) PROVE OnceInv'
    <2>1. UNCHANGED <<effects, epoch, nfaults>> /\ fresh \subseteq fresh' /\ (exists' => exists)
      BY <1>19 DEF InvalidateBaseline
    <2>2. \A d \in Clients : Due(d) => (Due(d)' /\ Key(d)' = Key(d)) \/ Key(d) \in fresh' \/ ~exists'
      BY <1>19 DEF InvalidateBaseline, Due, Key
    <2> QED BY <2>1, <2>2, OnceFrame
  <1>20. ASSUME NEW c \in Clients, CurrentToken(c) PROVE OnceInv'
    <2>1. UNCHANGED <<effects, epoch, nfaults>> /\ fresh \subseteq fresh' /\ (exists' => exists)
      BY <1>20 DEF CurrentToken
    <2>2. \A d \in Clients : Due(d) => (Due(d)' /\ Key(d)' = Key(d)) \/ Key(d) \in fresh' \/ ~exists'
      BY <1>20 DEF CurrentToken, Return, Due, Key
    <2> QED BY <2>1, <2>2, OnceFrame
  <1>21. ASSUME NEW c \in Clients, Rebase(c) PROVE OnceInv'
    <2>1. \A e \in effects : e.epoch \in Nat /\ e.epoch <= epoch /\ epoch \in Nat
      BY DEF TypeOK, TypeHistory, Effects, SerialInv, EffectInv
    <2>2. /\ epoch' = IF last_token' = last_token THEN epoch ELSE epoch + 1
          /\ UNCHANGED <<effects, exists, req, fresh, nfaults>>
          /\ pc[c] \in {"apply", "rebase"} /\ pc'[c] = "store"
      BY <1>21 DEF Rebase, apply_snapshot, SetToken
    <2>3. \A e \in effects : e.epoch = epoch' => e.epoch = epoch
      BY <2>1, <2>2
    <2>4. \A d \in Clients : Due(d) => Due(d)' /\ Key(d)' = Key(d)
      BY <2>2 DEF Due, Key
    <2>5. fresh \subseteq fresh' /\ (exists' => exists)
      BY <2>2
    <2> QED BY <2>2, <2>3, <2>4, <2>5, OnceFrame
  <1>22. ASSUME NEW c \in Clients, Baseline(c) PROVE OnceInv'
    <2>1. UNCHANGED <<effects, epoch, nfaults>> /\ fresh \subseteq fresh' /\ (exists' => exists)
      BY <1>22 DEF Baseline
    <2>2. \A d \in Clients : Due(d) => (Due(d)' /\ Key(d)' = Key(d)) \/ Key(d) \in fresh' \/ ~exists'
      BY <1>22 DEF Baseline, Due, Key
    <2> QED BY <2>1, <2>2, OnceFrame
  <1>23. ASSUME NEW c \in Clients, Poll(c) PROVE OnceInv'
    <2>1. UNCHANGED <<effects, epoch, nfaults>> /\ fresh \subseteq fresh' /\ (exists' => exists)
      BY <1>23 DEF Poll
    <2>2. \A d \in Clients : Due(d) => (Due(d)' /\ Key(d)' = Key(d)) \/ Key(d) \in fresh' \/ ~exists'
      BY <1>23 DEF Poll, Due, Key
    <2> QED BY <2>1, <2>2, OnceFrame
  <1>24. ASSUME NEW c \in Clients, PollTimeout(c) PROVE OnceInv'
    <2>1. UNCHANGED <<effects, epoch, nfaults>> /\ fresh \subseteq fresh' /\ (exists' => exists)
      BY <1>24 DEF PollTimeout
    <2>2. \A d \in Clients : Due(d) => (Due(d)' /\ Key(d)' = Key(d)) \/ Key(d) \in fresh' \/ ~exists'
      BY <1>24 DEF PollTimeout, Return, Due, Key
    <2> QED BY <2>1, <2>2, OnceFrame
  <1>25. ASSUME NEW c \in Clients, CloseRemove(c) PROVE OnceInv'
    <2>1. UNCHANGED <<effects, epoch, nfaults>> /\ fresh \subseteq fresh' /\ (exists' => exists)
      BY <1>25 DEF CloseRemove
    <2>2. \A d \in Clients : Due(d) => (Due(d)' /\ Key(d)' = Key(d)) \/ Key(d) \in fresh' \/ ~exists'
      BY <1>25 DEF CloseRemove, Due, Key
    <2> QED BY <2>1, <2>2, OnceFrame
  <1>26. ASSUME NEW c \in Clients, CloseEngine(c) PROVE OnceInv'
    <2>1. UNCHANGED <<effects, epoch, nfaults>> /\ fresh \subseteq fresh' /\ (exists' => exists)
      BY <1>26 DEF CloseEngine
    <2>2. \A d \in Clients : Due(d) => (Due(d)' /\ Key(d)' = Key(d)) \/ Key(d) \in fresh' \/ ~exists'
      BY <1>26 DEF CloseEngine, Return, Due, Key
    <2> QED BY <2>1, <2>2, OnceFrame
  <1>27. ASSUME Drift PROVE OnceInv'
    <2>1. UNCHANGED <<effects, epoch, nfaults>> /\ fresh \subseteq fresh' /\ (exists' => exists)
      BY <1>27 DEF Drift
    <2>2. \A d \in Clients : Due(d) => (Due(d)' /\ Key(d)' = Key(d)) \/ Key(d) \in fresh' \/ ~exists'
      BY <1>27 DEF Drift, Due, Key
    <2> QED BY <2>1, <2>2, OnceFrame
  <1>28. ASSUME Expire PROVE OnceInv'
    <2>1. PICK k \in fresh :
            /\ fresh' = fresh \ {k}
            /\ effects' = {IF <<e.before, e.arg>> = k THEN [e EXCEPT !.ttl = FALSE]
                                                      ELSE e : e \in effects}
      BY <1>28 DEF Expire
    <2>2. \A d \in effects' : d.ttl => d \in effects /\ <<d.before, d.arg>> # k
      BY <2>1 DEF TypeOK, TypeHistory, Effects
    <2>3. UNCHANGED <<epoch, exists, pc, req, reply, nfaults>>
      BY <1>28 DEF Expire
    <2>4. ASSUME nfaults = 0, NEW d \in effects', exists, d.epoch = epoch, d.ttl
          PROVE  <<d.before, d.arg>> \in fresh' \cup {Key(c) : c \in {e \in Clients : Due(e)}}
      BY <2>1, <2>2, <2>4 DEF OnceInv
    <2>5. nfaults = 0 => AtMostOnce'
      BY <2>2, <2>3 DEF OnceInv, AtMostOnce
    <2> QED BY <2>3, <2>4, <2>5 DEF OnceInv, Due, Key
  <1>29. ASSUME ReapPlan PROVE OnceInv'
    <2>1. UNCHANGED <<effects, epoch, nfaults>> /\ fresh \subseteq fresh' /\ (exists' => exists)
      BY <1>29 DEF ReapPlan
    <2>2. \A d \in Clients : Due(d) => (Due(d)' /\ Key(d)' = Key(d)) \/ Key(d) \in fresh' \/ ~exists'
      BY <1>29 DEF ReapPlan, Due, Key
    <2> QED BY <2>1, <2>2, OnceFrame
  <1>30. ASSUME ReapTake PROVE OnceInv'
    <2>1. UNCHANGED <<effects, epoch, nfaults>> /\ fresh \subseteq fresh' /\ (exists' => exists)
      BY <1>30 DEF ReapTake
    <2>2. \A d \in Clients : Due(d) => (Due(d)' /\ Key(d)' = Key(d)) \/ Key(d) \in fresh' \/ ~exists'
      BY <1>30 DEF ReapTake, Due, Key
    <2> QED BY <2>1, <2>2, OnceFrame
  <1>31. ASSUME ReapClose PROVE OnceInv'
    <2>1. UNCHANGED <<effects, epoch, nfaults>> /\ fresh \subseteq fresh' /\ (exists' => exists)
      BY <1>31 DEF ReapClose
    <2>2. \A d \in Clients : Due(d) => (Due(d)' /\ Key(d)' = Key(d)) \/ Key(d) \in fresh' \/ ~exists'
      BY <1>31 DEF ReapClose, Due, Key
    <2> QED BY <2>1, <2>2, OnceFrame
  <1>32. ASSUME UNCHANGED vars PROVE OnceInv'
    <2>1. UNCHANGED <<effects, epoch, nfaults>> /\ fresh \subseteq fresh' /\ (exists' => exists)
      BY <1>32 DEF vars
    <2>2. \A d \in Clients : Due(d) => (Due(d)' /\ Key(d)' = Key(d)) \/ Key(d) \in fresh' \/ ~exists'
      BY <1>32 DEF vars, Due, Key
    <2> QED BY <2>1, <2>2, OnceFrame
  <1> QED
    BY <1>1, <1>2, <1>3, <1>4, <1>5, <1>6, <1>7, <1>8, <1>9, <1>10, <1>11, <1>12, <1>13,
       <1>14, <1>15, <1>16, <1>17, <1>18, <1>19, <1>20, <1>21, <1>22, <1>23, <1>24, <1>25,
       <1>26, <1>27, <1>28, <1>29, <1>30, <1>31, <1>32
    DEF Next, CallStep, ReaperStep, Rest

(* While no engine call has failed, a lone client's act is not carried out  *)
(* twice within IDEMPOTENCY_TTL_SECS of one state of the page.              *)
THEOREM ActsHappenOnce == ASSUME Alone PROVE Spec => [](nfaults = 0 => AtMostOnce)
  <1>1. Init => SerialInv /\ PassInv /\ OnceInv
    BY SerialInit DEF Init, PassInv, OnceInv, AtMostOnce
  <1>2. TypeOK /\ PathInv /\ SerialInv /\ LoneRowInv /\ PassInv /\ OnceInv /\ [Next]_vars
          => (SerialInv /\ PassInv /\ OnceInv)'
    BY SerialStep, PassStep, OnceStep
  <1>3. OnceInv => (nfaults = 0 => AtMostOnce)
    BY DEF OnceInv
  <1> QED BY <1>1, <1>2, <1>3, LoneRowAlways, PTL DEF Spec

-----------------------------------------------------------------------------
(* The client's copy of the page.                                           *)

(* Whether c's snapshot goes out whole.                                     *)
Forced(c) == force_full \/ (req[c].op = "view" /\ req[c].full)

(* The client's copy follows the delta baseline.                            *)
LEMMA MirrorStep ==
  ASSUME Alone, NeverWaits
  PROVE  TypeOK /\ PathInv /\ TokenInv /\ MirrorInv /\ [Next]_vars => MirrorInv'
  <1> SUFFICES ASSUME TypeOK, PathInv, TokenInv, MirrorInv, [Next]_vars PROVE MirrorInv'
    OBVIOUS
  <1> USE SentinelAssumption
      DEF TypeOK, TypeCalls, TypePage, TypeAgents, AllRequests, Replies, NoReply, pageVars, engineVars, storeVars, callVars, agentVars, boundVars, histVars,
          Goto, Alone, NeverWaits, MirrorInv, ResponseRebuildsPage
  <1>1. ASSUME NEW c \in Clients, Begin(c) PROVE MirrorInv'
    <2>1. PICK r \in Requests(c) : /\ req' = [req EXCEPT ![c] = r]
                                   /\ pc' = [pc EXCEPT ![c] = FirstStep(r.op)]
      BY <1>1 DEF Begin
    <2>2. r.op \in Ops
      BY <2>1 DEF Requests
    <2>3. /\ \A d \in Clients : d = c
          /\ ~Answering(c) /\ reply'[c] = NoReply
          /\ UNCHANGED <<agent, last_tree, force_full>>
      BY <1>1 DEF Begin, Answering
    <2>4. req'[c].op = r.op
      BY <2>1
    <2>5. pc'[c] \notin {"idle", "store", "audit"}
      BY <2>1 DEF FirstStep
    <2> QED BY <2>2, <2>3, <2>4, <2>5 DEF Answering
  <1>2. ASSUME NEW c \in Clients, EngineHandleFor(c) PROVE MirrorInv'
    BY <1>2 DEF EngineHandleFor, Answering, AfterHandle
  <1>3. ASSUME NEW c \in Clients, Reopen(c) PROVE MirrorInv'
    BY <1>3 DEF Reopen, Answering
  <1>4. ASSUME NEW c \in Clients, Install(c) PROVE MirrorInv'
    BY <1>4 DEF Install, Answering, AfterHandle
  <1>5. ASSUME NEW c \in Clients, PageGone(c) PROVE MirrorInv'
    BY <1>5 DEF PageGone, Return, Answering, BodyOps
  <1>6. ASSUME NEW c \in Clients, HandleGone(c) PROVE MirrorInv'
    BY <1>6 DEF HandleGone, Return, Answering
  <1>7. ASSUME NEW c \in Clients, EngineFault(c) PROVE MirrorInv'
    BY <1>7 DEF EngineFault, Return, Answering
  <1>8. ASSUME NEW c \in Clients, Snapshot(c) PROVE MirrorInv'
    BY <1>8 DEF Snapshot, Answering
  <1>9. ASSUME NEW c \in Clients, Apply(c) PROVE MirrorInv'
    <2>0. req[c].op \in BodyOps \cup {"viewport"}
      BY <1>9 DEF Apply, BodyOps, PathInv, Path
    <2>1. /\ pc[c] = "apply" /\ pc'[c] = "store"
          /\ UNCHANGED <<req, loc, agent, url>>
          /\ reply'[c] = IF req[c].op \in BodyOps
                         THEN ViewForm(loc[c].snap, Forced(c))
                         ELSE [NoReply EXCEPT !.kind = "ok",
                                 !.token = ViewForm(loc[c].snap, Forced(c)).token]
          /\ force_full' = (req[c].op = "viewport")
      BY <1>9, <2>0 DEF Apply, apply_snapshot, Forced, BodyOps
    <2>2. last_tree' = loc[c].snap
      <3>1. CASE ~Forced(c) /\ last_token = compute(loc[c].snap, url)
        BY <1>9, <3>1 DEF Apply, apply_snapshot, Forced, TokenInv, compute
      <3>2. CASE ~(~Forced(c) /\ last_token = compute(loc[c].snap, url))
        BY <1>9, <3>2 DEF Apply, apply_snapshot, Forced
      <3> QED BY <3>1, <3>2
    <2>3. ~Forced(c) => agent[c].tree = last_tree
      BY <2>1 DEF Forced, Answering
    <2>4. ASSUME req[c].op \in BodyOps PROVE Rebuilt(c)' = loc[c].snap
      <3> DEFINE r == ViewForm(loc[c].snap, Forced(c))
      <3>1. reply'[c] = r /\ agent' = agent
        BY <2>1, <2>4
      <3>2. CASE ~Forced(c) /\ last_token = compute(loc[c].snap, url)
        <4>1. r.form = "same"
          BY <3>2 DEF ViewForm
        <4>2. last_tree = loc[c].snap
          BY <3>2 DEF TokenInv, compute
        <4> QED BY <3>1, <3>2, <4>1, <4>2, <2>3 DEF Rebuilt
      <3>3. CASE ~Forced(c) /\ last_token # compute(loc[c].snap, url) /\ last_tree # NoTree
        <4>1. r.form = "delta" /\ r.from = last_tree /\ r.to = loc[c].snap
          BY <3>3 DEF ViewForm
        <4> QED BY <3>1, <3>3, <4>1, <2>3 DEF Rebuilt
      <3>4. CASE Forced(c) \/ (last_token # compute(loc[c].snap, url) /\ last_tree = NoTree)
        <4>1. r.form = "full" /\ r.to = loc[c].snap
          BY <3>4 DEF ViewForm
        <4> QED BY <3>1, <4>1 DEF Rebuilt
      <3> QED BY <3>2, <3>3, <3>4
    <2>5. req[c].op \in BodyOps => Answering(c)'
      BY <2>1, FormToken DEF Answering, Forced
    <2>6. \A d \in Clients : d = c
      OBVIOUS
    <2>7. CASE req[c].op \in BodyOps
      BY <2>1, <2>2, <2>4, <2>5, <2>6, <2>7
    <2>8. CASE req[c].op \notin BodyOps
      <3>1. req[c].op = "viewport"
        BY <2>0, <2>8
      <3>2. reply'[c].form = "none"
        BY <2>1, <2>8
      <3>3. force_full' /\ ~Answering(c)'
        BY <2>1, <2>8, <3>1 DEF Answering
      <3> QED BY <2>1, <2>6, <2>8, <3>2, <3>3
    <2> QED BY <2>7, <2>8
  <1>10. ASSUME NEW c \in Clients, Store(c) PROVE MirrorInv'
    BY <1>10 DEF Store, Answering, Rebuilt, BodyOps
  <1>11. ASSUME NEW c \in Clients, Audit(c) PROVE MirrorInv'
    <2>1. \A d \in Clients : d = c
      OBVIOUS
    <2>2. /\ pc'[c] = "idle" /\ pc[c] = "audit"
          /\ UNCHANGED <<req, reply, loc, last_tree, force_full>>
      BY <1>11 DEF Audit
    <2>3. CASE Answering(c)
      <3>1. agent'[c].tree = Rebuilt(c)
        BY <1>11, <2>3 DEF Audit, Answering, Rebuilt, BodyOps
      <3> QED BY <2>1, <2>2, <2>3, <3>1 DEF Answering
    <2>4. CASE ~Answering(c)
      <3>1. reply[c].form = "none"
        BY <2>2, <2>4
      <3>2. agent'[c].tree = agent[c].tree
        BY <1>11, <3>1 DEF Audit
      <3>3. ~(reply[c].kind = "ok" /\ req[c].op \in {"view", "act", "cursor_op"})
        BY <2>2, <2>4 DEF Answering, BodyOps
      <3>4. ~Answering(c)'
        BY <2>2 DEF Answering
      <3> QED BY <2>1, <2>2, <2>4, <3>2, <3>3, <3>4
    <2> QED BY <2>3, <2>4
  <1>12. ASSUME NEW c \in Clients, ActLock(c) PROVE MirrorInv'
    BY <1>12 DEF ActLock, Answering
  <1>13. ASSUME NEW c \in Clients, ActStale(c) PROVE MirrorInv'
    BY <1>13 DEF ActStale, Return, Answering
  <1>14. ASSUME NEW c \in Clients, ActHit(c) PROVE MirrorInv'
    BY <1>14 DEF ActHit, Return, Answering
  <1>15. ASSUME NEW c \in Clients, ActCheck(c) PROVE MirrorInv'
    BY <1>15 DEF ActCheck, Answering
  <1>16. ASSUME NEW c \in Clients, ActPass(c) PROVE MirrorInv'
    BY <1>16 DEF ActPass, Answering
  <1>17. ASSUME NEW c \in Clients, ActEngine(c) PROVE MirrorInv'
    BY <1>17 DEF ActEngine, Answering
  <1>18. ASSUME NEW c \in Clients, EngineOp(c) PROVE MirrorInv'
    BY <1>18 DEF EngineOp, Answering, AfterEngine
  <1>19. ASSUME NEW c \in Clients, InvalidateBaseline(c) PROVE MirrorInv'
    BY <1>19 DEF InvalidateBaseline, Answering
  <1>20. ASSUME NEW c \in Clients, CurrentToken(c) PROVE MirrorInv'
    BY <1>20 DEF CurrentToken, Return, Answering, PathInv, Path, BodyOps
  <1>21. ASSUME NEW c \in Clients, Rebase(c) PROVE MirrorInv'
    BY <1>21 DEF Rebase, Answering, BodyOps
  <1>22. ASSUME NEW c \in Clients, Baseline(c) PROVE MirrorInv'
    BY <1>22 DEF Baseline, Answering
  <1>23. ASSUME NEW c \in Clients, Poll(c) PROVE MirrorInv'
    BY <1>23 DEF Poll, Answering
  <1>24. ASSUME NEW c \in Clients, PollTimeout(c) PROVE MirrorInv'
    BY <1>24 DEF PollTimeout, Return, Answering
  <1>25. ASSUME NEW c \in Clients, CloseRemove(c) PROVE MirrorInv'
    BY <1>25 DEF CloseRemove, Answering
  <1>26. ASSUME NEW c \in Clients, CloseEngine(c) PROVE MirrorInv'
    BY <1>26 DEF CloseEngine, Return, Answering, PathInv, Path, BodyOps
  <1>27. ASSUME Drift PROVE MirrorInv'
    BY <1>27 DEF Drift, Answering, Rebuilt
  <1>28. ASSUME Expire PROVE MirrorInv'
    BY <1>28 DEF Expire, Answering, Rebuilt
  <1>29. ASSUME ReapPlan PROVE MirrorInv'
    BY <1>29 DEF ReapPlan, Answering, Rebuilt
  <1>30. ASSUME ReapTake PROVE MirrorInv'
    BY <1>30 DEF ReapTake, Answering, Rebuilt
  <1>31. ASSUME ReapClose PROVE MirrorInv'
    BY <1>31 DEF ReapClose, Answering, Rebuilt
  <1>32. ASSUME UNCHANGED vars PROVE MirrorInv'
    BY <1>32 DEF vars, Answering, Rebuilt
  <1> QED
    BY <1>1, <1>2, <1>3, <1>4, <1>5, <1>6, <1>7, <1>8, <1>9, <1>10, <1>11, <1>12, <1>13,
       <1>14, <1>15, <1>16, <1>17, <1>18, <1>19, <1>20, <1>21, <1>22, <1>23, <1>24, <1>25,
       <1>26, <1>27, <1>28, <1>29, <1>30, <1>31, <1>32
    DEF Next, CallStep, ReaperStep, Rest

(* As long as a lone client does not wait, every body it is answered with   *)
(* leaves it with the tree of that call's snapshot, deltas included.        *)
THEOREM BodiesRebuildThePage ==
  ASSUME Alone, NeverWaits
  PROVE  Spec => []ResponseRebuildsPage
  <1>1. Init => MirrorInv
    BY DEF Init, MirrorInv, ResponseRebuildsPage, Answering, NoReply
  <1>2. TypeOK /\ PathInv /\ TokenInv /\ MirrorInv /\ [Next]_vars => MirrorInv'
    BY MirrorStep
  <1>3. MirrorInv => ResponseRebuildsPage
    BY DEF MirrorInv
  <1> QED BY <1>1, <1>2, <1>3, LoneRowAlways, PTL DEF Spec

=============================================================================
