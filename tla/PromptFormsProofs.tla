------------------------- MODULE PromptFormsProofs -------------------------
(***************************************************************************)
(* What holds of PromptForms for any number of agents and humans, whatever *)
(* is asked for, and however often forms are asked for, waited on, looked  *)
(* at, left alone or fail to fill.                                         *)
(***************************************************************************)
EXTENDS PromptForms, FiniteSetTheorems, SequenceTheorems, WellFoundedInduction,
        TLAPS

-----------------------------------------------------------------------------
(* Entries and slots.                                                       *)

(* An entry is its slot and its index.                                      *)
LEMMA EntryIs ==
  ASSUME NEW e \in Ids
  PROVE  e = <<e[1], e[2]>> /\ e[1] \in Slots /\ e[2] \in 0..MaxFields
  BY DEF Ids

(* The fields of a form are entries of its slot with an index from 1.       *)
LEMMA FieldsAre ==
  ASSUME TypeQueue, NEW s \in Slots
  PROVE  /\ Fields(s) \subseteq Ids
         /\ \A e \in Fields(s) : e[1] = s /\ e[2] # 0 /\ e[2] \in 1..Len(ask[s])
         /\ \A i \in 1..Len(ask[s]) : <<s, i>> \in Fields(s) /\ i \in 0..MaxFields
  <1>1. ask[s] \in Seq(Nat) /\ Len(ask[s]) \in Nat /\ Len(ask[s]) <= MaxFields
    BY DEF TypeQueue
  <1>2. \A i \in 1..Len(ask[s]) : i \in 0..MaxFields /\ <<s, i>>[1] = s /\ <<s, i>>[2] = i
    BY <1>1, LimitAssumption
  <1> QED BY <1>1, <1>2 DEF Fields, Ids

(* A set of numbers has a least one.                                        *)
LEMMA Least ==
  ASSUME NEW N \in SUBSET Nat, N # {}
  PROVE  \E i \in N : \A j \in N : i <= j
  <1> DEFINE Less == OpToRel(<, Nat)
  <1>1. IsWellFoundedOn(Less, Nat)
    BY NatLessThanWellFounded
  <1>2. \A i, j \in Nat : i < j => <<i, j>> \in Less
    BY DEF OpToRel
  <1> HIDE DEF Less
  <1>3. PICK i \in N : \A j \in N : <<j, i>> \notin Less
    BY <1>1, WFMin, Zenon
  <1>4. ASSUME NEW j \in N PROVE i <= j
    <2>1. i \in Nat /\ j \in Nat
      OBVIOUS
    <2>2. ~(j < i)
      BY <1>2, <1>3, <2>1, Zenon
    <2> QED BY <2>1, <2>2
  <1> QED BY <1>4

(* A set of entries has one of least index.                                 *)
LEMMA FirstField ==
  ASSUME NEW T \in SUBSET Ids, T # {}
  PROVE  (CHOOSE e \in T : \A f \in T : e[2] <= f[2]) \in T
  <1> DEFINE Indices == {e[2] : e \in T}
  <1>1. Indices \subseteq Nat /\ Indices # {}
    BY EntryIs, LimitAssumption
  <1>2. PICK i \in Indices : \A j \in Indices : i <= j
    <2> HIDE DEF Indices
    <2> QED BY <1>1, Least
  <1>3. PICK e \in T : e[2] = i
    BY <1>2
  <1>4. \A f \in T : e[2] <= f[2]
    BY <1>2, <1>3
  <1> QED BY <1>4

(* Tokens are numbers.                                                      *)
LEMMA TokensAre == Tokens \subseteq Nat /\ 0 \in Tokens
  BY LimitAssumption DEF Tokens

(* The next ask takes a slot that was never used.                           *)
LEMMA FreshSlot ==
  ASSUME TypeQueue, SlotInv, Used < MaxAsks
  PROVE  /\ Used \in 0..MaxAsks /\ Used + 1 \in Slots /\ kind[Used + 1] = "free"
         /\ \A s \in Slots : kind[s] # "free" <=> s <= Used
  <1>1. PICK n \in 0..MaxAsks : \A s \in Slots : kind[s] # "free" <=> s <= n
    BY DEF SlotInv
  <1>2. {s \in Slots : kind[s] # "free"} = 1..n
    BY <1>1, LimitAssumption DEF Slots
  <1>3. Cardinality(1..n) = n
    <2>1. n \in Int /\ 1 \in Int
      BY LimitAssumption
    <2>2. Cardinality(1..n) = IF 1 > n THEN 0 ELSE n - 1 + 1
      BY <2>1, FS_Interval
    <2> QED BY <2>2, LimitAssumption
  <1>4. Used = n
    BY <1>2, <1>3 DEF Used
  <1>5. n + 1 \in Slots
    BY <1>4, LimitAssumption DEF Slots
  <1>6. kind[n + 1] = "free"
    BY <1>1, <1>5, LimitAssumption
  <1> QED BY <1>1, <1>4, <1>5, <1>6

(* An agent that calls nothing is well typed.                               *)
LEMMA IdleType == Idle \in AgentStates
  BY LimitAssumption DEF Idle, AgentStates, AgentPcs, Answers

(* Waking a thread changes only where it is.                                *)
LEMMA WokenIs ==
  ASSUME NEW r \in AgentStates
  PROVE  /\ Woken(r) \in AgentStates
         /\ Woken(r).slot = r.slot /\ Woken(r).next = r.next /\ Woken(r).due = r.due
         /\ Woken(r).held = r.held /\ Woken(r).todo = r.todo /\ Woken(r).tok = r.tok
         /\ Woken(r).answer = r.answer
         /\ Woken(r).pc = CASE r.pc = "parked" -> "check"
                            [] r.pc = "waiting" -> "awake"
                            [] OTHER -> r.pc
  BY DEF Woken, AgentStates, AgentPcs

(* The same of all threads that wait.                                       *)
LEMMA NotifyIs ==
  ASSUME NEW ag \in [Agents -> AgentStates]
  PROVE  /\ notify_all(ag) \in [Agents -> AgentStates]
         /\ \A b \in Agents : notify_all(ag)[b] = Woken(ag[b])
  BY WokenIs DEF notify_all

-----------------------------------------------------------------------------
(* Types.                                                                   *)

(* What TypeAgents says of one agent.                                       *)
Good ==
  {r \in AgentStates :
     /\ r.pc # "idle" => r.slot \in Slots
     /\ r.todo \subseteq r.held
     /\ r.pc \in {"token", "fill"} => r.todo # {}}

(* That is all it says.                                                     *)
LEMMA GoodAgents ==
  /\ TypeAgents <=> agent \in [Agents -> Good]
  /\ TypeAgents' <=> agent' \in [Agents -> Good]
  BY DEF TypeAgents, Good

(* A call that is over is well typed.                                       *)
LEMMA AnsweredGood ==
  ASSUME NEW what \in Answers, NEW s \in 0..MaxAsks
  PROVE  [Idle EXCEPT !.answer = what, !.slot = s] \in Good
  BY LimitAssumption DEF Idle, Good, AgentStates, AgentPcs, Slots

(* Waking threads keeps them well typed.                                    *)
LEMMA NotifyGood ==
  ASSUME NEW ag \in [Agents -> Good]
  PROVE  notify_all(ag) \in [Agents -> Good]
  <1>1. ASSUME NEW r \in Good PROVE Woken(r) \in Good
    BY WokenIs DEF Good
  <1> QED BY <1>1 DEF notify_all

(* A page on which nothing was asked for is well typed.                     *)
LEMMA InitType == Init => TypeOK
  <1> SUFFICES ASSUME Init PROVE TypeOK
    OBVIOUS
  <1>1. TypeQueue
    <2>1. \A s \in Slots : ask[s] = <<>> /\ Len(ask[s]) <= MaxFields
      BY LimitAssumption DEF Init
    <2> QED BY <2>1 DEF Init, TypeQueue
  <1>2. TypeAgents
    BY IdleType DEF Init, TypeAgents, Idle
  <1>3. TypeWeb /\ TypePage /\ TypeHistory
    BY LimitAssumption, TokensAre DEF Init, TypeWeb, TypePage, TypeHistory, HumanStates, Away
  <1> QED BY <1>1, <1>2, <1>3 DEF TypeOK

(* The agents' own steps keep the types.                                    *)
LEMMA TypeAgentStep ==
  ASSUME TypeOK, NEW a \in Agents,
         AgentStep(a) \/ Deadline(a) \/ SpuriousWake(a)
  PROVE  TypeOK'
  <1> USE LimitAssumption
  <1> DEFINE s == agent[a].slot
  <1>1. agent \in [Agents -> Good] /\ agent[a] \in Good /\ agent[a] \in AgentStates
    BY GoodAgents DEF TypeOK, Good
  <1>2. s \in 0..MaxAsks /\ (agent[a].pc # "idle" => s \in Slots)
    BY <1>1 DEF Good, AgentStates
  <1>3. ASSUME NEW r \in Good, agent' = [agent EXCEPT ![a] = r]
        PROVE  TypeAgents'
    BY <1>1, <1>3, GoodAgents
  <1>4. ASSUME NEW what \in Answers, Answer(a, what)
        PROVE  TypeAgents'
    BY <1>2, <1>3, <1>4, AnsweredGood DEF Answer
  <1>5. ASSUME NEW f \in [Ids -> {"absent", "pending", "fulfilled", "cancelled"}],
               UNCHANGED <<kind, ask, aged>>, state' = f
        PROVE  TypeQueue'
    BY <1>5 DEF TypeOK, TypeQueue
  <1>6. state \in [Ids -> {"absent", "pending", "fulfilled", "cancelled"}]
    BY DEF TypeOK, TypeQueue
  <1>7. CASE Enqueue(a)
    <2>1. TypeQueue'
      <3>1. gc(state) \in [Ids -> {"absent", "pending", "fulfilled", "cancelled"}]
        BY <1>6 DEF gc
      <3> DEFINE f == [gc(state) EXCEPT ![<<s, agent[a].next>>] = "pending"]
      <3>2. f \in [Ids -> {"absent", "pending", "fulfilled", "cancelled"}]
        <4> HIDE DEF gc
        <4> QED BY <3>1
      <3>3. state' = f
        BY <1>7 DEF Enqueue
      <3> HIDE DEF f
      <3> QED BY <1>5, <1>7, <3>2, <3>3 DEF Enqueue
    <2>2. TypeAgents'
      <3> DEFINE n == agent[a].next + 1
      <3>1. n \in Nat
        BY <1>1 DEF AgentStates
      <3>2. \/ agent' = [agent EXCEPT ![a].next = n, ![a].pc = "mint"]
            \/ agent' = [agent EXCEPT ![a].next = n, ![a].pc = "enqueue"]
        BY <1>7 DEF Enqueue
      <3> HIDE DEF n
      <3> QED BY <1>1, <1>2, <1>3, <1>7, <3>1, <3>2 DEF Good, Enqueue, AgentStates, AgentPcs
    <2> QED BY <1>7, <2>1, <2>2 DEF Enqueue, TypeOK, TypeWeb, TypePage, TypeHistory,
                                  pageVars, histVars, countVars
  <1>8. CASE MintForm(a)
    <2>1. TypeAgents'
      BY <1>2, <1>3, <1>8, AnsweredGood DEF MintForm, Answers
    <2> QED BY <1>8, <2>1 DEF MintForm, TypeOK, TypeQueue, TypeWeb, TypePage, TypeHistory,
                            queueVars, pageVars, histVars, countVars
  <1>9. CASE CheckForm(a)
    <2>1. TypeQueue'
      BY <1>5, <1>6, <1>9 DEF CheckForm
    <2>2. TypeAgents'
      <3>1. Queued(s) \subseteq Ids
        BY <1>2, <1>9, FieldsAre DEF CheckForm, Queued, TypeOK
      <3>2. CASE Answer(a, "cancelled") \/ Answer(a, "unknown") \/ Answer(a, "pending")
        BY <1>4, <3>2 DEF Answers
      <3>3. CASE /\ Queued(s) # {}
                 /\ agent' = [agent EXCEPT ![a].pc = "token", ![a].held = Queued(s),
                                            ![a].todo = Queued(s)]
        BY <1>1, <1>2, <1>3, <1>9, <3>1, <3>3 DEF CheckForm, Good, AgentStates, AgentPcs
      <3>4. CASE agent' = [agent EXCEPT ![a].pc = "parked"]
        BY <1>1, <1>2, <1>3, <1>9, <3>4 DEF CheckForm, Good, AgentStates, AgentPcs
      <3> QED BY <1>9, <3>2, <3>3, <3>4 DEF CheckForm
    <2> QED BY <1>9, <2>1, <2>2 DEF CheckForm, TypeOK, TypeWeb, TypePage, TypeHistory,
                                  pageVars, histVars, countVars
  <1>10. CASE ReadToken(a)
    <2>1. TypeAgents'
      BY <1>1, <1>3, <1>10, TokensAre DEF ReadToken, Good, AgentStates, AgentPcs, TypeOK, TypePage
    <2> QED BY <1>10, <2>1 DEF ReadToken, TypeOK, TypeQueue, TypeWeb, TypePage, TypeHistory,
                             queueVars, pageVars, histVars, countVars
  <1>11. CASE ParkPrompt(a)
    <2>1. TypeQueue'
      BY <1>5, <1>6, <1>11 DEF ParkPrompt
    <2>2. TypeAgents'
      <3>1. CASE Answer(a, "none")
        BY <1>4, <3>1 DEF Answers
      <3>2. CASE agent' = [agent EXCEPT ![a].pc = "waiting"]
        BY <1>1, <1>3, <1>11, <3>2 DEF ParkPrompt, Good, AgentStates, AgentPcs
      <3> QED BY <1>11, <3>1, <3>2 DEF ParkPrompt
    <2> QED BY <1>11, <2>1, <2>2 DEF ParkPrompt, TypeOK, TypeWeb, TypePage, TypeHistory,
                                   pageVars, histVars, countVars
  <1>12. CASE CheckPrompt(a)
    <2>1. TypeQueue'
      BY <1>5, <1>6, <1>12 DEF CheckPrompt
    <2>2. TypeAgents'
      <3>1. CASE Answer(a, "none")
        BY <1>4, <3>1 DEF Answers
      <3>2. CASE agent' = [agent EXCEPT ![a].pc = "waiting"]
        BY <1>1, <1>3, <1>12, <3>2 DEF CheckPrompt, Good, AgentStates, AgentPcs
      <3>3. CASE agent' = [agent EXCEPT ![a].pc = "fill", ![a].held = {<<s, 0>>},
                                        ![a].todo = {<<s, 0>>}]
        <4>1. {<<s, 0>>} \subseteq Ids
          BY <1>2, <1>12 DEF CheckPrompt, Ids
        <4> QED BY <1>1, <1>2, <1>3, <1>12, <3>3, <4>1
                DEF CheckPrompt, Good, AgentStates, AgentPcs
      <3> QED BY <1>12, <3>1, <3>2, <3>3 DEF CheckPrompt
    <2> QED BY <1>12, <2>1, <2>2 DEF CheckPrompt, TypeOK, TypeWeb, TypePage, TypeHistory,
                                   pageVars, histVars, countVars
  <1>13. ASSUME agent[a].pc = "fill"
         PROVE  Field(a) \in agent[a].todo /\ Field(a) \in Ids
    <2>1. agent[a].todo # {} /\ agent[a].todo \in SUBSET Ids
      BY <1>1, <1>13 DEF Good, AgentStates
    <2> QED BY <2>1, FirstField DEF Field
  <1>14. ASSUME agent[a].pc = "fill", NEW t \in Nat, Filled(a, t)
         PROVE  TypeAgents'
    <2>1. CASE agent[a].todo = {Field(a)}
      BY <1>2, <1>3, <1>14, <2>1, AnsweredGood DEF Filled, Answers
    <2>2. CASE agent[a].todo # {Field(a)}
      <3> DEFINE r == [agent[a] EXCEPT !.todo = @ \ {Field(a)}, !.tok = t]
      <3>1. agent' = [agent EXCEPT ![a] = r]
        BY <1>14, <2>2 DEF Filled
      <3>2. /\ r \in AgentStates /\ r.pc = "fill" /\ r.slot = s /\ r.held = agent[a].held
            /\ r.todo = agent[a].todo \ {Field(a)}
        BY <1>1, <1>14 DEF AgentStates
      <3>3. r.todo # {} /\ r.todo \subseteq r.held
        BY <1>1, <1>13, <1>14, <2>2, <3>2 DEF Good
      <3>4. r \in Good
        BY <1>2, <1>14, <3>2, <3>3 DEF Good
      <3> HIDE DEF r
      <3> QED BY <1>3, <3>1, <3>4
    <2> QED BY <2>1, <2>2
  <1>15. CASE Fill(a)
    <2>1. PICK t \in Tokens :
            /\ tok' = t /\ idem' = idem \cup {[on |-> tok, left |-> t]} /\ Filled(a, t)
      BY <1>15 DEF Fill
    <2>2. tok \in Tokens /\ t \in Nat
      BY TokensAre DEF TypeOK, TypePage
    <2>3. TypeAgents'
      BY <1>14, <1>15, <2>1, <2>2 DEF Fill
    <2>4. TypePage'
      BY <1>13, <1>15, <2>1, <2>2 DEF Fill, TypeOK, TypePage
    <2> QED BY <1>15, <2>3, <2>4 DEF Fill, TypeOK, TypeQueue, TypeWeb, TypeHistory,
                                   queueVars, histVars, countVars
  <1>16. CASE FillHit(a)
    <2>1. PICK row \in idem : Filled(a, row.left)
      BY <1>16 DEF FillHit
    <2>2. row.left \in Nat
      BY TokensAre DEF TypeOK, TypePage
    <2>3. TypeAgents'
      BY <1>14, <1>16, <2>1, <2>2 DEF FillHit
    <2> QED BY <1>13, <1>16, <2>3 DEF FillHit, TypeOK, TypeQueue, TypeWeb, TypePage, TypeHistory,
                             queueVars, pageVars, histVars, countVars
  <1>17. CASE FillError(a)
    <2> DEFINE answered == [agent EXCEPT ![a] = [Idle EXCEPT !.answer = "err", !.slot = s]]
    <2>1. answered \in [Agents -> Good]
      BY <1>1, <1>2, AnsweredGood DEF Answers
    <2>2. agent' = answered \/ agent' = notify_all(answered)
      BY <1>17 DEF FillError
    <2>3. TypeAgents'
      <3> HIDE DEF answered
      <3> QED BY <2>1, <2>2, GoodAgents, NotifyGood
    <2>4. TypeQueue'
      BY <1>5, <1>6, <1>17 DEF FillError
    <2> QED BY <1>17, <2>3, <2>4 DEF FillError, TypeOK, TypeWeb, TypePage, TypeHistory, pageVars,
                                   histVars
  <1>18. CASE Deadline(a)
    <2>1. [Woken(agent[a]) EXCEPT !.due = TRUE] \in Good
      <3> DEFINE w == Woken(agent[a])
      <3>1. w \in Good
        BY <1>1, WokenIs DEF Good
      <3> HIDE DEF w
      <3>2. [w EXCEPT !.due = TRUE] \in Good
        BY <3>1 DEF Good, AgentStates
      <3> QED BY <3>2 DEF w
    <2>2. TypeAgents'
      BY <1>3, <1>18, <2>1 DEF Deadline
    <2> QED BY <1>18, <2>2 DEF Deadline, TypeOK, TypeQueue, TypeWeb, TypePage, TypeHistory,
                             queueVars, pageVars, histVars, countVars
  <1>19. CASE SpuriousWake(a)
    <2>1. Woken(agent[a]) \in Good
      BY <1>1, WokenIs DEF Good
    <2>2. TypeAgents'
      BY <1>3, <1>19, <2>1 DEF SpuriousWake
    <2> QED BY <1>19, <2>2 DEF SpuriousWake, TypeOK, TypeQueue, TypeWeb, TypePage, TypeHistory,
                             queueVars, pageVars, histVars, countVars
  <1> QED BY <1>7, <1>8, <1>9, <1>10, <1>11, <1>12, <1>15, <1>16, <1>17, <1>18, <1>19
          DEF AgentStep

(* What is asked for and waited for keeps the types.                        *)
LEMMA TypeCallStep ==
  ASSUME TypeOK, NEW a \in Agents,
         \/ \E refs \in Asks : (Ask(a, refs) \/ Prompt(a, refs)) /\ SlotInv
         \/ \E s \in Slots : Wait(a, s)
  PROVE  TypeOK'
  <1> USE LimitAssumption
  <1>1. agent \in [Agents -> Good]
    BY GoodAgents DEF TypeOK
  <1>2. ASSUME NEW s \in Slots, NEW t \in Nat
        PROVE  /\ [Idle EXCEPT !.pc = "enqueue", !.slot = s, !.next = 1] \in Good
               /\ [Idle EXCEPT !.pc = "inserted", !.slot = s, !.tok = t] \in Good
               /\ [Idle EXCEPT !.pc = "check", !.slot = s] \in Good
    <2>1. s \in 0..MaxAsks
      BY DEF Slots
    <2>2. [Idle EXCEPT !.pc = "enqueue", !.slot = s, !.next = 1] \in Good
      BY <2>1 DEF Idle, Good, AgentStates, AgentPcs, Answers
    <2>3. [Idle EXCEPT !.pc = "inserted", !.slot = s, !.tok = t] \in Good
      BY <2>1 DEF Idle, Good, AgentStates, AgentPcs, Answers
    <2>4. [Idle EXCEPT !.pc = "check", !.slot = s] \in Good
      BY <2>1 DEF Idle, Good, AgentStates, AgentPcs, Answers
    <2> QED BY <2>2, <2>3, <2>4
  <1>3. ASSUME NEW s \in Slots, NEW refs \in Seq(Nat), Len(refs) <= MaxFields,
               NEW k \in {"form", "prompt"}, kind' = [kind EXCEPT ![s] = k],
               ask' = [ask EXCEPT ![s] = refs], UNCHANGED aged,
               state' \in [Ids -> {"absent", "pending", "fulfilled", "cancelled"}]
        PROVE  TypeQueue'
    BY <1>3 DEF TypeOK, TypeQueue
  <1>4. CASE \E refs \in Asks : Ask(a, refs) /\ SlotInv
    <2>1. PICK refs \in Asks : Ask(a, refs) /\ SlotInv
      BY <1>4
    <2> DEFINE s == Used + 1
               r == [Idle EXCEPT !.pc = "enqueue", !.slot = s, !.next = 1]
               mine == [agent EXCEPT ![a] = r]
    <2>2. s \in Slots
      BY <2>1, FreshSlot DEF Ask, TypeOK
    <2>3. TypeAgents'
      <3>1. r \in Good
        BY <1>2, <2>2
      <3>2. mine \in [Agents -> Good]
        <4> HIDE DEF r
        <4> QED BY <1>1, <3>1
      <3>3. agent' = mine \/ agent' = notify_all(mine)
        BY <2>1 DEF Ask
      <3> HIDE DEF mine
      <3> QED BY <3>2, <3>3, GoodAgents, NotifyGood
    <2>4. TypeQueue'
      <3>1. refs \in Seq(Nat) /\ Len(refs) <= MaxFields
        BY AskAssumption
      <3>2. state' \in [Ids -> {"absent", "pending", "fulfilled", "cancelled"}]
        BY <2>1 DEF Ask, TypeOK, TypeQueue
      <3> QED BY <1>3, <2>1, <2>2, <3>1, <3>2 DEF Ask
    <2>5. TypeHistory'
      <3>1. Dead(refs) \subseteq Slots
        BY DEF Dead
      <3> QED BY <2>1, <3>1 DEF Ask, TypeOK, TypeHistory, countVars
    <2> QED BY <2>1, <2>3, <2>4, <2>5 DEF Ask, TypeOK, TypeWeb, TypePage, pageVars
  <1>5. CASE \E refs \in Asks : Prompt(a, refs) /\ SlotInv
    <2>1. PICK refs \in Asks : Prompt(a, refs) /\ SlotInv
      BY <1>5
    <2> DEFINE s == Used + 1
               r == [Idle EXCEPT !.pc = "inserted", !.slot = s, !.tok = tok]
    <2>2. s \in Slots
      BY <2>1, FreshSlot DEF Prompt, TypeOK
    <2>3. TypeAgents'
      <3>1. r \in Good
        BY <1>2, <2>2, TokensAre DEF TypeOK, TypePage
      <3>2. agent' = [agent EXCEPT ![a] = r]
        BY <2>1 DEF Prompt
      <3> HIDE DEF r
      <3> QED BY <1>1, <3>1, <3>2, GoodAgents
    <2>4. TypeQueue'
      <3>1. refs \in Seq(Nat) /\ Len(refs) \in 1..MaxFields /\ Len(refs) \in Nat
        BY AskAssumption
      <3>2. <<refs[1]>> \in Seq(Nat) /\ Len(<<refs[1]>>) <= MaxFields
        <4>1. refs[1] \in Nat
          BY <3>1
        <4> QED BY <3>1, <4>1
      <3>3. state' \in [Ids -> {"absent", "pending", "fulfilled", "cancelled"}]
        BY <2>1 DEF Prompt, TypeOK, TypeQueue
      <3> QED BY <1>3, <2>1, <2>2, <3>2, <3>3 DEF Prompt
    <2> QED BY <2>1, <2>3, <2>4 DEF Prompt, TypeOK, TypeWeb, TypePage, TypeHistory, pageVars,
                                  histVars, countVars
  <1>6. CASE \E s \in Slots : Wait(a, s)
    <2>1. PICK s \in Slots : Wait(a, s)
      BY <1>6
    <2> DEFINE r == [Idle EXCEPT !.pc = "check", !.slot = s]
    <2>2. r \in Good
      <3>1. 0 \in Nat
        OBVIOUS
      <3> QED BY <1>2, <3>1
    <2>3. TypeAgents'
      <3>1. agent' = [agent EXCEPT ![a] = r]
        BY <2>1 DEF Wait
      <3> HIDE DEF r
      <3> QED BY <1>1, <2>2, <3>1, GoodAgents
    <2>4. TypeHistory'
      <3>1. nwaits' = nwaits + 1 /\ UNCHANGED <<histVars, nlooks, nfaults, nmoves>>
        BY <2>1 DEF Wait
      <3> QED BY <3>1 DEF TypeOK, TypeHistory, histVars
    <2>5. TypeQueue' /\ TypeWeb' /\ TypePage'
      BY <2>1 DEF Wait, TypeOK, TypeQueue, TypeWeb, TypePage, queueVars, pageVars
    <2> QED BY <2>3, <2>4, <2>5 DEF TypeOK
  <1> QED BY <1>4, <1>5, <1>6

(* So do the humans' steps.                                                 *)
LEMMA TypeHumanStep ==
  ASSUME TypeOK, NEW h \in Humans,
         \/ HumanStep(h) \/ Shell(h)
         \/ \E n \in 0..MaxAsks : Look(h, n)
         \/ \E b \in {"submitting", "listing"} : Post(h, b)
  PROVE  TypeOK'
  <1> USE LimitAssumption
  <1>1. human \in [Humans -> HumanStates] /\ human[h] \in HumanStates
    BY DEF TypeOK, TypeWeb
  <1>2. state \in [Ids -> {"absent", "pending", "fulfilled", "cancelled"}]
    BY DEF TypeOK, TypeQueue
  <1>3. gc(state) \in [Ids -> {"absent", "pending", "fulfilled", "cancelled"}]
    BY <1>2 DEF gc
  <1>4. \A n : Shown(n) \in SUBSET Ids
    BY DEF Shown
  <1>5. Away \in HumanStates
    BY DEF Away, HumanStates
  <1>6. agent \in [Agents -> Good]
    BY GoodAgents DEF TypeOK
  <1>7. ASSUME NEW e \in Ids, fulfill(e) \/ cancel(e)
        PROVE  /\ TypeAgents' /\ typed' \subseteq Ids /\ refused' \subseteq Ids
               /\ state' \in [Ids -> {"absent", "pending", "fulfilled", "cancelled"}]
    <2>1. agent' = agent \/ agent' = notify_all(agent)
      BY <1>7 DEF fulfill, cancel
    <2>2. TypeAgents'
      BY <1>6, <2>1, NotifyGood, GoodAgents
    <2> QED BY <1>2, <1>7, <2>2 DEF fulfill, cancel, TypeOK, TypeHistory
  <1>8. CASE CancelList(h)
    BY <1>1, <1>3, <1>4, <1>8 DEF CancelList, HumanStates, TypeOK, TypeQueue, TypeAgents, TypeWeb,
       TypePage, TypeHistory, pageVars, histVars, countVars
  <1>9. CASE PostEntry(h)
    <2>1. PICK e \in human[h].ids :
            /\ fulfill(e) \/ cancel(e)
            /\ human' = [human EXCEPT ![h].ids = @ \ {e}]
      BY <1>9 DEF PostEntry
    <2>2. e \in Ids
      BY <1>1 DEF HumanStates
    <2>3. human' \in [Humans -> HumanStates]
      BY <1>1, <2>1 DEF HumanStates
    <2> QED BY <1>7, <1>9, <2>1, <2>2, <2>3
            DEF PostEntry, TypeOK, TypeQueue, TypeWeb, TypePage, TypeHistory, pageVars, countVars
  <1>10. CASE Posted(h)
    BY <1>1, <1>5, <1>10 DEF Posted, TypeOK, TypeQueue, TypeAgents, TypeWeb, TypePage,
       TypeHistory, queueVars, pageVars, histVars, countVars
  <1>11. CASE Shell(h)
    <2>1. \/ \E e \in Ids : fulfill(e) \/ cancel(e)
          \/ state' = gc(state) /\ UNCHANGED <<agent, typed, refused>>
      BY <1>11 DEF Shell
    <2>2. /\ TypeAgents' /\ typed' \subseteq Ids /\ refused' \subseteq Ids
          /\ state' \in [Ids -> {"absent", "pending", "fulfilled", "cancelled"}]
      <3>1. CASE \E e \in Ids : fulfill(e) \/ cancel(e)
        BY <1>7, <3>1
      <3>2. CASE state' = gc(state) /\ UNCHANGED <<agent, typed, refused>>
        BY <1>3, <3>2 DEF TypeOK, TypeAgents, TypeHistory
      <3> QED BY <2>1, <3>1, <3>2
    <2> QED BY <1>11, <2>2 DEF Shell, TypeOK, TypeQueue, TypeWeb, TypePage, TypeHistory, pageVars,
                             countVars
  <1>12. CASE \E n \in 0..MaxAsks : Look(h, n)
    BY <1>1, <1>3, <1>4, <1>12 DEF Look, HumanStates, TypeOK, TypeQueue, TypeAgents, TypeWeb,
       TypePage, TypeHistory, pageVars, histVars
  <1>13. CASE \E b \in {"submitting", "listing"} : Post(h, b)
    <2>1. TypeWeb'
      <3>1. PICK b \in {"submitting", "listing"} : Post(h, b)
        BY <1>13
      <3>2. human' \in [Humans -> HumanStates]
        <4>1. CASE human' = [human EXCEPT ![h].pc = b]
          BY <1>1, <4>1 DEF HumanStates
        <4>2. CASE human' = [human EXCEPT ![h] = Away]
          BY <1>1, <1>5, <4>2
        <4> QED BY <3>1, <4>1, <4>2 DEF Post
      <3>3. nonce' \in [0..MaxAsks -> {"none", "live", "spent", "gone"}]
        BY <3>1 DEF Post, TypeOK, TypeWeb
      <3> QED BY <3>2, <3>3 DEF TypeWeb
    <2> QED BY <1>13, <2>1 DEF Post, TypeOK, TypeQueue, TypeAgents, TypePage, TypeHistory,
                             queueVars, pageVars, histVars, countVars
  <1> QED BY <1>8, <1>9, <1>10, <1>11, <1>12, <1>13 DEF HumanStep

(* Every step keeps the types.                                              *)
LEMMA TypeStep == TypeOK /\ SlotInv /\ [Next]_vars => TypeOK'
  <1> SUFFICES ASSUME TypeOK, SlotInv, [Next]_vars PROVE TypeOK'
    OBVIOUS
  <1>1. CASE \E n \in 0..MaxAsks : NonceExpires(n)
    BY <1>1 DEF NonceExpires, TypeOK, TypeQueue, TypeAgents, TypeWeb, TypePage, TypeHistory,
       queueVars, pageVars, histVars, countVars
  <1>2. CASE MintUnscoped
    BY <1>2, LimitAssumption DEF MintUnscoped, TypeOK, TypeQueue, TypeAgents, TypeWeb, TypePage,
       TypeHistory, queueVars, pageVars, histVars, countVars
  <1>3. CASE \E e \in Ids : Age(e)
    BY <1>3, EntryIs DEF Age, TypeOK, TypeQueue, TypeAgents, TypeWeb, TypePage, TypeHistory,
       pageVars, countVars
  <1>4. CASE PageMoves
    BY <1>4 DEF PageMoves, TypeOK, TypeQueue, TypeAgents, TypeWeb, TypePage, TypeHistory,
       queueVars, histVars
  <1>5. CASE IdemExpire
    BY <1>5 DEF IdemExpire, TypeOK, TypeQueue, TypeAgents, TypeWeb, TypePage, TypeHistory,
       queueVars, histVars, countVars
  <1>6. CASE Rest \/ UNCHANGED vars
    BY <1>6 DEF Rest, vars, TypeOK, TypeQueue, TypeAgents, TypeWeb, TypePage, TypeHistory,
       queueVars, pageVars, histVars, countVars
  <1> QED BY <1>1, <1>2, <1>3, <1>4, <1>5, <1>6, TypeAgentStep, TypeCallStep, TypeHumanStep
          DEF Next

-----------------------------------------------------------------------------
(* What a step does, told by what the inductive invariant looks at.         *)

FormWaits == {"check", "parked"}
PromptWaits == {"inserted", "waiting", "awake"}

(* A call goes on with what it has: it waits, or starts to fill.            *)
Kept(b) ==
    /\ agent'[b].slot = agent[b].slot /\ agent'[b].answer = agent[b].answer
    /\ agent'[b].held = agent[b].held /\ agent'[b].todo = agent[b].todo
    /\ agent'[b].next = agent[b].next
    /\ \/ agent'[b].pc = agent[b].pc
       \/ agent[b].pc \in FormWaits /\ agent'[b].pc \in FormWaits
       \/ agent[b].pc \in PromptWaits /\ agent'[b].pc \in PromptWaits
       \/ agent[b].pc = "token" /\ agent'[b].pc = "fill"

Others(a) == \A b \in Agents : b # a => Kept(b)

NobodyParks == \A b \in Agents : agent'[b].pc = "parked" => agent[b].pc = "parked"
AllAwake == \A b \in Agents : agent'[b].pc # "parked"

(* A call is answered, and was not a success.                               *)
Over(a) ==
    /\ agent'[a].pc = "idle" /\ agent'[a].slot = agent[a].slot
    /\ agent'[a].held = {} /\ agent'[a].answer # "ok"

(* A call is made about a slot.                                             *)
Starts(a, s, pc) ==
    /\ agent[a].pc = "idle" /\ agent'[a].pc = pc /\ agent'[a].slot = s
    /\ agent'[a].held = {} /\ agent'[a].answer # "ok"

AsksKept == UNCHANGED <<kind, ask>>
HistoryKept == UNCHANGED <<typed, refused, dropped, filled, replayed>>
LinksKept == \A s \in Slots : nonce'[s] = "none" <=> nonce[s] = "none"

(* Nothing happens to the queue.                                            *)
Blocks(b) ==
    /\ \E e \in Fields(SlotOf(b)) : state[e] = "pending"
    /\ \A e \in Fields(SlotOf(b)) : state[e] # "cancelled"

Rests ==
    /\ AsksKept /\ HistoryKept /\ LinksKept /\ UNCHANGED <<state, aged>>
    /\ \A b \in Agents : Kept(b)
    /\ \A b \in Agents : agent'[b].pc = "parked" => agent[b].pc = "parked" \/ Blocks(b)

Settles(a) ==
    /\ AsksKept /\ HistoryKept /\ UNCHANGED <<state, aged>>
    /\ Others(a) /\ Over(a) /\ NobodyParks
    /\ \A s \in Slots : nonce'[s] = "none" <=>
         nonce[s] = "none" /\ ~(agent[a].pc = "mint" /\ s = SlotOf(a))
    /\ agent[a].pc \in {"mint", "check"}

Waits(a, s) ==
    /\ AsksKept /\ HistoryKept /\ LinksKept /\ UNCHANGED <<state, aged>>
    /\ kind[s] = "form" /\ nonce[s] # "none"
    /\ Others(a) /\ Starts(a, s, "check") /\ NobodyParks

(* A slot is taken.                                                         *)
AsksForm(a, refs) == LET s == Used + 1 IN
    /\ Used < MaxAsks
    /\ kind' = [kind EXCEPT ![s] = "form"] /\ ask' = [ask EXCEPT ![s] = refs]
    /\ \A e \in Ids : state'[e] = IF e[1] \in Dead(refs) /\ e \in Queued(e[1])
                                  THEN "cancelled" ELSE state[e]
    /\ dropped' = dropped \cup Dead(refs)
    /\ UNCHANGED <<aged, typed, refused, filled, replayed>> /\ LinksKept
    /\ Others(a) /\ Starts(a, s, "enqueue") /\ agent'[a].next = 1
    /\ NobodyParks /\ (Dead(refs) # {} => AllAwake)

AsksPrompt(a, refs) == LET s == Used + 1 IN
    /\ Used < MaxAsks
    /\ kind' = [kind EXCEPT ![s] = "prompt"] /\ ask' = [ask EXCEPT ![s] = <<refs[1]>>]
    /\ \A e \in Ids : state'[e] = IF e = <<s, 0>> THEN "pending" ELSE state[e]
    /\ HistoryKept /\ LinksKept /\ UNCHANGED aged
    /\ Others(a) /\ Starts(a, s, "inserted") /\ NobodyParks

Enqueues(a) == LET s == SlotOf(a) i == agent[a].next IN
    /\ AsksKept /\ HistoryKept /\ LinksKept /\ UNCHANGED aged
    /\ agent[a].pc = "enqueue"
    /\ \A e \in Ids : state'[e] = IF e = <<s, i>> THEN "pending" ELSE gc(state)[e]
    /\ Others(a) /\ NobodyParks
    /\ agent'[a].pc = IF i = Len(ask[s]) THEN "mint" ELSE "enqueue"
    /\ agent'[a].next = i + 1 /\ agent'[a].slot = s
    /\ agent'[a].held = agent[a].held /\ agent'[a].answer = agent[a].answer

(* A waiter takes its form, or its prompt, out of the queue.                *)
Takes(a, gone) ==
    /\ AsksKept /\ HistoryKept /\ LinksKept /\ UNCHANGED aged
    /\ \A e \in Ids : state'[e] = IF e \in gone THEN "absent" ELSE state[e]
    /\ Others(a) /\ NobodyParks

Slot(s) == {e \in Ids : e[1] = s}

Collects(a, pc, got) ==
    /\ agent'[a].pc = pc /\ agent'[a].slot = agent[a].slot
    /\ agent'[a].answer = agent[a].answer
    /\ agent'[a].held = got /\ agent'[a].todo = got

RemovesForm(a) ==
    /\ agent[a].pc = "check" /\ Takes(a, Slot(SlotOf(a))) /\ Over(a)
    /\ \E e \in Queued(SlotOf(a)) : state[e] = "cancelled"

CollectsForm(a) == LET here == Queued(SlotOf(a)) IN
    /\ agent[a].pc = "check" /\ Takes(a, Slot(SlotOf(a)))
    /\ here # {} /\ \A e \in here : state[e] = "fulfilled"
    /\ Collects(a, "token", here)

RemovesPrompt(a) ==
    /\ agent[a].pc \in PromptWaits /\ Takes(a, {<<SlotOf(a), 0>>}) /\ Over(a)

CollectsPrompt(a) ==
    /\ agent[a].pc = "awake" /\ Takes(a, {<<SlotOf(a), 0>>})
    /\ state[<<SlotOf(a), 0>>] = "fulfilled"
    /\ Collects(a, "fill", {<<SlotOf(a), 0>>})

(* A fill is done, or fails.                                                *)
Fills(a) == LET e == Field(a) IN
    /\ AsksKept /\ LinksKept /\ UNCHANGED <<state, aged, typed, refused, dropped>>
    /\ agent[a].pc = "fill" /\ e \in agent[a].todo
    /\ filled \subseteq filled' /\ filled' \subseteq filled \cup {e}
    /\ replayed \subseteq replayed' /\ e \in filled' \cup replayed'
    /\ Others(a) /\ NobodyParks
    /\ agent'[a].slot = SlotOf(a)
    /\ \/ /\ agent[a].todo = {e}
          /\ agent'[a].pc = "idle" /\ agent'[a].held = {} /\ agent'[a].answer = "ok"
       \/ /\ agent'[a].pc = "fill" /\ agent'[a].held = agent[a].held
          /\ agent'[a].todo = agent[a].todo \ {e} /\ agent'[a].answer = agent[a].answer

Fails(a) == LET form == kind[SlotOf(a)] = "form" IN
    /\ AsksKept /\ HistoryKept /\ LinksKept /\ UNCHANGED aged
    /\ agent[a].pc = "fill" /\ Others(a) /\ Over(a) /\ NobodyParks /\ (form => AllAwake)
    /\ \A e \in Ids : state'[e] = IF form /\ e \in agent[a].held THEN "fulfilled" ELSE state[e]

(* The human lists the queue, types, cancels, or lets an entry grow old.    *)
Lists ==
    /\ AsksKept /\ HistoryKept /\ LinksKept /\ UNCHANGED <<agent, aged>> /\ state' = gc(state)

Decides(e, to) ==
    /\ AsksKept /\ LinksKept /\ UNCHANGED <<aged, dropped, filled, replayed>>
    /\ state[e] = "pending" /\ state' = [state EXCEPT ![e] = to]
    /\ AllAwake /\ \A b \in Agents : Kept(b)

Types(e) == Decides(e, "fulfilled") /\ typed' = typed \cup {e} /\ UNCHANGED refused
Refuses(e) == Decides(e, "cancelled") /\ refused' = refused \cup {e} /\ UNCHANGED typed

Ages(e) ==
    /\ AsksKept /\ LinksKept /\ UNCHANGED <<state, agent, typed, refused, filled, replayed>>
    /\ aged' = aged \cup {e} /\ dropped' = dropped \cup {e[1]}
    /\ state[e] # "absent" \/ \E a \in Agents : e \in agent[a].held

AgentEffect(a) ==
    \/ Settles(a) \/ Enqueues(a) \/ RemovesForm(a) \/ CollectsForm(a)
    \/ RemovesPrompt(a) \/ CollectsPrompt(a) \/ Fills(a) \/ Fails(a)
    \/ \E s \in Slots : Waits(a, s)
    \/ \E refs \in Asks : AsksForm(a, refs) \/ AsksPrompt(a, refs)

EntryEffect(e) == Types(e) \/ Refuses(e) \/ Ages(e)

Effect ==
    \/ Rests \/ Lists
    \/ \E a \in Agents : AgentEffect(a)
    \/ \E e \in Ids : EntryEffect(e)

(* notify_all and a change to one agent, told this way.                     *)
LEMMA Woke ==
  ASSUME NEW r \in AgentStates
  PROVE  /\ Woken(r).pc # "parked" /\ Woken(r).pc # "waiting"
         /\ \/ Woken(r).pc = r.pc
            \/ r.pc = "parked" /\ Woken(r).pc = "check"
            \/ r.pc = "waiting" /\ Woken(r).pc = "awake"
  BY DEF Woken, AgentStates, AgentPcs

(* Woken threads are kept.                                                  *)
LEMMA WokenKept ==
  ASSUME TypeOK, NEW b \in Agents, agent'[b] = agent[b] \/ agent'[b] = Woken(agent[b])
  PROVE  Kept(b) /\ (agent'[b].pc = "parked" => agent[b].pc = "parked")
  <1>1. agent[b] \in AgentStates
    BY DEF TypeOK, TypeAgents
  <1> QED BY <1>1, WokenIs, Woke DEF Kept, FormWaits, PromptWaits

(* A step that leaves every other thread alone keeps them.                  *)
LEMMA AloneKept ==
  ASSUME TypeOK, NEW a \in Agents, NEW r, agent' = [agent EXCEPT ![a] = r]
  PROVE  /\ agent'[a] = r /\ Others(a)
         /\ r.pc # "parked" => NobodyParks
  <1>1. agent \in [Agents -> AgentStates]
    BY DEF TypeOK, TypeAgents
  <1> QED BY <1>1 DEF Others, Kept, NobodyParks

(* So does one that answers a call.                                         *)
LEMMA AnswerOver ==
  ASSUME TypeOK, NEW a \in Agents, NEW what, what # "ok", Answer(a, what)
  PROVE  Over(a) /\ Others(a) /\ NobodyParks
  <1> DEFINE r == [Idle EXCEPT !.answer = what, !.slot = agent[a].slot]
  <1>1. agent' = [agent EXCEPT ![a] = r]
    BY DEF Answer
  <1>2. r.pc = "idle" /\ r.slot = agent[a].slot /\ r.held = {} /\ r.answer = what
    BY DEF Idle
  <1> HIDE DEF r
  <1> QED BY <1>1, <1>2, AloneKept DEF Over

(* And one that wakes them all.                                             *)
LEMMA NotifyKept ==
  ASSUME TypeOK, NEW a \in Agents, NEW r \in AgentStates,
         agent' = notify_all([agent EXCEPT ![a] = r]), r.pc \notin {"parked", "waiting"}
  PROVE  agent'[a] = r /\ Others(a) /\ NobodyParks /\ AllAwake
  <1> DEFINE mine == [agent EXCEPT ![a] = r]
  <1>1. agent \in [Agents -> AgentStates]
    BY DEF TypeOK, TypeAgents
  <1>2. mine \in [Agents -> AgentStates] /\ mine[a] = r /\ \A b \in Agents : b # a => mine[b] = agent[b]
    BY <1>1
  <1>3. \A b \in Agents : agent'[b] = Woken(mine[b])
    <2> HIDE DEF mine
    <2>1. agent' = notify_all(mine)
      BY DEF mine
    <2> QED BY <1>2, <2>1, NotifyIs
  <1> HIDE DEF mine
  <1>4. agent'[a] = r
    BY <1>2, <1>3 DEF Woken
  <1>5. Others(a)
    BY <1>2, <1>3, WokenKept DEF Others
  <1>6. AllAwake
    <2>1. \A b \in Agents : mine[b] \in AgentStates
      BY <1>2
    <2> QED BY <1>3, <2>1, Woke DEF AllAwake
  <1> QED BY <1>4, <1>5, <1>6 DEF AllAwake, NobodyParks

(* The queue's steps of the agents.                                         *)
LEMMA QueueEffects ==
  ASSUME TypeOK, NEW a \in Agents,
         \/ Enqueue(a) \/ MintForm(a) \/ CheckForm(a) \/ ReadToken(a)
         \/ ParkPrompt(a) \/ CheckPrompt(a) \/ Deadline(a) \/ SpuriousWake(a)
  PROVE  Rests \/ AgentEffect(a)
  <1> DEFINE s == agent[a].slot
  <1>1. agent \in [Agents -> AgentStates] /\ agent[a] \in AgentStates
    BY DEF TypeOK, TypeAgents
  <1>2. agent[a].pc # "idle" => s \in Slots
    BY DEF TypeOK, TypeAgents
  <1>3. state \in [Ids -> {"absent", "pending", "fulfilled", "cancelled"}]
    BY DEF TypeOK, TypeQueue
  <1>4. CASE Enqueue(a)
    <2>1. \A e \in Ids : state'[e] = IF e = <<s, agent[a].next>> THEN "pending" ELSE gc(state)[e]
      BY <1>4 DEF Enqueue, gc
    <2>2. \/ agent' = [agent EXCEPT ![a].next = agent[a].next + 1, ![a].pc = "mint"]
          \/ agent' = [agent EXCEPT ![a].next = agent[a].next + 1, ![a].pc = "enqueue"]
      BY <1>4 DEF Enqueue
    <2>3. /\ Others(a) /\ NobodyParks
          /\ agent'[a].next = agent[a].next + 1 /\ agent'[a].slot = s
          /\ agent'[a].held = agent[a].held /\ agent'[a].answer = agent[a].answer
      BY <1>1, <2>2 DEF Others, Kept, NobodyParks, AgentStates
    <2>4. agent'[a].pc = IF agent[a].next = Len(ask[s]) THEN "mint" ELSE "enqueue"
      BY <1>1, <1>4 DEF Enqueue, AgentStates
    <2> QED BY <1>4, <2>1, <2>3, <2>4 DEF Enqueue, AgentEffect, Enqueues, AsksKept, HistoryKept,
                                        LinksKept, SlotOf, pageVars, histVars
  <1>5. CASE MintForm(a)
    <2>1. Over(a) /\ Others(a) /\ NobodyParks
      <3>1. Answer(a, "asked")
        BY <1>5 DEF MintForm, Answer
      <3> QED BY <3>1, AnswerOver
    <2>2. nonce \in [0..MaxAsks -> {"none", "live", "spent", "gone"}] /\ Slots \subseteq 0..MaxAsks
      BY LimitAssumption DEF TypeOK, TypeWeb, Slots
    <2>3. \A n \in Slots : nonce'[n] = "none" <=>
            nonce[n] = "none" /\ ~(agent[a].pc = "mint" /\ n = SlotOf(a))
      BY <1>5, <2>2 DEF MintForm, SlotOf
    <2> QED BY <1>5, <2>1, <2>3 DEF MintForm, AgentEffect, Settles, AsksKept, HistoryKept,
                                  queueVars, pageVars, histVars
  <1>6. CASE CheckForm(a)
    <2> DEFINE here == Queued(s)
               without == [e \in Ids |-> IF e[1] = s THEN "absent" ELSE state[e]]
    <2>1. AsksKept /\ HistoryKept /\ LinksKept /\ UNCHANGED aged /\ agent[a].pc = "check"
      BY <1>6 DEF CheckForm, AsksKept, HistoryKept, LinksKept, pageVars, histVars
    <2>2. without = state' => \A e \in Ids : state'[e] = IF e \in Slot(SlotOf(a)) THEN "absent" ELSE state[e]
      BY DEF Slot, SlotOf
    <2>3. CASE /\ \E e \in here : state[e] = "cancelled"
               /\ state' = without /\ Answer(a, "cancelled")
      BY <2>1, <2>2, <2>3, AnswerOver DEF AgentEffect, RemovesForm, Takes, SlotOf
    <2>4. CASE (Answer(a, "unknown") \/ Answer(a, "pending")) /\ UNCHANGED state
      <3>1. Over(a) /\ Others(a) /\ NobodyParks
        BY <2>4, AnswerOver
      <3> QED BY <2>1, <2>4, <3>1 DEF AgentEffect, Settles, LinksKept
    <2>5. CASE /\ here # {} /\ \A e \in here : state[e] = "fulfilled"
               /\ state' = without
               /\ agent' = [agent EXCEPT ![a].pc = "token", ![a].held = here, ![a].todo = here]
      <3>1. Others(a) /\ NobodyParks /\ Collects(a, "token", here)
        BY <1>1, <2>5 DEF Others, Kept, NobodyParks, Collects, AgentStates
      <3> QED BY <2>1, <2>2, <2>5, <3>1 DEF AgentEffect, CollectsForm, Takes, SlotOf
    <2>6. CASE /\ \E e \in here : state[e] = "pending"
               /\ \A e \in here : state[e] # "cancelled"
               /\ agent' = [agent EXCEPT ![a].pc = "parked"]
               /\ UNCHANGED state
      <3>1. \A b \in Agents : Kept(b)
        BY <1>1, <2>1, <2>6 DEF Kept, FormWaits, AgentStates
      <3>2. \A b \in Agents : agent'[b].pc = "parked" => agent[b].pc = "parked" \/ b = a
        BY <1>1, <2>6
      <3>3. Blocks(a)
        BY <2>6 DEF Blocks, Queued, SlotOf
      <3> QED BY <2>1, <2>6, <3>1, <3>2, <3>3 DEF Rests
    <2> QED BY <1>6, <2>3, <2>4, <2>5, <2>6 DEF CheckForm
  <1>7. CASE ReadToken(a)
    <2>1. \A b \in Agents : Kept(b) /\ (agent'[b].pc = "parked" => agent[b].pc = "parked")
      BY <1>1, <1>7 DEF ReadToken, Kept, AgentStates
    <2> QED BY <1>7, <2>1 DEF ReadToken, Rests, AsksKept, HistoryKept, LinksKept,
                            queueVars, pageVars, histVars
  <1>8. ASSUME AsksKept, HistoryKept, LinksKept, UNCHANGED aged, UNCHANGED state,
               agent[a].pc \in PromptWaits, agent' = [agent EXCEPT ![a].pc = "waiting"]
        PROVE  Rests
    <2>1. \A b \in Agents : Kept(b) /\ (agent'[b].pc = "parked" => agent[b].pc = "parked")
      BY <1>1, <1>8 DEF Kept, AgentStates, PromptWaits
    <2> QED BY <1>8, <2>1 DEF Rests
  <1>9. ASSUME AsksKept, HistoryKept, LinksKept, UNCHANGED aged, agent[a].pc \in PromptWaits,
               state' = [state EXCEPT ![<<s, 0>>] = "absent"], Answer(a, "none")
        PROVE  RemovesPrompt(a)
    <2>1. \A e \in Ids : state'[e] = IF e \in {<<SlotOf(a), 0>>} THEN "absent" ELSE state[e]
      BY <1>3, <1>9 DEF SlotOf
    <2> QED BY <1>9, <2>1, AnswerOver DEF RemovesPrompt, Takes
  <1>10. CASE ParkPrompt(a)
    <2>1. AsksKept /\ HistoryKept /\ LinksKept /\ UNCHANGED aged /\ agent[a].pc \in PromptWaits
      BY <1>10 DEF ParkPrompt, AsksKept, HistoryKept, LinksKept, PromptWaits, pageVars, histVars
    <2> QED BY <1>8, <1>9, <1>10, <2>1 DEF ParkPrompt, AgentEffect
  <1>11. CASE CheckPrompt(a)
    <2>1. /\ AsksKept /\ HistoryKept /\ LinksKept /\ UNCHANGED aged
          /\ agent[a].pc \in PromptWaits /\ agent[a].pc = "awake"
      BY <1>11 DEF CheckPrompt, AsksKept, HistoryKept, LinksKept, PromptWaits, pageVars, histVars
    <2>2. CASE Answer(a, "none") /\ state' = [state EXCEPT ![<<s, 0>>] = "absent"]
      BY <1>9, <2>1, <2>2 DEF AgentEffect
    <2>3. CASE UNCHANGED state /\ agent' = [agent EXCEPT ![a].pc = "waiting"]
      BY <1>8, <2>1, <2>3
    <2>4. CASE /\ state[<<s, 0>>] = "fulfilled"
               /\ state' = [state EXCEPT ![<<s, 0>>] = "absent"]
               /\ agent' = [agent EXCEPT ![a].pc = "fill", ![a].held = {<<s, 0>>},
                                         ![a].todo = {<<s, 0>>}]
      <3>1. Others(a) /\ NobodyParks /\ Collects(a, "fill", {<<s, 0>>})
        BY <1>1, <2>4 DEF Others, Kept, NobodyParks, Collects, AgentStates
      <3>2. \A e \in Ids : state'[e] = IF e \in {<<SlotOf(a), 0>>} THEN "absent" ELSE state[e]
        BY <1>3, <2>4 DEF SlotOf
      <3> QED BY <2>1, <2>4, <3>1, <3>2 DEF AgentEffect, CollectsPrompt, Takes, SlotOf
    <2> QED BY <1>11, <2>2, <2>3, <2>4 DEF CheckPrompt
  <1>12. ASSUME Deadline(a) \/ SpuriousWake(a)
         PROVE  \A b \in Agents : Kept(b) /\ (agent'[b].pc = "parked" => agent[b].pc = "parked")
    <2>1. ASSUME NEW b \in Agents, b # a PROVE agent'[b] = agent[b]
      BY <1>1, <1>12, <2>1 DEF Deadline, SpuriousWake
    <2>2. ASSUME NEW b \in Agents, b # a
          PROVE  Kept(b) /\ (agent'[b].pc = "parked" => agent[b].pc = "parked")
      BY <2>1, <2>2, WokenKept
    <2> DEFINE w == Woken(agent[a])
    <2>3. agent'[a] = w \/ agent'[a] = [w EXCEPT !.due = TRUE]
      BY <1>1, <1>12 DEF Deadline, SpuriousWake
    <2>4. /\ w \in AgentStates /\ w.pc # "parked"
          /\ w.slot = s /\ w.answer = agent[a].answer /\ w.held = agent[a].held
          /\ w.todo = agent[a].todo /\ w.next = agent[a].next
          /\ \/ w.pc = agent[a].pc
             \/ agent[a].pc = "parked" /\ w.pc = "check"
             \/ agent[a].pc = "waiting" /\ w.pc = "awake"
      BY <1>1, WokenIs, Woke
    <2> HIDE DEF w
    <2>5. Kept(a) /\ agent'[a].pc # "parked"
      BY <2>3, <2>4 DEF Kept, FormWaits, PromptWaits, AgentStates
    <2> QED BY <2>2, <2>5
  <1>13. CASE Deadline(a) \/ SpuriousWake(a)
    BY <1>12, <1>13 DEF Deadline, SpuriousWake, Rests, AsksKept, HistoryKept, LinksKept,
       queueVars, pageVars, histVars
  <1> QED BY <1>4, <1>5, <1>6, <1>7, <1>10, <1>11, <1>13

(* The fills.                                                               *)
LEMMA FillEffects ==
  ASSUME TypeOK, NEW a \in Agents, Fill(a) \/ FillHit(a) \/ FillError(a)
  PROVE  AgentEffect(a)
  <1> DEFINE s == agent[a].slot
             e == Field(a)
  <1>1. agent \in [Agents -> AgentStates] /\ agent[a] \in AgentStates
    BY DEF TypeOK, TypeAgents
  <1>2. agent[a].pc = "fill" /\ s \in Slots /\ s \in 0..MaxAsks
    BY LimitAssumption DEF TypeOK, TypeAgents, Fill, FillHit, FillError, Slots
  <1>3. Field(a) \in agent[a].todo
    <2>1. agent[a].todo # {} /\ agent[a].todo \in SUBSET Ids
      BY <1>1, <1>2 DEF TypeOK, TypeAgents, AgentStates
    <2> QED BY <2>1, FirstField DEF Field
  <1>4. ASSUME NEW t, Filled(a, t)
        PROVE  /\ Others(a) /\ NobodyParks
               /\ agent'[a].slot = SlotOf(a)
               /\ \/ /\ agent[a].todo = {e}
                     /\ agent'[a].pc = "idle" /\ agent'[a].held = {} /\ agent'[a].answer = "ok"
                  \/ /\ agent'[a].pc = "fill" /\ agent'[a].held = agent[a].held
                     /\ agent'[a].todo = agent[a].todo \ {e}
                     /\ agent'[a].answer = agent[a].answer
    <2>1. CASE agent[a].todo = {e}
      <3> DEFINE r == [Idle EXCEPT !.answer = "ok", !.slot = s]
      <3>1. agent' = [agent EXCEPT ![a] = r]
        BY <1>4, <2>1 DEF Filled
      <3>2. r.pc = "idle" /\ r.held = {} /\ r.answer = "ok" /\ r.slot = s
        BY DEF Idle
      <3> HIDE DEF r
      <3> QED BY <2>1, <3>1, <3>2, AloneKept DEF SlotOf
    <2>2. CASE agent[a].todo # {e}
      <3> DEFINE r == [agent[a] EXCEPT !.todo = @ \ {e}, !.tok = t]
      <3>1. agent' = [agent EXCEPT ![a] = r]
        BY <1>4, <2>2 DEF Filled
      <3>2. r.pc = "fill" /\ r.slot = s /\ r.held = agent[a].held /\ r.answer = agent[a].answer
            /\ r.todo = agent[a].todo \ {e}
        BY <1>1, <1>2 DEF AgentStates
      <3> HIDE DEF r, e
      <3> QED BY <3>1, <3>2, AloneKept DEF SlotOf
    <2> QED BY <2>1, <2>2
  <1>5. CASE Fill(a)
    <2>1. PICK t : Filled(a, t)
      BY <1>5 DEF Fill
    <2> QED BY <1>2, <1>3, <1>4, <1>5, <2>1 DEF Fill, AgentEffect, Fills, AsksKept, LinksKept,
                                             queueVars, histVars
  <1>6. CASE FillHit(a)
    <2>1. PICK row \in idem : row.on = tok /\ Filled(a, row.left)
      BY <1>6 DEF FillHit
    <2> QED BY <1>2, <1>3, <1>4, <1>6, <2>1
            DEF FillHit, AgentEffect, Fills, AsksKept, LinksKept, queueVars, pageVars, histVars
  <1>7. CASE FillError(a)
    <2> DEFINE r == [Idle EXCEPT !.answer = "err", !.slot = s]
               form == kind[s] = "form"
    <2>1. /\ r \in AgentStates /\ r.pc = "idle" /\ r.slot = s /\ r.held = {}
          /\ r.answer = "err"
      BY <1>2, LimitAssumption DEF Idle, AgentStates, AgentPcs, Answers
    <2>2. \/ form /\ agent' = notify_all([agent EXCEPT ![a] = r])
          \/ ~form /\ agent' = [agent EXCEPT ![a] = r]
      BY <1>7 DEF FillError
    <2>3. Over(a) /\ Others(a) /\ NobodyParks /\ (form => AllAwake)
      <3> HIDE DEF r, form
      <3> QED BY <2>1, <2>2, AloneKept, NotifyKept DEF Over
    <2>4. \A f \in Ids : state'[f] = IF form /\ f \in agent[a].held THEN "fulfilled" ELSE state[f]
      BY <1>7 DEF FillError
    <2> QED BY <1>2, <1>7, <2>3, <2>4 DEF FillError, AgentEffect, Fails, AsksKept, HistoryKept,
                                        LinksKept, SlotOf, pageVars, histVars
  <1> QED BY <1>5, <1>6, <1>7

(* What is asked for and waited for.                                        *)
LEMMA CallEffects ==
  ASSUME TypeOK, SlotInv, NEW a \in Agents,
         \/ \E refs \in Asks : Ask(a, refs) \/ Prompt(a, refs)
         \/ \E s \in Slots : Wait(a, s)
  PROVE  AgentEffect(a)
  <1>1. ASSUME NEW refs \in Asks, Ask(a, refs) PROVE AsksForm(a, refs)
    <2> DEFINE s == Used + 1
               r == [Idle EXCEPT !.pc = "enqueue", !.slot = s, !.next = 1]
    <2>1. s \in 0..MaxAsks
      BY <1>1, FreshSlot, LimitAssumption DEF Ask, TypeOK, Slots
    <2>2. /\ r \in AgentStates /\ r.pc = "enqueue" /\ r.slot = s /\ r.held = {}
          /\ r.answer = "none" /\ r.next = 1
      <3> HIDE DEF s
      <3> QED BY <2>1, LimitAssumption DEF Idle, AgentStates, AgentPcs, Answers
    <2>3. \/ Dead(refs) = {} /\ agent' = [agent EXCEPT ![a] = r]
          \/ Dead(refs) # {} /\ agent' = notify_all([agent EXCEPT ![a] = r])
      BY <1>1 DEF Ask
    <2>4. agent'[a] = r /\ Others(a) /\ NobodyParks /\ (Dead(refs) # {} => AllAwake)
      <3> HIDE DEF r
      <3> QED BY <2>2, <2>3, AloneKept, NotifyKept
    <2>5. \A e \in Ids : state'[e] = IF e[1] \in Dead(refs) /\ e \in Queued(e[1])
                                     THEN "cancelled" ELSE state[e]
      BY <1>1 DEF Ask
    <2>6. Starts(a, s, "enqueue") /\ agent'[a].next = 1
      <3> HIDE DEF r, s
      <3> QED BY <1>1, <2>2, <2>4 DEF Starts, Ask
    <2> HIDE DEF r
    <2> QED BY <1>1, <2>4, <2>5, <2>6 DEF Ask, AsksForm, LinksKept, pageVars
  <1>2. ASSUME NEW refs \in Asks, Prompt(a, refs) PROVE AsksPrompt(a, refs)
    <2> DEFINE s == Used + 1
               r == [Idle EXCEPT !.pc = "inserted", !.slot = s, !.tok = tok]
    <2>1. r.pc = "inserted" /\ r.slot = s /\ r.held = {} /\ r.answer = "none"
      BY DEF Idle
    <2>2. agent' = [agent EXCEPT ![a] = r]
      BY <1>2 DEF Prompt
    <2>3. Starts(a, s, "inserted") /\ Others(a) /\ NobodyParks
      <3>1. agent[a].pc = "idle"
        BY <1>2 DEF Prompt
      <3> HIDE DEF r, s
      <3> QED BY <2>1, <2>2, <3>1, AloneKept DEF Starts
    <2>4. \A e \in Ids : state'[e] = IF e = <<s, 0>> THEN "pending" ELSE state[e]
      BY <1>2 DEF Prompt, TypeOK, TypeQueue
    <2> HIDE DEF r
    <2> QED BY <1>2, <2>3, <2>4 DEF Prompt, AsksPrompt, HistoryKept, LinksKept, pageVars, histVars
  <1>3. ASSUME NEW s \in Slots, Wait(a, s) PROVE Waits(a, s)
    <2> DEFINE r == [Idle EXCEPT !.pc = "check", !.slot = s]
    <2>1. r.pc = "check" /\ r.slot = s /\ r.held = {} /\ r.answer = "none"
      BY DEF Idle
    <2>2. agent' = [agent EXCEPT ![a] = r] /\ agent[a].pc = "idle"
      BY <1>3 DEF Wait
    <2>3. Starts(a, s, "check") /\ Others(a) /\ NobodyParks
      <3> HIDE DEF r
      <3> QED BY <2>1, <2>2, AloneKept DEF Starts
    <2> QED BY <1>3, <2>3 DEF Wait, Waits, AsksKept, HistoryKept, LinksKept, queueVars, pageVars,
                            histVars
  <1> QED BY <1>1, <1>2, <1>3 DEF AgentEffect

(* The humans.                                                              *)
LEMMA HumanEffects ==
  ASSUME TypeOK, NEW h \in Humans,
         \/ HumanStep(h) \/ Shell(h)
         \/ \E n \in 0..MaxAsks : Look(h, n)
         \/ \E b \in {"submitting", "listing"} : Post(h, b)
  PROVE  Effect
  <1>1. ASSUME UNCHANGED agent
        PROVE  \A b \in Agents : Kept(b) /\ (agent'[b].pc = "parked" => agent[b].pc = "parked")
    BY <1>1 DEF Kept
  <1>2. ASSUME NEW e \in Ids, fulfill(e) \/ cancel(e), UNCHANGED <<kind, ask, aged, nonce, pageVars, dropped>>
        PROVE  Types(e) \/ Refuses(e) \/ Rests
    <2>1. AsksKept /\ LinksKept /\ UNCHANGED <<aged, dropped, filled, replayed>>
      BY <1>2 DEF AsksKept, LinksKept, pageVars
    <2>2. ASSUME agent' = notify_all(agent)
          PROVE  \A b \in Agents : Kept(b) /\ agent'[b].pc # "parked"
      <3>1. agent \in [Agents -> AgentStates]
        BY DEF TypeOK, TypeAgents
      <3>2. \A b \in Agents : agent'[b] = Woken(agent[b]) /\ agent[b] \in AgentStates
        BY <2>2, <3>1, NotifyIs
      <3> QED BY <3>2, WokenKept, Woke
    <2>3. CASE UNCHANGED <<state, agent, typed, refused>>
      BY <1>1, <2>1, <2>3 DEF Rests, HistoryKept
    <2>4. CASE fulfill(e) /\ state[e] = "pending"
      BY <2>1, <2>2, <2>4 DEF fulfill, Types, Decides, AllAwake
    <2>5. CASE cancel(e) /\ state[e] = "pending"
      BY <2>1, <2>2, <2>5 DEF cancel, Refuses, Decides, AllAwake
    <2> QED BY <1>2, <2>3, <2>4, <2>5 DEF fulfill, cancel
  <1>3. CASE PostEntry(h)
    <2>1. human[h].ids \subseteq Ids
      BY DEF TypeOK, TypeWeb, HumanStates
    <2>2. \E e \in Ids : fulfill(e) \/ cancel(e)
      BY <1>3, <2>1 DEF PostEntry
    <2> QED BY <1>2, <1>3, <2>2 DEF PostEntry, Effect, EntryEffect
  <1>4. CASE Shell(h)
    <2>1. \/ \E e \in Ids : fulfill(e) \/ cancel(e)
          \/ state' = gc(state) /\ UNCHANGED <<agent, typed, refused>>
      BY <1>4 DEF Shell
    <2>2. CASE \E e \in Ids : fulfill(e) \/ cancel(e)
      BY <1>2, <1>4, <2>2 DEF Shell, Effect, EntryEffect
    <2>3. CASE state' = gc(state) /\ UNCHANGED <<agent, typed, refused>>
      BY <1>4, <2>3 DEF Shell, Effect, Lists, AsksKept, HistoryKept, LinksKept, pageVars
    <2> QED BY <2>1, <2>2, <2>3
  <1>5. CASE CancelList(h)
    BY <1>5 DEF CancelList, Effect, Lists, AsksKept, HistoryKept, LinksKept, pageVars, histVars
  <1>6. CASE \E n \in 0..MaxAsks : Look(h, n)
    BY <1>6 DEF Look, Effect, Lists, AsksKept, HistoryKept, LinksKept, pageVars, histVars
  <1>7. CASE Posted(h)
    BY <1>1, <1>7 DEF Posted, Effect, Rests, AsksKept, HistoryKept, LinksKept, queueVars, pageVars,
       histVars
  <1>8. CASE \E b \in {"submitting", "listing"} : Post(h, b)
    <2>1. LinksKept
      <3>1. nonce \in [0..MaxAsks -> {"none", "live", "spent", "gone"}] /\ human[h].link \in 0..MaxAsks
            /\ Slots \subseteq 0..MaxAsks
        BY LimitAssumption DEF TypeOK, TypeWeb, HumanStates, Slots
      <3> QED BY <1>8, <3>1 DEF Post, LinksKept
    <2> QED BY <1>1, <1>8, <2>1 DEF Post, Effect, Rests, AsksKept, HistoryKept, queueVars, pageVars,
                                  histVars
  <1> QED BY <1>3, <1>4, <1>5, <1>6, <1>7, <1>8 DEF HumanStep

(* Every step has one of the effects.                                       *)
LEMMA Effects ==
  ASSUME TypeOK, SlotInv, [Next]_vars
  PROVE  Effect
  <1>1. ASSUME UNCHANGED agent
        PROVE  \A b \in Agents : Kept(b) /\ (agent'[b].pc = "parked" => agent[b].pc = "parked")
    BY <1>1 DEF Kept
  <1>2. ASSUME NEW a \in Agents, AgentStep(a) \/ Deadline(a) \/ SpuriousWake(a)
        PROVE  Effect
    BY <1>2, QueueEffects, FillEffects DEF AgentStep, Effect
  <1>3. CASE \E n \in 0..MaxAsks : NonceExpires(n)
    <2>1. LinksKept
      <3>1. nonce \in [0..MaxAsks -> {"none", "live", "spent", "gone"}] /\ Slots \subseteq 0..MaxAsks
        BY LimitAssumption DEF TypeOK, TypeWeb, Slots
      <3> QED BY <1>3, <3>1 DEF NonceExpires, LinksKept
    <2> QED BY <1>1, <1>3, <2>1 DEF NonceExpires, Effect, Rests, AsksKept, HistoryKept, queueVars,
                                  pageVars, histVars
  <1>4. CASE MintUnscoped
    <2>1. LinksKept
      BY <1>4, LimitAssumption DEF MintUnscoped, LinksKept, TypeOK, TypeWeb, Slots
    <2> QED BY <1>1, <1>4, <2>1 DEF MintUnscoped, Effect, Rests, AsksKept, HistoryKept, queueVars,
                                  pageVars, histVars
  <1>5. CASE \E e \in Ids : Age(e)
    BY <1>5 DEF Age, Effect, EntryEffect, Ages, AsksKept, LinksKept, pageVars
  <1>6. CASE PageMoves \/ IdemExpire \/ Rest \/ UNCHANGED vars
    BY <1>1, <1>6 DEF PageMoves, IdemExpire, Rest, vars, Effect, Rests, AsksKept, HistoryKept,
       LinksKept, queueVars, pageVars, histVars
  <1>7. ASSUME NEW a \in Agents,
               \/ \E refs \in Asks : Ask(a, refs) \/ Prompt(a, refs)
               \/ \E s \in Slots : Wait(a, s)
        PROVE  Effect
    BY <1>7, CallEffects DEF Effect
  <1> QED BY <1>2, <1>3, <1>4, <1>5, <1>6, <1>7, HumanEffects DEF Next

-----------------------------------------------------------------------------
(* Slots, and who works on them.                                            *)

(* What a step asks for takes a slot that was free.                         *)
LEMMA OldSlots ==
  ASSUME TypeOK, SlotInv, Effect
  PROVE  /\ \A s \in Slots : kind[s] # "free" => kind'[s] = kind[s] /\ ask'[s] = ask[s]
         /\ \A s \in Slots : kind[s] # "free" => Fields(s)' = Fields(s)
         /\ \A s \in Slots : kind'[s] = "free" => kind[s] = "free"
  <1>1. /\ \A s \in Slots : kind[s] # "free" => kind'[s] = kind[s] /\ ask'[s] = ask[s]
        /\ \A s \in Slots : kind'[s] = "free" => kind[s] = "free"
    <2>1. CASE AsksKept
      BY <2>1 DEF AsksKept
    <2>2. ASSUME NEW a \in Agents, NEW refs \in Asks, AsksForm(a, refs) \/ AsksPrompt(a, refs)
          PROVE  /\ \A s \in Slots : kind[s] # "free" => kind'[s] = kind[s] /\ ask'[s] = ask[s]
                 /\ \A s \in Slots : kind'[s] = "free" => kind[s] = "free"
      <3>1. Used + 1 \in Slots /\ kind[Used + 1] = "free"
        BY <2>2, FreshSlot DEF AsksForm, AsksPrompt, TypeOK
      <3> QED BY <2>2, <3>1 DEF AsksForm, AsksPrompt, TypeOK, TypeQueue
    <2> QED BY <2>1, <2>2 DEF Effect, AgentEffect, EntryEffect, Rests, Lists, Settles, Waits,
               Enqueues, RemovesForm, CollectsForm, RemovesPrompt, CollectsPrompt, Takes, Fills,
               Fails, Types, Refuses, Decides, Ages
  <1>2. ASSUME NEW s \in Slots, kind[s] # "free" PROVE Fields(s)' = Fields(s)
    BY <1>1, <1>2 DEF Fields
  <1> QED BY <1>1, <1>2

(* What a call holds is of the slot it works on.                            *)
LEMMA HeldIs ==
  ASSUME TypeOK, AgentInv, HoldInv, NEW a \in Agents, NEW e \in agent[a].held
  PROVE  /\ e \in Ids /\ e[1] = SlotOf(a) /\ SlotOf(a) \in Slots /\ Filling(a)
         /\ kind[SlotOf(a)] \in {"form", "prompt"}
         /\ kind[SlotOf(a)] = "form" => e \in Fields(SlotOf(a)) /\ nonce[SlotOf(a)] # "none"
         /\ kind[SlotOf(a)] = "prompt" => e = <<SlotOf(a), 0>>
  <1>1. e \in Ids
    BY DEF TypeOK, TypeAgents, AgentStates
  <1>2. Filling(a) /\ SlotOf(a) \in Slots
    BY DEF HoldInv, TypeOK, TypeAgents, Filling, SlotOf
  <1>3. kind[SlotOf(a)] \in {"form", "prompt"}
    BY <1>2 DEF AgentInv, Filling, Collecting, TypeOK, TypeQueue
  <1>4. kind[SlotOf(a)] = "form" => e \in Fields(SlotOf(a)) /\ nonce[SlotOf(a)] # "none"
    BY <1>2 DEF HoldInv, AgentInv, Filling, Collecting
  <1>5. kind[SlotOf(a)] = "prompt" => e = <<SlotOf(a), 0>>
    BY <1>2 DEF HoldInv
  <1>6. e[1] = SlotOf(a)
    BY <1>2, <1>3, <1>4, <1>5, FieldsAre DEF TypeOK
  <1> QED BY <1>1, <1>2, <1>3, <1>4, <1>5, <1>6

(* An entry in the queue is of a slot in use, and its form's or prompt's.   *)
LEMMA QueuedIs ==
  ASSUME TypeOK, SlotInv, NEW e \in Ids, state[e] # "absent"
  PROVE  /\ e[1] \in Slots /\ kind[e[1]] \in {"form", "prompt"}
         /\ kind[e[1]] = "form" => e \in Fields(e[1]) /\ e \in Queued(e[1]) /\ e[2] # 0
         /\ kind[e[1]] = "prompt" => e[2] = 0 /\ e = <<e[1], 0>>
  BY EntryIs, FieldsAre DEF SlotInv, TypeOK, Queued

(* A fill is about an entry the call holds.                                 *)
LEMMA FieldHeld ==
  ASSUME TypeOK, AgentInv, HoldInv, NEW a \in Agents, Fills(a)
  PROVE  Field(a) \in agent[a].held /\ Field(a) \in Ids /\ Field(a)[1] = SlotOf(a)
  <1>1. Field(a) \in agent[a].held
    BY DEF Fills, TypeOK, TypeAgents
  <1> QED BY <1>1, HeldIs

(* How an entry comes into the queue.                                       *)
LEMMA Arrives ==
  ASSUME TypeOK, Effect, NEW e \in Ids, state[e] = "absent", state'[e] # "absent"
  PROVE  \/ \E a \in Agents : Enqueues(a) /\ e = <<SlotOf(a), agent[a].next>>
         \/ \E a \in Agents, refs \in Asks : AsksPrompt(a, refs) /\ e = <<Used + 1, 0>>
         \/ \E a \in Agents : Fails(a) /\ e \in agent[a].held /\ kind[SlotOf(a)] = "form"
  <1>1. ASSUME NEW a \in Agents, Enqueues(a)
        PROVE  e = <<SlotOf(a), agent[a].next>>
    BY <1>1 DEF Enqueues, gc
  <1>2. ASSUME NEW a \in Agents, NEW refs \in Asks, AsksPrompt(a, refs)
        PROVE  e = <<Used + 1, 0>>
    BY <1>2 DEF AsksPrompt
  <1>3. ASSUME NEW a \in Agents, Fails(a)
        PROVE  e \in agent[a].held /\ kind[SlotOf(a)] = "form"
    BY <1>3 DEF Fails
  <1>4. ASSUME NEW a \in Agents, NEW refs \in Asks, AsksForm(a, refs)
        PROVE  FALSE
    BY <1>4 DEF AsksForm, Queued
  <1>5. ASSUME \/ Lists
               \/ \E f \in Ids : Types(f) \/ Refuses(f)
        PROVE  FALSE
    BY <1>5 DEF Lists, gc, Types, Refuses, Decides, TypeOK, TypeQueue
  <1>6. ASSUME NEW a \in Agents, NEW gone, Takes(a, gone) PROVE FALSE
    BY <1>6 DEF Takes
  <1>7. state' # state
    OBVIOUS
  <1> QED BY <1>1, <1>2, <1>3, <1>4, <1>5, <1>6, <1>7
          DEF Effect, AgentEffect, EntryEffect, Rests, Settles, Waits, RemovesForm, CollectsForm,
              RemovesPrompt, CollectsPrompt, Fills, Ages

(* What happened to entries stays so; where each of it is recorded.         *)
LEMMA Recorded ==
  ASSUME Effect
  PROVE  /\ typed \subseteq typed' /\ \A e \in typed' : e \in typed \/ Types(e)
         /\ refused \subseteq refused' /\ \A e \in refused' : e \in refused \/ Refuses(e)
         /\ filled \subseteq filled' /\ replayed \subseteq replayed'
         /\ \A e \in filled' : e \in filled \/ \E a \in Agents : Fills(a) /\ e = Field(a)
         /\ dropped \subseteq dropped' /\ aged \subseteq aged'
  <1>1. CASE HistoryKept /\ UNCHANGED aged
    BY <1>1 DEF HistoryKept
  <1>2. CASE \E e \in Ids : EntryEffect(e)
    BY <1>2 DEF EntryEffect, Types, Refuses, Decides, Ages
  <1>3. CASE \E a \in Agents : Fills(a)
    BY <1>3 DEF Fills
  <1>4. CASE \E a \in Agents, refs \in Asks : AsksForm(a, refs)
    BY <1>4 DEF AsksForm
  <1> QED BY <1>1, <1>2, <1>3, <1>4
          DEF Effect, AgentEffect, Rests, Lists, Settles, Waits, AsksPrompt, Enqueues,
              RemovesForm, CollectsForm, RemovesPrompt, CollectsPrompt, Takes, Fails

(* Every step keeps slots and entries in order.                             *)
LEMMA SlotStep ==
  ASSUME TypeOK, TypeOK', SlotInv, AgentInv, FreshInv, HoldInv, Effect
  PROVE  SlotInv'
  <1>1. \E n \in 0..MaxAsks : \A s \in Slots : kind'[s] # "free" <=> s <= n
    <2>1. CASE UNCHANGED kind
      BY <2>1 DEF SlotInv
    <2>2. ASSUME NEW a \in Agents, NEW refs \in Asks, AsksForm(a, refs) \/ AsksPrompt(a, refs)
          PROVE  \E n \in 0..MaxAsks : \A s \in Slots : kind'[s] # "free" <=> s <= n
      <3>1. /\ Used \in 0..MaxAsks /\ Used + 1 \in Slots /\ kind[Used + 1] = "free"
            /\ \A s \in Slots : kind[s] # "free" <=> s <= Used
        BY <2>2, FreshSlot DEF AsksForm, AsksPrompt, TypeOK
      <3>2. \A s \in Slots : kind'[s] # "free" <=> kind[s] # "free" \/ s = Used + 1
        BY <2>2, <3>1 DEF AsksForm, AsksPrompt, TypeOK, TypeQueue
      <3>3. \A s \in Slots : kind'[s] # "free" <=> s <= Used + 1
        BY <3>1, <3>2, LimitAssumption DEF Slots
      <3>4. Used + 1 \in 0..MaxAsks
        BY <3>1, LimitAssumption DEF Slots
      <3> QED BY <3>3, <3>4
    <2> QED BY <2>1, <2>2 DEF Effect, AgentEffect, EntryEffect, Rests, Lists, Settles, Waits,
               Enqueues, RemovesForm, CollectsForm, RemovesPrompt, CollectsPrompt, Takes, Fills,
               Fails, Types, Refuses, Decides, Ages, AsksKept
  <1>2. \A s \in Slots : kind'[s] # "form" => nonce'[s] = "none"
    <2>1. CASE LinksKept
      <3>1. \A s \in Slots : kind'[s] # "form" => kind[s] # "form"
        BY OldSlots
      <3> QED BY <2>1, <3>1 DEF LinksKept, SlotInv
    <2>2. ASSUME NEW a \in Agents, Settles(a)
          PROVE  \A s \in Slots : kind'[s] # "form" => nonce'[s] = "none"
      <3>1. agent[a].pc = "mint" => kind[SlotOf(a)] = "form"
        BY DEF AgentInv, Asking
      <3> QED BY <2>2, <3>1 DEF Settles, AsksKept, SlotInv
    <2> QED BY <2>1, <2>2 DEF Effect, AgentEffect, EntryEffect, Rests, Lists, Waits, AsksForm,
               AsksPrompt, Enqueues, RemovesForm, CollectsForm, RemovesPrompt, CollectsPrompt,
               Takes, Fills, Fails, Types, Refuses, Decides, Ages
  <1>3. ASSUME NEW e \in Ids, state'[e] # "absent"
        PROVE  IF e[2] = 0 THEN kind'[e[1]] = "prompt"
               ELSE kind'[e[1]] = "form" /\ e \in Fields(e[1])'
    <2>1. CASE state[e] # "absent"
      <3>1. kind'[e[1]] = kind[e[1]] /\ Fields(e[1])' = Fields(e[1])
        BY <2>1, QueuedIs, OldSlots
      <3> QED BY <2>1, <3>1 DEF SlotInv
    <2>2. CASE state[e] = "absent"
      <3>1. ASSUME NEW a \in Agents, Enqueues(a), e = <<SlotOf(a), agent[a].next>>
            PROVE  kind'[e[1]] = "form" /\ e \in Fields(e[1])' /\ e[2] # 0
        <4>1. /\ SlotOf(a) \in Slots /\ kind[SlotOf(a)] = "form"
              /\ agent[a].next \in 1..Len(ask[SlotOf(a)])
          BY <3>1 DEF Enqueues, FreshInv, AgentInv, Asking, SlotOf, TypeOK, TypeAgents
        <4>2. e \in Fields(SlotOf(a)) /\ e[1] = SlotOf(a) /\ e[2] # 0
          BY <3>1, <4>1, FieldsAre DEF TypeOK
        <4> QED BY <4>1, <4>2, OldSlots
      <3>2. ASSUME NEW a \in Agents, NEW refs \in Asks, AsksPrompt(a, refs), e = <<Used + 1, 0>>
            PROVE  kind'[e[1]] = "prompt" /\ e[2] = 0
        <4>1. Used + 1 \in Slots
          BY <3>2, FreshSlot DEF AsksPrompt, TypeOK
        <4> QED BY <3>2, <4>1 DEF AsksPrompt, TypeOK, TypeQueue
      <3>3. ASSUME NEW a \in Agents, e \in agent[a].held, kind[SlotOf(a)] = "form"
            PROVE  kind'[e[1]] = "form" /\ e \in Fields(e[1])' /\ e[2] # 0
        <4>1. e \in Fields(SlotOf(a)) /\ e[1] = SlotOf(a) /\ SlotOf(a) \in Slots
          BY <3>3, HeldIs
        <4> QED BY <3>3, <4>1, OldSlots, FieldsAre DEF TypeOK
      <3> QED BY <1>3, <2>2, <3>1, <3>2, <3>3, Arrives
    <2> QED BY <2>1, <2>2
  <1>4. ASSUME NEW e \in typed' \cup filled' \cup refused'
        PROVE  kind'[e[1]] # "free"
    <2>1. e \in Ids
      BY DEF TypeOK, TypePage, TypeHistory
    <2>2. kind[e[1]] # "free"
      <3>1. CASE e \in typed \cup filled \cup refused
        BY <3>1 DEF SlotInv
      <3>2. ASSUME Types(e) \/ Refuses(e)
            PROVE  kind[e[1]] # "free"
        <4>1. state[e] # "absent"
          BY <3>2 DEF Types, Refuses, Decides
        <4> QED BY <2>1, <4>1, QueuedIs
      <3>3. ASSUME NEW a \in Agents, Fills(a), e = Field(a)
            PROVE  kind[e[1]] # "free"
        BY <3>3, FieldHeld, HeldIs
      <3> QED BY <1>4, <3>1, <3>2, <3>3, Recorded
    <2> QED BY <2>1, <2>2, OldSlots, EntryIs
  <1> QED BY <1>1, <1>2, <1>3, <1>4 DEF SlotInv

(* A call goes on as it was, unless the step is its own.                    *)
LEMMA Movers ==
  ASSUME Effect, NEW b \in Agents
  PROVE  Kept(b) \/ AgentEffect(b)
  <1>1. ASSUME UNCHANGED agent PROVE Kept(b)
    BY <1>1 DEF Kept
  <1>2. ASSUME NEW a \in Agents, AgentEffect(a), b # a PROVE Kept(b)
    <2>1. Others(a)
      BY <1>2 DEF AgentEffect, Settles, Waits, AsksForm, AsksPrompt, Enqueues, RemovesForm,
         CollectsForm, RemovesPrompt, CollectsPrompt, Takes, Fills, Fails
    <2> QED BY <1>2, <2>1 DEF Others
  <1> QED BY <1>1, <1>2 DEF Effect, EntryEffect, Rests, Lists, Types, Refuses, Decides, Ages

(* A form's link, once minted, was minted; only "mint" mints one.           *)
LEMMA Minted ==
  ASSUME Effect, NEW s \in Slots
  PROVE  /\ nonce[s] # "none" => nonce'[s] # "none"
         /\ nonce'[s] # "none" => \/ nonce[s] # "none"
                                  \/ \E a \in Agents : /\ Settles(a) /\ agent[a].pc = "mint"
                                                       /\ s = SlotOf(a)
  <1>1. CASE LinksKept
    BY <1>1 DEF LinksKept
  <1>2. CASE \E a \in Agents : Settles(a)
    BY <1>2 DEF Settles
  <1> QED BY <1>1, <1>2 DEF Effect, AgentEffect, EntryEffect, Rests, Lists, Waits, AsksForm,
             AsksPrompt, Enqueues, RemovesForm, CollectsForm, RemovesPrompt, CollectsPrompt,
             Takes, Fills, Fails, Types, Refuses, Decides, Ages

(* Who is asking was asking, or has just taken a free slot.                 *)
LEMMA Askers ==
  ASSUME TypeOK, SlotInv, AgentInv, Effect, NEW b \in Agents, Asking(b)'
  PROVE  \/ Asking(b) /\ SlotOf(b)' = SlotOf(b) /\ kind[SlotOf(b)] = "form"
         \/ /\ ~Asking(b) /\ SlotOf(b)' = Used + 1
            /\ \E refs \in Asks : AsksForm(b, refs)
  <1>1. ASSUME Kept(b) PROVE Asking(b) /\ SlotOf(b)' = SlotOf(b)
    BY <1>1 DEF Kept, Asking, SlotOf, FormWaits, PromptWaits
  <1>2. CASE Enqueues(b)
    BY <1>2 DEF Enqueues, Asking, SlotOf, AgentInv
  <1>3. ASSUME NEW refs \in Asks, AsksForm(b, refs)
        PROVE  ~Asking(b) /\ SlotOf(b)' = Used + 1
    BY <1>3 DEF AsksForm, Starts, Asking, SlotOf
  <1>4. ASSUME \/ Settles(b) \/ RemovesForm(b) \/ CollectsForm(b) \/ RemovesPrompt(b)
               \/ CollectsPrompt(b) \/ Fills(b) \/ Fails(b)
               \/ \E s \in Slots : Waits(b, s)
               \/ \E refs \in Asks : AsksPrompt(b, refs)
        PROVE  FALSE
    BY <1>4 DEF Settles, RemovesForm, CollectsForm, RemovesPrompt, CollectsPrompt, Fills, Fails,
       Waits, AsksPrompt, Over, Collects, Starts, Asking
  <1> QED BY <1>1, <1>2, <1>3, <1>4, Movers DEF AgentEffect, AgentInv

(* Every step keeps what agents work on.                                    *)
LEMMA AgentInvStep ==
  ASSUME TypeOK, TypeOK', SlotInv, AgentInv, FreshInv, HoldInv, Effect
  PROVE  AgentInv'
  <1>1. ASSUME NEW b \in Agents
        PROVE  /\ Asking(b)' \/ Collecting(b)' => kind'[SlotOf(b)'] = "form"
               /\ agent'[b].pc \in PromptWaits => kind'[SlotOf(b)'] = "prompt"
               /\ agent'[b].pc = "fill" => kind'[SlotOf(b)'] # "free"
               /\ agent'[b].answer = "ok" => SlotOf(b)' \in Slots /\ kind'[SlotOf(b)'] # "free"
               /\ Collecting(b)' \/ (agent'[b].pc = "fill" /\ kind'[SlotOf(b)'] = "form")
                    => nonce'[SlotOf(b)'] # "none"
    <2>1. agent[b].pc # "idle" => SlotOf(b) \in Slots
      BY DEF TypeOK, TypeAgents, SlotOf
    <2>2. \A s \in Slots : /\ kind[s] # "free" => kind'[s] = kind[s]
                           /\ nonce[s] # "none" => nonce'[s] # "none"
      BY OldSlots, Minted
    <2>3. CASE Kept(b)
      <3>1. /\ SlotOf(b)' = SlotOf(b) /\ agent'[b].answer = agent[b].answer
            /\ Asking(b)' => Asking(b)
            /\ Collecting(b)' => Collecting(b)
            /\ agent'[b].pc \in PromptWaits => agent[b].pc \in PromptWaits
            /\ agent'[b].pc = "fill" => agent[b].pc = "fill" \/ Collecting(b)
        BY <2>3 DEF Kept, SlotOf, Asking, Collecting, FormWaits, PromptWaits
      <3>2. /\ Asking(b) \/ Collecting(b) => agent[b].pc # "idle" /\ kind[SlotOf(b)] = "form"
            /\ Collecting(b) => nonce[SlotOf(b)] # "none"
            /\ agent[b].pc \in PromptWaits => agent[b].pc # "idle" /\ kind[SlotOf(b)] = "prompt"
            /\ agent[b].pc = "fill" => kind[SlotOf(b)] # "free"
            /\ agent[b].answer = "ok" => SlotOf(b) \in Slots /\ kind[SlotOf(b)] # "free"
            /\ agent[b].pc = "fill" /\ kind[SlotOf(b)] = "form" => nonce[SlotOf(b)] # "none"
        BY DEF AgentInv, Asking, Collecting, PromptWaits
      <3> QED BY <2>1, <2>2, <3>1, <3>2
    <2>4. CASE Settles(b) \/ RemovesForm(b) \/ RemovesPrompt(b) \/ Fails(b)
      BY <2>4 DEF Settles, RemovesForm, RemovesPrompt, Fails, Over, Asking, Collecting, PromptWaits
    <2>5. CASE Enqueues(b)
      <3>1. /\ SlotOf(b)' = SlotOf(b) /\ agent'[b].answer = agent[b].answer
            /\ agent'[b].pc \in {"mint", "enqueue"} /\ Asking(b) /\ agent[b].pc # "idle"
        BY <2>5 DEF Enqueues, SlotOf, Asking
      <3>2. kind[SlotOf(b)] = "form"
        BY <3>1 DEF AgentInv
      <3> QED BY <2>1, <2>2, <3>1, <3>2 DEF Asking, Collecting, PromptWaits
    <2>6. CASE CollectsForm(b) \/ CollectsPrompt(b)
      <3>1. SlotOf(b)' = SlotOf(b) /\ agent'[b].answer = agent[b].answer /\ agent[b].pc # "idle"
        BY <2>6 DEF CollectsForm, CollectsPrompt, Collects, SlotOf
      <3>2. \/ agent[b].pc = "check" /\ agent'[b].pc = "token"
            \/ agent[b].pc = "awake" /\ agent'[b].pc = "fill"
        BY <2>6 DEF CollectsForm, CollectsPrompt, Collects
      <3> QED BY <2>1, <2>2, <3>1, <3>2 DEF AgentInv, Asking, Collecting, PromptWaits
    <2>7. CASE Fills(b)
      <3>1. /\ SlotOf(b)' = SlotOf(b) /\ agent[b].pc = "fill" /\ agent'[b].pc \in {"idle", "fill"}
        BY <2>7 DEF Fills, SlotOf
      <3>2. kind[SlotOf(b)] # "free" /\ SlotOf(b) \in Slots
        BY <2>1, <3>1 DEF AgentInv
      <3> QED BY <2>1, <2>2, <3>1, <3>2 DEF AgentInv, Asking, Collecting, PromptWaits
    <2>8. ASSUME NEW s \in Slots, Waits(b, s)
          PROVE  /\ SlotOf(b)' = s /\ agent'[b].pc = "check" /\ agent'[b].answer # "ok"
                 /\ kind[s] = "form" /\ nonce[s] # "none"
      BY <2>8 DEF Waits, Starts, SlotOf
    <2>9. CASE \E s \in Slots : Waits(b, s)
      BY <2>2, <2>8, <2>9 DEF Asking, Collecting, PromptWaits
    <2>10. ASSUME NEW refs \in Asks, AsksForm(b, refs) \/ AsksPrompt(b, refs)
           PROVE  /\ Used + 1 \in Slots
                  /\ SlotOf(b)' = Used + 1 /\ agent'[b].answer # "ok"
                  /\ \/ agent'[b].pc = "enqueue" /\ kind'[Used + 1] = "form"
                     \/ agent'[b].pc = "inserted" /\ kind'[Used + 1] = "prompt"
      <3>1. Used + 1 \in Slots
        BY <2>10, FreshSlot DEF AsksForm, AsksPrompt, TypeOK
      <3> QED BY <2>10, <3>1 DEF AsksForm, AsksPrompt, Starts, SlotOf, TypeOK, TypeQueue
    <2>11. CASE \E refs \in Asks : AsksForm(b, refs) \/ AsksPrompt(b, refs)
      BY <2>10, <2>11 DEF Asking, Collecting, PromptWaits
    <2> QED BY <2>3, <2>4, <2>5, <2>6, <2>7, <2>9, <2>11, Movers DEF AgentEffect
  <1>2. ASSUME NEW b \in Agents, Asking(b)'
        PROVE  nonce'[SlotOf(b)'] = "none"
    <2>1. CASE Asking(b) /\ SlotOf(b)' = SlotOf(b)
      <3>1. nonce[SlotOf(b)] = "none" /\ SlotOf(b) \in Slots
        BY <2>1 DEF AgentInv, Asking, SlotOf, TypeOK, TypeAgents
      <3>2. ASSUME NEW a \in Agents, Settles(a), agent[a].pc = "mint", SlotOf(b) = SlotOf(a)
            PROVE  FALSE
        <4>1. a = b
          BY <2>1, <3>2 DEF AgentInv, Asking
        <4> QED BY <1>2, <3>2, <4>1 DEF Settles, Over, Asking
      <3> QED BY <2>1, <3>1, <3>2, Minted
    <2>2. ASSUME NEW refs \in Asks, AsksForm(b, refs), SlotOf(b)' = Used + 1
          PROVE  nonce'[SlotOf(b)'] = "none"
      <3>1. Used + 1 \in Slots /\ kind[Used + 1] = "free"
        BY <2>2, FreshSlot DEF AsksForm, TypeOK
      <3> QED BY <2>2, <3>1 DEF AsksForm, LinksKept, SlotInv
    <2> QED BY <1>2, <2>1, <2>2, Askers
  <1>3. ASSUME NEW b \in Agents, NEW c \in Agents, Asking(b)', Asking(c)', SlotOf(b)' = SlotOf(c)'
        PROVE  b = c
    <2>1. CASE Asking(b) /\ Asking(c)
      <3>1. SlotOf(b) = SlotOf(c)
        BY <1>3, <2>1, Askers
      <3> QED BY <2>1, <3>1 DEF AgentInv
    <2>2. ASSUME NEW x \in Agents, NEW y \in Agents, ~Asking(x), Asking(x)', Asking(y),
                 Asking(y)', SlotOf(x)' = SlotOf(y)'
          PROVE  FALSE
      <3>1. PICK refs \in Asks : AsksForm(x, refs) /\ SlotOf(x)' = Used + 1
        BY <2>2, Askers
      <3>2. kind[Used + 1] = "free"
        BY <3>1, FreshSlot DEF AsksForm, TypeOK
      <3>3. SlotOf(y)' = SlotOf(y) /\ kind[SlotOf(y)] = "form"
        BY <2>2, Askers
      <3> QED BY <2>2, <3>1, <3>2, <3>3
    <2>3. CASE ~Asking(b) /\ ~Asking(c)
      <3>1. PICK refs \in Asks : AsksForm(b, refs)
        BY <1>3, <2>3, Askers
      <3>2. b # c => Kept(c)
        BY <3>1 DEF AsksForm, Others
      <3> QED BY <1>3, <2>3, <3>2 DEF Kept, Asking, FormWaits, PromptWaits
    <2> QED BY <1>3, <2>1, <2>2, <2>3
  <1> QED BY <1>1, <1>2, <1>3 DEF AgentInv, PromptWaits

(* Every step keeps the fields not enqueued yet untouched.                  *)
LEMMA FreshStep ==
  ASSUME TypeOK, SlotInv, AgentInv, FreshInv, HoldInv, Effect
  PROVE  FreshInv'
  <1> SUFFICES ASSUME NEW b \in Agents, agent'[b].pc = "enqueue"
               PROVE  /\ agent'[b].next \in 1..Len(ask'[agent'[b].slot])
                      /\ \A i \in agent'[b].next..Len(ask'[agent'[b].slot]) :
                           /\ state'[<<agent'[b].slot, i>>] = "absent"
                           /\ <<agent'[b].slot, i>> \notin typed'
    BY DEF FreshInv, SlotOf
  <1> DEFINE s == SlotOf(b)
             n == agent[b].next
  <1>1. CASE agent[b].pc = "enqueue"
    <2>1. /\ s \in Slots /\ kind[s] = "form" /\ nonce[s] = "none"
          /\ n \in 1..Len(ask[s])
          /\ \A i \in n..Len(ask[s]) : state[<<s, i>>] = "absent" /\ <<s, i>> \notin typed
      BY <1>1 DEF FreshInv, AgentInv, Asking, SlotOf, TypeOK, TypeAgents
    <2>2. ask'[s] = ask[s] /\ Len(ask[s]) \in Nat
      BY <2>1, OldSlots DEF TypeOK, TypeQueue
    <2>3. ASSUME Kept(b), NEW i \in n..Len(ask[s])
          PROVE  state'[<<s, i>>] = "absent" /\ <<s, i>> \notin typed'
      <3>1. <<s, i>> \in Ids
        <4>1. i \in 1..Len(ask[s])
          BY <2>1, <2>2
        <4> QED BY <2>1, <4>1, FieldsAre DEF TypeOK
      <3>2. ASSUME NEW a \in Agents, Enqueues(a), <<s, i>> = <<SlotOf(a), agent[a].next>>
            PROVE  FALSE
        <4>1. Asking(a) /\ Asking(b) /\ SlotOf(a) = s
          BY <1>1, <3>2 DEF Enqueues, Asking
        <4>2. a = b
          BY <4>1 DEF AgentInv
        <4>3. n \in Nat /\ agent'[b].next = n + 1 /\ agent'[b].next = n
          BY <2>1, <2>3, <3>2, <4>2 DEF Enqueues, Kept
        <4> QED BY <4>3
      <3>3. ASSUME NEW a \in Agents, NEW refs \in Asks, AsksPrompt(a, refs),
                   <<s, i>> = <<Used + 1, 0>>
            PROVE  FALSE
        BY <2>1, <3>3, FreshSlot DEF AsksPrompt, TypeOK
      <3>4. ASSUME NEW a \in Agents, Fails(a), <<s, i>> \in agent[a].held,
                   kind[SlotOf(a)] = "form"
            PROVE  FALSE
        <4>1. SlotOf(a) = s
          BY <3>4, HeldIs
        <4> QED BY <2>1, <3>4, <4>1, HeldIs
      <3>5. state'[<<s, i>>] = "absent"
        BY <2>1, <2>3, <3>1, <3>2, <3>3, <3>4, Arrives
      <3>6. <<s, i>> \notin typed'
        <4>1. ~Types(<<s, i>>)
          BY <2>1, <2>3 DEF Types, Decides
        <4> QED BY <2>1, <2>3, <4>1, Recorded
      <3> QED BY <3>5, <3>6
    <2>4. CASE Kept(b)
      BY <2>1, <2>2, <2>3, <2>4 DEF Kept, SlotOf
    <2>5. CASE Enqueues(b)
      <3>1. n + 1 \in 1..Len(ask[s]) /\ agent'[b].next = n + 1 /\ agent'[b].slot = s
        BY <2>1, <2>2, <2>5 DEF Enqueues
      <3>2. ASSUME NEW i \in n + 1 .. Len(ask[s])
            PROVE  state'[<<s, i>>] = "absent" /\ <<s, i>> \notin typed'
        <4>1. i \in n..Len(ask[s]) /\ i # n /\ i \in 1..Len(ask[s])
          BY <2>1, <2>2
        <4>2. <<s, i>> \in Ids
          BY <2>1, <4>1, FieldsAre DEF TypeOK
        <4> QED BY <2>1, <2>5, <4>1, <4>2 DEF Enqueues, gc, HistoryKept
      <3> HIDE DEF n
      <3> QED BY <2>2, <3>1, <3>2
    <2> QED BY <1>1, <2>4, <2>5, Movers
            DEF AgentEffect, Settles, Waits, AsksForm, AsksPrompt, RemovesForm, CollectsForm,
                RemovesPrompt, CollectsPrompt, Fills, Fails, Starts, Over, Collects, PromptWaits
  <1>2. CASE agent[b].pc # "enqueue"
    <2>1. PICK refs \in Asks : AsksForm(b, refs)
      <3>1. ~Kept(b) /\ ~Enqueues(b)
        BY <1>2 DEF Kept, Enqueues, FormWaits, PromptWaits
      <3> QED BY <3>1, Movers
          DEF AgentEffect, Settles, Waits, AsksPrompt, RemovesForm, CollectsForm, RemovesPrompt,
              CollectsPrompt, Fills, Fails, Starts, Over, Collects
    <2> DEFINE t == Used + 1
    <2>2. t \in Slots /\ kind[t] = "free"
      BY <2>1, FreshSlot DEF AsksForm, TypeOK
    <2>3. ask'[t] = refs /\ Len(refs) \in 1..MaxFields /\ agent'[b].slot = t /\ agent'[b].next = 1
      BY <2>1, <2>2, AskAssumption DEF AsksForm, Starts, TypeOK, TypeQueue
    <2>4. ASSUME NEW i \in 1..Len(refs)
          PROVE  state'[<<t, i>>] = "absent" /\ <<t, i>> \notin typed'
      <3>1. <<t, i>> \in Ids
        <4>1. i \in 0..MaxFields
          BY <2>3, LimitAssumption
        <4> QED BY <2>2, <4>1 DEF Ids
      <3>2. state[<<t, i>>] = "absent"
        <4>1. <<t, i>>[1] = t
          OBVIOUS
        <4> HIDE DEF t
        <4> QED BY <2>2, <3>1, <4>1, QueuedIs
      <3>3. <<t, i>> \notin typed
        <4>1. <<t, i>>[1] = t
          OBVIOUS
        <4> QED BY <2>2, <4>1 DEF SlotInv
      <3>4. <<t, i>> \notin Queued(<<t, i>>[1])
        BY <3>2 DEF Queued
      <3>5. state'[<<t, i>>] = "absent" /\ typed' = typed
        BY <2>1, <3>1, <3>2, <3>4 DEF AsksForm
      <3> QED BY <3>3, <3>5
    <2> HIDE DEF t
    <2> QED BY <2>3, <2>4, LimitAssumption
  <1> QED BY <1>1, <1>2

(* Every step keeps what calls hold.                                        *)
LEMMA HoldStep ==
  ASSUME TypeOK, SlotInv, AgentInv, HoldInv, Effect
  PROVE  HoldInv'
  <1> SUFFICES ASSUME NEW b \in Agents
               PROVE  /\ agent'[b].held # {} => Filling(b)'
                      /\ Filling(b)' /\ kind'[SlotOf(b)'] = "form" =>
                           agent'[b].held \subseteq Fields(SlotOf(b))'
                      /\ Filling(b)' /\ kind'[SlotOf(b)'] = "prompt" =>
                           agent'[b].held = {<<SlotOf(b)', 0>>}
                      /\ agent'[b].held \ agent'[b].todo \subseteq filled' \cup replayed'
    BY DEF HoldInv
  <1> DEFINE s == SlotOf(b)
  <1>1. agent[b].pc # "idle" => s \in Slots
    BY DEF TypeOK, TypeAgents, SlotOf
  <1>2. \A t \in Slots : kind[t] # "free" => kind'[t] = kind[t] /\ Fields(t)' = Fields(t)
    BY OldSlots
  <1>3. Filling(b) => agent[b].pc # "idle" /\ kind[s] # "free"
    BY DEF AgentInv, Filling, Collecting
  <1>4. filled \subseteq filled' /\ replayed \subseteq replayed'
    BY Recorded
  <1>5. ASSUME agent'[b].held = {}, agent'[b].pc \notin {"token", "fill"}
        PROVE  ~Filling(b)' /\ agent'[b].held \ agent'[b].todo \subseteq filled' \cup replayed'
    BY <1>5 DEF Filling
  <1>6. CASE Kept(b)
    <2>1. SlotOf(b)' = s /\ agent'[b].held = agent[b].held /\ agent'[b].todo = agent[b].todo
      BY <1>6 DEF Kept, SlotOf
    <2>2. Filling(b)' <=> Filling(b)
      BY <1>6 DEF Kept, Filling, FormWaits, PromptWaits
    <2>3. CASE Filling(b)
      <3>1. kind'[s] = kind[s] /\ Fields(s)' = Fields(s)
        BY <1>1, <1>2, <1>3, <2>1, <2>3
      <3> QED BY <1>4, <2>1, <2>2, <2>3, <3>1 DEF HoldInv
    <2>4. CASE ~Filling(b)
      BY <1>4, <2>1, <2>2, <2>4 DEF HoldInv
    <2> QED BY <2>3, <2>4
  <1>7. CASE \/ Settles(b) \/ RemovesForm(b) \/ RemovesPrompt(b) \/ Fails(b)
             \/ \E t \in Slots : Waits(b, t)
             \/ \E refs \in Asks : AsksForm(b, refs) \/ AsksPrompt(b, refs)
    <2>1. agent'[b].held = {} /\ agent'[b].pc \notin {"token", "fill"}
      BY <1>7 DEF Settles, RemovesForm, RemovesPrompt, Fails, Waits, AsksForm, AsksPrompt, Over,
         Starts
    <2> QED BY <1>5, <2>1
  <1>8. CASE Enqueues(b)
    <2>1. agent'[b].held = {} /\ agent'[b].pc \notin {"token", "fill"}
      BY <1>8 DEF Enqueues, HoldInv, Filling
    <2> QED BY <1>5, <2>1
  <1>9. CASE CollectsForm(b)
    <2>1. /\ SlotOf(b)' = s /\ agent'[b].pc = "token" /\ agent'[b].held = Queued(s)
          /\ agent'[b].todo = Queued(s) /\ agent[b].pc = "check"
      BY <1>9 DEF CollectsForm, Collects, SlotOf
    <2>2. kind[s] = "form" /\ s \in Slots /\ Queued(s) \subseteq Fields(s)
      BY <1>1, <2>1 DEF AgentInv, Collecting, Queued
    <2> QED BY <1>2, <2>1, <2>2 DEF Filling
  <1>10. CASE CollectsPrompt(b)
    <2>1. /\ SlotOf(b)' = s /\ agent'[b].pc = "fill" /\ agent'[b].held = {<<s, 0>>}
          /\ agent'[b].todo = {<<s, 0>>} /\ agent[b].pc = "awake"
      BY <1>10 DEF CollectsPrompt, Collects, SlotOf
    <2>2. kind[s] = "prompt" /\ s \in Slots
      BY <1>1, <2>1 DEF AgentInv
    <2> QED BY <1>2, <2>1, <2>2 DEF Filling
  <1>11. CASE Fills(b)
    <2>1. SlotOf(b)' = s /\ agent[b].pc = "fill" /\ Filling(b)
      BY <1>11 DEF Fills, SlotOf, Filling
    <2>2. kind'[s] = kind[s] /\ Fields(s)' = Fields(s)
      BY <1>1, <1>2, <1>3, <2>1
    <2>3. CASE agent'[b].pc = "idle" /\ agent'[b].held = {}
      BY <1>5, <2>3
    <2>4. CASE /\ agent'[b].pc = "fill" /\ agent'[b].held = agent[b].held
               /\ agent'[b].todo = agent[b].todo \ {Field(b)}
      <3>1. /\ Field(b) \in filled' \cup replayed'
            /\ agent[b].held \ agent[b].todo \subseteq filled' \cup replayed'
        BY <1>4, <1>11 DEF Fills, HoldInv
      <3> QED BY <2>1, <2>2, <2>4, <3>1 DEF HoldInv, Filling
    <2> QED BY <1>11, <2>3, <2>4 DEF Fills
  <1> QED BY <1>6, <1>7, <1>8, <1>9, <1>10, <1>11, Movers DEF AgentEffect

(* Every step keeps the reasons why entries left.                           *)
LEMMA GoneStep ==
  ASSUME TypeOK, GoneInv, Effect
  PROVE  GoneInv'
  <1>1. \A e \in aged' : e[1] \in dropped'
    <2>1. CASE \E e \in Ids : Ages(e)
      BY <2>1 DEF Ages, GoneInv
    <2>2. CASE aged' = aged
      BY <2>2, Recorded DEF GoneInv
    <2> QED BY <2>1, <2>2 DEF Effect, AgentEffect, EntryEffect, Rests, Lists, Settles, Waits,
               AsksForm, AsksPrompt, Enqueues, RemovesForm, CollectsForm, RemovesPrompt,
               CollectsPrompt, Takes, Fills, Fails, Types, Refuses, Decides
  <1>2. ASSUME NEW e \in Ids, state'[e] = "cancelled"
        PROVE  e \in refused' \/ e[1] \in dropped'
    <2>1. CASE state[e] = "cancelled"
      BY <2>1, Recorded DEF GoneInv
    <2>2. CASE state[e] # "cancelled"
      <3>1. ASSUME NEW a \in Agents, NEW refs \in Asks, AsksForm(a, refs)
            PROVE  e[1] \in dropped'
        BY <1>2, <2>2, <3>1 DEF AsksForm
      <3>2. ASSUME NEW f \in Ids, Refuses(f)
            PROVE  e \in refused'
        BY <1>2, <2>2, <3>2 DEF Refuses, Decides, TypeOK, TypeQueue
      <3>3. ASSUME NEW f \in Ids, Types(f)
            PROVE  FALSE
        BY <1>2, <2>2, <3>3 DEF Types, Decides, TypeOK, TypeQueue
      <3>4. ASSUME NEW a \in Agents, NEW refs \in Asks, AsksPrompt(a, refs)
            PROVE  FALSE
        BY <1>2, <2>2, <3>4 DEF AsksPrompt
      <3>5. ASSUME NEW a \in Agents, Enqueues(a) \/ Fails(a) \/ \E gone : Takes(a, gone)
            PROVE  FALSE
        BY <1>2, <2>2, <3>5 DEF Enqueues, Fails, Takes, gc
      <3>6. CASE Lists
        BY <1>2, <2>2, <3>6 DEF Lists, gc
      <3>7. CASE UNCHANGED state
        BY <1>2, <2>2, <3>7
      <3> QED BY <3>1, <3>2, <3>3, <3>4, <3>5, <3>6, <3>7
              DEF Effect, AgentEffect, EntryEffect, Rests, Settles, Waits, RemovesForm,
                  CollectsForm, RemovesPrompt, CollectsPrompt, Fills, Ages
    <2> QED BY <2>1, <2>2
  <1> QED BY <1>1, <1>2 DEF GoneInv

-----------------------------------------------------------------------------
(* What the human typed is kept.                                            *)

(* A call that lets go of an entry was answered for it, or puts it back.    *)
LEMMA LetsGo ==
  ASSUME TypeOK, AgentInv, HoldInv, Effect,
         NEW a \in Agents, NEW e \in agent[a].held, e[2] # 0
  PROVE  e \in agent'[a].held \/ e \in filled' \cup replayed' \/ state'[e] = "fulfilled"
  <1>1. Filling(a) /\ e \in Ids
    BY HeldIs
  <1>2. CASE Kept(a)
    BY <1>2 DEF Kept
  <1>3. CASE Fills(a)
    <2>1. agent[a].held \ agent[a].todo \subseteq filled' \cup replayed'
      BY Recorded DEF HoldInv
    <2> QED BY <1>3, <2>1 DEF Fills
  <1>4. CASE Fails(a)
    <2>1. kind[SlotOf(a)] = "form"
      <3>1. ASSUME e = <<SlotOf(a), 0>> PROVE FALSE
        BY <3>1
      <3> QED BY <3>1, HeldIs
    <2> QED BY <1>1, <1>4, <2>1 DEF Fails
  <1>5. \/ Kept(a) \/ Fills(a) \/ Fails(a)
    BY <1>1, Movers DEF AgentEffect, Settles, Enqueues, RemovesForm, CollectsForm, RemovesPrompt,
       CollectsPrompt, Waits, AsksForm, AsksPrompt, Starts, Filling, PromptWaits
  <1> QED BY <1>2, <1>3, <1>4, <1>5

(* A typed entry leaves the queue into a call's hands, or with its form.    *)
LEMMA TypedLeaves ==
  ASSUME TypeOK, SlotInv, AgentInv, FreshInv, HoldInv, GoneInv, Effect,
         NEW e \in typed, e[2] # 0, state[e] = "fulfilled"
  PROVE  \/ state'[e] = "fulfilled"
         \/ \E a \in Agents : e \in agent'[a].held
         \/ e[1] \in dropped
         \/ refused \cap Fields(e[1]) # {}
  <1>1. e \in Ids /\ e = <<e[1], e[2]>>
    BY EntryIs DEF TypeOK, TypeHistory
  <1>2. /\ e[1] \in Slots /\ kind[e[1]] = "form" /\ e \in Queued(e[1])
    BY <1>1, QueuedIs
  <1>3. e \in aged => e[1] \in dropped
    BY DEF GoneInv
  <1>4. ASSUME NEW a \in Agents, Enqueues(a), e[1] \notin dropped
        PROVE  state'[e] = "fulfilled"
    <2>1. e # <<SlotOf(a), agent[a].next>>
      <3>1. /\ agent[a].next \in agent[a].next .. Len(ask[SlotOf(a)])
        BY <1>4 DEF Enqueues, FreshInv
      <3> QED BY <1>4, <3>1 DEF Enqueues, FreshInv
    <2> QED BY <1>1, <1>3, <1>4, <2>1 DEF Enqueues, gc
  <1>5. ASSUME NEW a \in Agents, RemovesForm(a), state'[e] # "fulfilled", e[1] \notin dropped
        PROVE  refused \cap Fields(e[1]) # {}
    <2>1. e[1] = SlotOf(a)
      BY <1>1, <1>5 DEF RemovesForm, Takes, Slot
    <2>2. PICK c \in Fields(e[1]) : state[c] = "cancelled"
      BY <1>5, <2>1 DEF RemovesForm, Queued
    <2>3. c \in Ids /\ c[1] = e[1]
      BY <1>2, <2>2, FieldsAre DEF TypeOK
    <2> QED BY <1>5, <2>2, <2>3 DEF GoneInv
  <1>6. ASSUME NEW a \in Agents, CollectsForm(a), state'[e] # "fulfilled"
        PROVE  e \in agent'[a].held
    <2>1. e[1] = SlotOf(a)
      BY <1>1, <1>6 DEF CollectsForm, Takes, Slot
    <2> QED BY <1>2, <1>6, <2>1 DEF CollectsForm, Collects
  <1>7. ASSUME NEW a \in Agents, RemovesPrompt(a) \/ CollectsPrompt(a)
        PROVE  state'[e] = "fulfilled"
    <2>1. e \notin {<<SlotOf(a), 0>>}
      BY <1>1
    <2> QED BY <1>1, <1>7, <2>1 DEF RemovesPrompt, CollectsPrompt, Takes
  <1>8. ASSUME NEW a \in Agents, NEW refs \in Asks, AsksForm(a, refs)
        PROVE  state'[e] = "fulfilled"
    <2>1. e[1] \notin Dead(refs)
      BY <1>2 DEF Dead
    <2> QED BY <1>1, <1>8, <2>1 DEF AsksForm
  <1>9. ASSUME NEW a \in Agents, NEW refs \in Asks, AsksPrompt(a, refs)
        PROVE  state'[e] = "fulfilled"
    BY <1>1, <1>9 DEF AsksPrompt
  <1>10. ASSUME NEW a \in Agents, Fails(a)
         PROVE  state'[e] = "fulfilled"
    BY <1>1, <1>10 DEF Fails
  <1>11. ASSUME NEW f \in Ids, Types(f) \/ Refuses(f)
         PROVE  state'[e] = "fulfilled"
    BY <1>1, <1>11 DEF Types, Refuses, Decides, TypeOK, TypeQueue
  <1>12. CASE Lists
    BY <1>1, <1>3, <1>12 DEF Lists, gc
  <1>13. CASE UNCHANGED state
    BY <1>13
  <1> QED BY <1>4, <1>5, <1>6, <1>7, <1>8, <1>9, <1>10, <1>11, <1>12, <1>13
          DEF Effect, AgentEffect, EntryEffect, Rests, Settles, Waits, Fills, Ages

(* Every step keeps what was typed.                                         *)
LEMMA TypingStep ==
  ASSUME TypeOK, TypeOK', SlotInv, AgentInv, FreshInv, HoldInv, GoneInv, FormTypingKept, Effect
  PROVE  FormTypingKept'
  <1> SUFFICES ASSUME NEW e \in typed', e[2] # 0
               PROVE  \/ state'[e] = "fulfilled"
                      \/ \E a \in Agents : e \in agent'[a].held
                      \/ e \in filled' \cup replayed'
                      \/ e[1] \in dropped'
                      \/ refused' \cap Fields(e[1])' # {}
    BY DEF FormTypingKept
  <1>1. CASE e \in typed
    <2>1. e \in Ids /\ e[1] \in Slots /\ kind[e[1]] # "free"
      BY <1>1, EntryIs DEF SlotInv, TypeOK, TypeHistory
    <2>2. filled \subseteq filled' /\ replayed \subseteq replayed' /\ dropped \subseteq dropped' /\ refused \subseteq refused'
      BY Recorded
    <2>3. Fields(e[1])' = Fields(e[1])
      BY <2>1, OldSlots
    <2>4. \/ state[e] = "fulfilled"
          \/ \E a \in Agents : e \in agent[a].held
          \/ e \in filled \cup replayed
          \/ e[1] \in dropped
          \/ refused \cap Fields(e[1]) # {}
      BY <1>1 DEF FormTypingKept
    <2> QED BY <1>1, <2>2, <2>3, <2>4, LetsGo, TypedLeaves
  <1>2. CASE Types(e)
    <2>1. e \in Ids
      BY DEF TypeOK, TypeHistory
    <2> QED BY <1>2, <2>1 DEF Types, Decides, TypeOK, TypeQueue
  <1> QED BY <1>1, <1>2, Recorded

-----------------------------------------------------------------------------
(* While nothing outlives ORPHAN_TTL, a form's fields stay together.        *)

(* A waiter takes its whole slot out of the queue.                          *)
TakesForm(a) == RemovesForm(a) \/ CollectsForm(a)
TakesPrompt(a) == RemovesPrompt(a) \/ CollectsPrompt(a)

LEMMA TakesIs ==
  ASSUME TypeOK, SlotInv, AgentInv, NEW a \in Agents, TakesForm(a) \/ TakesPrompt(a)
  PROVE  /\ SlotOf(a) \in Slots
         /\ \A f \in Ids : f[1] = SlotOf(a) => state'[f] = "absent"
         /\ TakesForm(a) => /\ kind[SlotOf(a)] = "form" /\ nonce[SlotOf(a)] # "none"
                            /\ agent[a].pc = "check"
         /\ TakesPrompt(a) => kind[SlotOf(a)] = "prompt" /\ agent[a].pc \in PromptWaits
  <1>1. CASE TakesForm(a)
    BY <1>1 DEF TakesForm, RemovesForm, CollectsForm, Takes, Slot, AgentInv, Collecting, SlotOf,
       TypeOK, TypeAgents, TakesPrompt, RemovesPrompt, CollectsPrompt, PromptWaits
  <1>2. CASE TakesPrompt(a)
    <2>1. /\ SlotOf(a) \in Slots /\ kind[SlotOf(a)] = "prompt" /\ agent[a].pc \in PromptWaits
      BY <1>2 DEF TakesPrompt, RemovesPrompt, CollectsPrompt, AgentInv, PromptWaits, SlotOf,
         TypeOK, TypeAgents
    <2>2. ASSUME NEW f \in Ids, f[1] = SlotOf(a) PROVE state'[f] = "absent"
      <3>1. f = <<SlotOf(a), 0>> \/ state[f] = "absent"
        BY <2>1, <2>2, QueuedIs
      <3> QED BY <1>2, <2>2, <3>1 DEF TakesPrompt, RemovesPrompt, CollectsPrompt, Takes
    <2>3. ~TakesForm(a)
      BY <2>1 DEF TakesForm, RemovesForm, CollectsForm, PromptWaits
    <2> QED BY <2>1, <2>2, <2>3
  <1> QED BY <1>1, <1>2

(* What becomes of an entry in the queue.                                   *)
LEMMA Turns ==
  ASSUME TypeOK, SlotInv, AgentInv, FreshInv, HoldInv, Effect,
         NEW e \in Ids, Young(e[1]), Apart(e[1]), state[e] # "absent", state'[e] # state[e]
  PROVE  \/ state[e] = "pending" /\ state'[e] = "fulfilled" /\ AllAwake
         \/ state[e] = "pending" /\ state'[e] = "cancelled" /\ AllAwake
         \/ /\ state'[e] = "absent"
            /\ \E a \in Agents : (TakesForm(a) \/ TakesPrompt(a)) /\ e[1] = SlotOf(a)
  <1>1. ASSUME NEW a \in Agents, Enqueues(a) PROVE FALSE
    <2>1. agent[a].next \in agent[a].next .. Len(ask[SlotOf(a)])
      BY <1>1 DEF Enqueues, FreshInv
    <2>2. e # <<SlotOf(a), agent[a].next>>
      BY <1>1, <2>1 DEF Enqueues, FreshInv
    <2> QED BY <1>1, <2>2 DEF Enqueues, gc, Young
  <1>2. ASSUME NEW a \in Agents, NEW refs \in Asks, AsksPrompt(a, refs) PROVE FALSE
    <2>1. kind[Used + 1] = "free"
      BY <1>2, FreshSlot DEF AsksPrompt, TypeOK
    <2>2. e # <<Used + 1, 0>>
      BY <2>1, QueuedIs
    <2> QED BY <1>2, <2>2 DEF AsksPrompt
  <1>3. ASSUME NEW a \in Agents, Fails(a) PROVE FALSE
    <2>1. e \notin agent[a].held
      BY DEF Apart
    <2> QED BY <1>3, <2>1 DEF Fails
  <1>4. ASSUME NEW a \in Agents, NEW refs \in Asks, AsksForm(a, refs)
        PROVE  state[e] = "pending" /\ state'[e] = "cancelled" /\ AllAwake
    <2>1. e[1] \in Dead(refs) /\ e \in Queued(e[1])
      BY <1>4 DEF AsksForm
    <2> QED BY <1>4, <2>1 DEF AsksForm, Dead
  <1>5. ASSUME NEW f \in Ids, Types(f) \/ Refuses(f)
        PROVE  \/ state[e] = "pending" /\ state'[e] = "fulfilled" /\ AllAwake
               \/ state[e] = "pending" /\ state'[e] = "cancelled" /\ AllAwake
    BY <1>5 DEF Types, Refuses, Decides, TypeOK, TypeQueue
  <1>6. ASSUME NEW a \in Agents, TakesForm(a) \/ TakesPrompt(a)
        PROVE  state'[e] = "absent" /\ e[1] = SlotOf(a)
    <2>1. CASE TakesForm(a)
      BY <1>6, <2>1 DEF TakesForm, RemovesForm, CollectsForm, Takes, Slot
    <2>2. CASE TakesPrompt(a)
      <3>1. e = <<SlotOf(a), 0>> /\ state'[e] = "absent"
        BY <1>6, <2>2 DEF TakesPrompt, RemovesPrompt, CollectsPrompt, Takes
      <3> QED BY <3>1
    <2> QED BY <1>6, <2>1, <2>2
  <1>7. CASE Lists
    BY <1>7 DEF Lists, gc, Young
  <1>8. state' # state
    OBVIOUS
  <1> QED BY <1>1, <1>2, <1>3, <1>4, <1>5, <1>6, <1>7, <1>8
          DEF Effect, AgentEffect, EntryEffect, Rests, Settles, Waits, Fills, Ages, TakesForm,
              TakesPrompt

(* What a call holds it held, or has just taken out of the queue.           *)
LEMMA Holds ==
  ASSUME TypeOK, HoldInv, Effect, NEW b \in Agents, NEW e \in agent'[b].held
  PROVE  \/ e \in agent[b].held /\ ~Fails(b)
         \/ CollectsForm(b) /\ e \in Queued(SlotOf(b))
         \/ CollectsPrompt(b) /\ e = <<SlotOf(b), 0>>
  <1>1. ~Fails(b)
    BY DEF Fails, Over
  <1>2. CASE Kept(b) \/ Enqueues(b) \/ Fills(b)
    BY <1>1, <1>2 DEF Kept, Enqueues, Fills
  <1>3. CASE CollectsForm(b) \/ CollectsPrompt(b)
    BY <1>3 DEF CollectsForm, CollectsPrompt, Collects
  <1> QED BY <1>1, <1>2, <1>3, Movers
          DEF AgentEffect, Settles, RemovesForm, RemovesPrompt, Waits, AsksForm, AsksPrompt, Starts,
              Over

(* What a call takes out of the queue was there, fulfilled.                 *)
LEMMA Collected ==
  ASSUME TypeOK, SlotInv, AgentInv, NEW b \in Agents, NEW e,
         \/ CollectsForm(b) /\ e \in Queued(SlotOf(b))
         \/ CollectsPrompt(b) /\ e = <<SlotOf(b), 0>>
  PROVE  /\ e \in Ids /\ e[1] = SlotOf(b) /\ state[e] = "fulfilled"
         /\ TakesForm(b) \/ TakesPrompt(b)
         /\ \A f \in Ids : f[1] = e[1] => state[f] \in {"absent", "fulfilled"}
         /\ \A c \in Agents : c # b => agent'[c].held = agent[c].held
  <1>1. SlotOf(b) \in Slots /\ (TakesForm(b) \/ TakesPrompt(b))
    BY TakesIs DEF TakesForm, TakesPrompt
  <1>2. \A c \in Agents : c # b => agent'[c].held = agent[c].held
    BY DEF CollectsForm, CollectsPrompt, Takes, Others, Kept
  <1>3. CASE CollectsForm(b) /\ e \in Queued(SlotOf(b))
    <2>1. kind[SlotOf(b)] = "form"
      BY <1>3, TakesIs DEF TakesForm
    <2>2. e \in Ids /\ e[1] = SlotOf(b)
      BY <1>1, <1>3, FieldsAre DEF Queued, TypeOK
    <2>3. \A f \in Ids : f[1] = e[1] /\ state[f] # "absent" => f \in Queued(SlotOf(b))
      BY <2>1, <2>2, QueuedIs
    <2> QED BY <1>1, <1>2, <1>3, <2>2, <2>3 DEF CollectsForm
  <1>4. CASE CollectsPrompt(b) /\ e = <<SlotOf(b), 0>>
    <2>1. kind[SlotOf(b)] = "prompt"
      BY <1>4, TakesIs DEF TakesPrompt
    <2>2. e \in Ids /\ e[1] = SlotOf(b)
      BY <1>1, <1>4, LimitAssumption DEF Ids
    <2>3. \A f \in Ids : f[1] = e[1] /\ state[f] # "absent" => f = e
      BY <1>4, <2>1, <2>2, QueuedIs
    <2> QED BY <1>1, <1>2, <1>4, <2>2, <2>3 DEF CollectsPrompt
  <1> QED BY <1>3, <1>4

(* Where an entry comes into the queue, nobody had a part in its slot yet,  *)
(* or its form's fields are put back.                                       *)
LEMMA Comes ==
  ASSUME TypeOK, SlotInv, AgentInv, FreshInv, HoldInv, Effect,
         NEW e \in Ids, state[e] = "absent", state'[e] # "absent"
  PROVE  \/ /\ state'[e] = "pending"
            /\ \E a \in Agents : Enqueues(a) /\ Asking(a) /\ e[1] = SlotOf(a)
         \/ state'[e] = "pending" /\ kind[e[1]] = "free"
         \/ /\ state'[e] = "fulfilled"
            /\ \E a \in Agents : /\ Fails(a) /\ e \in agent[a].held
                                 /\ kind[SlotOf(a)] = "form" /\ e[1] = SlotOf(a)
  <1>1. ASSUME NEW a \in Agents, Enqueues(a), e = <<SlotOf(a), agent[a].next>>
        PROVE  state'[e] = "pending" /\ Asking(a) /\ e[1] = SlotOf(a)
    BY <1>1 DEF Enqueues, Asking
  <1>2. ASSUME NEW a \in Agents, NEW refs \in Asks, AsksPrompt(a, refs), e = <<Used + 1, 0>>
        PROVE  state'[e] = "pending" /\ kind[e[1]] = "free"
    <2>1. kind[Used + 1] = "free" /\ e[1] = Used + 1
      BY <1>2, FreshSlot DEF AsksPrompt, TypeOK
    <2> QED BY <1>2, <2>1 DEF AsksPrompt
  <1>3. ASSUME NEW a \in Agents, Fails(a), e \in agent[a].held, kind[SlotOf(a)] = "form"
        PROVE  state'[e] = "fulfilled" /\ e[1] = SlotOf(a)
    BY <1>3, HeldIs DEF Fails
  <1> QED BY <1>1, <1>2, <1>3, Arrives

(* Every step keeps fields together.                                        *)
LEMMA TogetherStep ==
  ASSUME TypeOK, SlotInv, AgentInv, FreshInv, HoldInv, Effect,
         NEW s \in Slots, Young(s), Together(s), Apart(s)
  PROVE  Together(s)'
  <1>1. ASSUME kind[s] # "free", NEW f \in Fields(s)'
        PROVE  f \in Fields(s) /\ f \in Ids /\ f[1] = s
    BY <1>1, OldSlots, FieldsAre DEF TypeOK
  <1>2. ASSUME kind[s] = "form", nonce[s] = "none",
               NEW f \in Ids, f[1] = s, state[f] # "absent"
        PROVE  state'[f] # "absent"
    BY <1>2, Turns, TakesIs
  <1>3. ASSUME nonce'[s] # "none"
        PROVE  \/ \A e \in Fields(s)' : state'[e] = "absent"
               \/ \A e \in Fields(s)' : state'[e] # "absent"
    <2>1. CASE nonce[s] # "none"
      <3>1. kind[s] = "form"
        BY <2>1 DEF SlotInv
      <3>2. CASE \A e \in Fields(s) : state[e] # "absent"
        <4>1. ASSUME NEW e \in Fields(s)', state'[e] = "absent", NEW f \in Fields(s)'
              PROVE  state'[f] = "absent"
          <5>1. e \in Ids /\ e[1] = s /\ f \in Ids /\ f[1] = s /\ state[e] # "absent"
            BY <1>1, <3>1, <3>2, <4>1
          <5>2. PICK a \in Agents : (TakesForm(a) \/ TakesPrompt(a)) /\ e[1] = SlotOf(a)
            BY <4>1, <5>1, Turns
          <5> QED BY <5>1, <5>2, TakesIs
        <4> QED BY <4>1
      <3>3. CASE \A e \in Fields(s) : state[e] = "absent"
        <4>1. ASSUME NEW e \in Fields(s)', state'[e] # "absent", NEW f \in Fields(s)'
              PROVE  state'[f] # "absent"
          <5>1. e \in Ids /\ e[1] = s /\ f \in Ids /\ f[1] = s /\ f \in Fields(s)
                /\ state[e] = "absent"
            BY <1>1, <3>1, <3>3, <4>1
          <5>2. PICK a \in Agents : Fails(a) /\ e \in agent[a].held /\ kind[SlotOf(a)] = "form"
                                    /\ e[1] = SlotOf(a)
            BY <2>1, <3>1, <4>1, <5>1, Comes DEF AgentInv
          <5>3. f \in agent[a].held
            BY <5>1, <5>2 DEF Together, Fails, Filling
          <5> QED BY <5>1, <5>2, <5>3 DEF Fails
        <4> QED BY <4>1
      <3> QED BY <2>1, <3>2, <3>3 DEF Together
    <2>2. ASSUME NEW a \in Agents, Settles(a), agent[a].pc = "mint", s = SlotOf(a)
          PROVE  \A e \in Fields(s)' : state'[e] # "absent"
      <3>1. kind[s] # "free"
        BY <2>2 DEF AgentInv, Asking
      <3> QED BY <1>1, <2>2, <3>1 DEF Settles, Together
    <2> QED BY <1>3, <2>1, <2>2, Minted
  <1>4. ASSUME NEW b \in Agents, SlotOf(b)' = s, agent'[b].pc = "enqueue",
               NEW i \in 1..(agent'[b].next - 1)
        PROVE  state'[<<s, i>>] # "absent"
    <2>1. Asking(b)'
      BY <1>4 DEF Asking
    <2>2. CASE Asking(b) /\ SlotOf(b) = s
      <3>1. /\ s \in Slots /\ kind[s] = "form" /\ nonce[s] = "none"
        BY <2>2 DEF AgentInv, Asking, SlotOf, TypeOK, TypeAgents
      <3>2. agent[b].pc = "enqueue" /\ (Kept(b) \/ Enqueues(b))
        BY <1>4, <2>2, Movers
           DEF AgentEffect, Settles, RemovesForm, CollectsForm, RemovesPrompt, CollectsPrompt,
               Fills, Fails, Waits, AsksForm, AsksPrompt, Over, Collects, Starts, Asking, Kept,
               Enqueues, FormWaits, PromptWaits
      <3>3. agent[b].next \in 1..Len(ask[s]) /\ Len(ask[s]) \in Nat
        BY <2>2, <3>1, <3>2 DEF FreshInv, TypeOK, TypeQueue
      <3>4. CASE i < agent[b].next
        <4>1. state[<<s, i>>] # "absent"
          BY <2>2, <3>2, <3>3, <3>4, <1>4 DEF Together
        <4>2. <<s, i>> \in Ids /\ <<s, i>>[1] = s
          <5>1. i \in 1..Len(ask[s])
            BY <1>4, <3>3, <3>4
          <5> QED BY <3>1, <5>1, FieldsAre DEF TypeOK
        <4> QED BY <1>2, <2>2, <3>1, <4>1, <4>2
      <3>5. CASE ~(i < agent[b].next)
        <4>1. Enqueues(b) /\ i = agent[b].next
          BY <1>4, <3>2, <3>3, <3>5 DEF Kept, Enqueues
        <4>2. <<s, i>> \in Ids
          BY <3>1, <3>3, <4>1, FieldsAre DEF TypeOK
        <4> QED BY <2>2, <4>1, <4>2 DEF Enqueues
      <3> QED BY <3>4, <3>5
    <2>3. ASSUME NEW refs \in Asks, AsksForm(b, refs) PROVE FALSE
      BY <1>4, <2>3 DEF AsksForm
    <2> QED BY <1>4, <2>1, <2>2, <2>3, Askers
  <1>5. ASSUME NEW b \in Agents, SlotOf(b)' = s, agent'[b].pc = "mint", NEW e \in Fields(s)'
        PROVE  state'[e] # "absent"
    <2>1. Asking(b)'
      BY <1>5 DEF Asking
    <2>2. Asking(b) /\ SlotOf(b) = s
      BY <1>5, <2>1, Askers DEF AsksForm, Starts
    <2>3. /\ s \in Slots /\ kind[s] = "form" /\ nonce[s] = "none"
      BY <2>2 DEF AgentInv, Asking, SlotOf, TypeOK, TypeAgents
    <2>4. e \in Fields(s) /\ e \in Ids /\ e[1] = s
      BY <1>1, <1>5, <2>2, <2>3
    <2>5. CASE Kept(b)
      <3>1. agent[b].pc = "mint"
        BY <1>5, <2>5 DEF Kept, FormWaits, PromptWaits
      <3>2. state[e] # "absent"
        BY <2>2, <2>4, <3>1 DEF Together
      <3> QED BY <1>2, <2>3, <2>4, <3>2
    <2>6. CASE Enqueues(b)
      <3>1. /\ agent[b].pc = "enqueue" /\ agent[b].next = Len(ask[s])
            /\ agent[b].next \in 1..Len(ask[s]) /\ Len(ask[s]) \in Nat
        BY <1>5, <2>2, <2>3, <2>6 DEF Enqueues, FreshInv, TypeOK, TypeQueue
      <3>2. e = <<s, e[2]>> /\ e[2] \in 1..Len(ask[s])
        BY <2>3, <2>4, EntryIs, FieldsAre DEF TypeOK
      <3>3. CASE e[2] = agent[b].next
        BY <2>2, <2>4, <2>6, <3>2, <3>3 DEF Enqueues
      <3>4. CASE e[2] # agent[b].next
        <4>1. e[2] \in 1..(agent[b].next - 1)
          BY <3>1, <3>2, <3>4
        <4>2. state[<<s, e[2]>>] # "absent"
          BY <2>2, <3>1, <4>1 DEF Together
        <4> QED BY <1>2, <2>3, <2>4, <3>2, <4>2
      <3> QED BY <3>3, <3>4
    <2> QED BY <1>5, <2>2, <2>5, <2>6, Movers
            DEF AgentEffect, Settles, RemovesForm, CollectsForm, RemovesPrompt, CollectsPrompt,
                Fills, Fails, Waits, AsksForm, AsksPrompt, Over, Collects, Starts
  <1>6. ASSUME NEW b \in Agents, SlotOf(b)' = s, Filling(b)', kind'[s] = "form"
        PROVE  agent'[b].held = Fields(s)'
    <2>1. agent[b].pc # "idle" /\ SlotOf(b) = s
      BY <1>6, Movers
         DEF AgentEffect, Settles, RemovesForm, CollectsForm, RemovesPrompt, CollectsPrompt, Fills,
             Fails, Waits, AsksForm, AsksPrompt, Over, Collects, Starts, Enqueues, Kept, Filling,
             SlotOf, FormWaits, PromptWaits
    <2>3. ASSUME kind[s] # "free"
          PROVE  kind'[s] = kind[s] /\ Fields(s)' = Fields(s)
      BY <2>3, OldSlots
    <2>4. CASE (Kept(b) \/ Fills(b)) /\ Filling(b)
      <3>1. agent'[b].held = agent[b].held
        BY <1>6, <2>4 DEF Kept, Fills, Filling
      <3>2. kind[s] # "free"
        BY <2>1, <2>4 DEF AgentInv, Filling, Collecting
      <3>3. kind[s] = "form"
        BY <1>6, <2>3, <3>2
      <3> QED BY <2>1, <2>3, <2>4, <3>1, <3>2, <3>3 DEF Together
    <2>5. CASE CollectsForm(b)
      <3>1. kind[s] = "form" /\ nonce[s] # "none"
        BY <2>1, <2>5, TakesIs DEF TakesForm
      <3>2. Queued(s) = Fields(s)
        BY <2>1, <2>5, <3>1 DEF CollectsForm, Together, Queued
      <3> QED BY <2>1, <2>3, <2>5, <3>1, <3>2 DEF CollectsForm, Collects
    <2>6. CASE CollectsPrompt(b)
      <3>1. kind[s] = "prompt"
        BY <2>1, <2>6, TakesIs DEF TakesPrompt
      <3> QED BY <1>6, <2>1, <2>3, <3>1
    <2>7. ((Kept(b) \/ Fills(b)) /\ Filling(b)) \/ CollectsForm(b) \/ CollectsPrompt(b)
      BY <1>6, Movers
         DEF AgentEffect, Settles, RemovesForm, RemovesPrompt, Fills, Fails, Waits, AsksForm,
             AsksPrompt, Over, Starts, Enqueues, Kept, Filling, FormWaits, PromptWaits
    <2> QED BY <2>4, <2>5, <2>6, <2>7
  <1> QED BY <1>3, <1>4, <1>5, <1>6 DEF Together

(* Every step keeps apart what belongs to one call.                         *)
LEMMA ApartStep ==
  ASSUME TypeOK, TypeOK', SlotInv, AgentInv, FreshInv, HoldInv, Effect,
         NEW s \in Slots, Young(s), Apart(s), CancelKept(s)
  PROVE  Apart(s)'
  <1>1. \A a \in Agents : \A e \in agent[a].held, f \in Ids : e[1] = s /\ f[1] = s =>
          /\ state[f] = "absent"
          /\ \A c \in Agents : f \in agent[c].held => c = a
    BY DEF Apart
  <1>2. ASSUME NEW b \in Agents, NEW e \in agent'[b].held, NEW f \in Ids, e[1] = s, f[1] = s
        PROVE  /\ state'[f] = "absent"
               /\ \A c \in Agents : f \in agent'[c].held => c = b
    <2>1. CASE e \in agent[b].held /\ ~Fails(b)
      <3>1. state[f] = "absent" /\ \A c \in Agents : f \in agent[c].held => c = b
        BY <1>1, <1>2, <2>1
      <3>2. kind[e[1]] # "free" /\ e \in Ids
        BY <2>1, HeldIs
      <3>3. state'[f] = "absent"
        <4>1. ASSUME NEW a \in Agents, Asking(a), f[1] = SlotOf(a) PROVE FALSE
          BY <1>2, <2>1, <3>2, <4>1 DEF Apart
        <4>2. ASSUME NEW a \in Agents, Fails(a), f \in agent[a].held PROVE FALSE
          BY <2>1, <3>1, <4>2
        <4> QED BY <1>2, <3>1, <3>2, <4>1, <4>2, Comes
      <3>4. ASSUME NEW c \in Agents, f \in agent'[c].held PROVE c = b
        BY <3>1, <3>4, Holds, Collected
      <3> QED BY <3>3, <3>4
    <2>2. CASE \/ CollectsForm(b) /\ e \in Queued(SlotOf(b))
               \/ CollectsPrompt(b) /\ e = <<SlotOf(b), 0>>
      <3>1. /\ e \in Ids /\ e[1] = SlotOf(b) /\ state[e] = "fulfilled"
            /\ TakesForm(b) \/ TakesPrompt(b)
            /\ \A c \in Agents : c # b => agent'[c].held = agent[c].held
        BY <2>2, Collected
      <3>2. state'[f] = "absent"
        BY <1>2, <3>1, TakesIs
      <3>3. ASSUME NEW c \in Agents, f \in agent'[c].held PROVE c = b
        <4>1. ASSUME c # b PROVE FALSE
          <5>1. f \in agent[c].held
            BY <3>1, <3>3, <4>1
          <5> QED BY <1>1, <1>2, <3>1, <5>1
        <4> QED BY <4>1
      <3> QED BY <3>2, <3>3
    <2> QED BY <2>1, <2>2, Holds
  <1>3. ASSUME NEW e \in filled', NEW f \in Ids, e[1] = s, f[1] = s
        PROVE  state'[f] \in {"absent", "fulfilled"}
    <2>1. CASE e \in filled
      <3>1. state[f] \in {"absent", "fulfilled"} /\ kind[e[1]] # "free" /\ e \in Ids
        BY <1>3, <2>1 DEF Apart, SlotInv, TypeOK, TypePage
      <3>2. CASE state[f] = "absent"
        <4>1. ASSUME NEW a \in Agents, Asking(a), f[1] = SlotOf(a) PROVE FALSE
          BY <1>3, <2>1, <3>1, <4>1 DEF Apart
        <4> QED BY <1>3, <3>1, <3>2, <4>1, Comes
      <3>3. CASE state[f] = "fulfilled"
        BY <1>3, <3>3, Turns
      <3> QED BY <3>1, <3>2, <3>3
    <2>2. ASSUME NEW a \in Agents, Fills(a), e = Field(a)
          PROVE  state'[f] \in {"absent", "fulfilled"}
      <3>1. e \in agent[a].held
        BY <2>2, FieldHeld
      <3> QED BY <1>1, <1>3, <2>2, <3>1 DEF Fills
    <2> QED BY <1>3, <2>1, <2>2, Recorded
  <1>4. ASSUME NEW e \in refused', e[1] = s
        PROVE  \/ state'[e] = "cancelled"
               \/ \A f \in Ids : f[1] = s => state'[f] = "absent"
    <2>1. e \in Ids
      BY DEF TypeOK, TypeHistory
    <2>2. CASE Refuses(e)
      BY <2>1, <2>2 DEF Refuses, Decides, TypeOK, TypeQueue
    <2>3. CASE e \in refused /\ state[e] = "cancelled"
      <3>1. CASE state'[e] # "cancelled"
        <4>1. PICK a \in Agents : (TakesForm(a) \/ TakesPrompt(a)) /\ e[1] = SlotOf(a)
          BY <1>4, <2>1, <2>3, <3>1, Turns
        <4> QED BY <1>4, <4>1, TakesIs
      <3> QED BY <3>1
    <2>4. CASE e \in refused /\ \A f \in Ids : f[1] = s => state[f] = "absent"
      <3>1. kind[e[1]] # "free"
        BY <2>4 DEF SlotInv
      <3>2. ASSUME NEW f \in Ids, f[1] = s PROVE state'[f] = "absent"
        <4>1. state[f] = "absent" /\ state[e] = "absent"
          BY <1>4, <2>1, <2>4, <3>2
        <4>2. ASSUME NEW a \in Agents, Asking(a), f[1] = SlotOf(a) PROVE FALSE
          BY <1>4, <2>1, <2>4, <3>2, <4>1, <4>2 DEF Apart
        <4>3. ASSUME NEW a \in Agents, f \in agent[a].held PROVE FALSE
          BY <1>4, <2>4, <3>2, <4>3 DEF CancelKept
        <4> QED BY <1>4, <3>1, <3>2, <4>1, <4>2, <4>3, Comes
      <3> QED BY <3>2
    <2> QED BY <1>4, <2>2, <2>3, <2>4, Recorded DEF Apart
  <1>5. ASSUME NEW b \in Agents, Asking(b)', SlotOf(b)' = s, NEW e \in Ids, e[1] = s
        PROVE  /\ e \notin filled'
               /\ \A c \in Agents : e \notin agent'[c].held
               /\ e \in refused' => state'[e] = "cancelled"
    <2>1. CASE Asking(b) /\ SlotOf(b)' = SlotOf(b) /\ kind[SlotOf(b)] = "form"
      <3>1. /\ e \notin filled /\ \A c \in Agents : e \notin agent[c].held
            /\ e \in refused => state[e] = "cancelled"
        BY <1>5, <2>1 DEF Apart
      <3>2. nonce[SlotOf(b)] = "none"
        BY <2>1 DEF AgentInv
      <3>3. ASSUME NEW a \in Agents, TakesForm(a) \/ TakesPrompt(a), e[1] = SlotOf(a)
            PROVE  FALSE
        BY <1>5, <2>1, <3>2, <3>3, TakesIs
      <3>4. e \notin filled'
        BY <3>1, Recorded, FieldHeld
      <3>5. ASSUME NEW c \in Agents, e \in agent'[c].held PROVE FALSE
        BY <3>1, <3>3, <3>5, Holds, Collected
      <3>6. ASSUME e \in refused' PROVE state'[e] = "cancelled"
        <4>1. CASE Refuses(e)
          BY <4>1 DEF Refuses, Decides, TypeOK, TypeQueue
        <4>2. CASE e \in refused
          BY <1>5, <3>1, <3>3, <4>2, Turns
        <4> QED BY <3>6, <4>1, <4>2, Recorded
      <3> QED BY <3>4, <3>5, <3>6
    <2>2. ASSUME NEW refs \in Asks, AsksForm(b, refs), SlotOf(b)' = Used + 1
          PROVE  /\ e \notin filled'
                 /\ \A c \in Agents : e \notin agent'[c].held
                 /\ e \in refused' => state'[e] = "cancelled"
      <3>1. kind[e[1]] = "free"
        BY <1>5, <2>2, FreshSlot DEF AsksForm, TypeOK
      <3>2. state[e] = "absent"
        BY <3>1, QueuedIs
      <3>3. \A c \in Agents : e \notin agent[c].held
        BY <3>1, HeldIs
      <3>4. e \notin filled \cup refused
        BY <3>1 DEF SlotInv
      <3>5. e \notin filled'
        BY <3>3, <3>4, Recorded, FieldHeld
      <3>6. \A c \in Agents : e \notin agent'[c].held
        BY <3>2, <3>3, Holds, Collected
      <3>7. e \notin refused'
        BY <3>2, <3>4, Recorded DEF Refuses, Decides
      <3> QED BY <3>5, <3>6, <3>7
    <2> QED BY <1>5, <2>1, <2>2, Askers
  <1> QED BY <1>2, <1>3, <1>4, <1>5 DEF Apart

(* Every step honours what was cancelled.                                   *)
LEMMA CancelStep ==
  ASSUME TypeOK, TypeOK', SlotInv, AgentInv, FreshInv, HoldInv, Effect,
         NEW s \in Slots, Young(s), Apart(s), CancelKept(s)
  PROVE  CancelKept(s)'
  <1> SUFFICES ASSUME NEW e \in refused', e[1] = s
               PROVE  /\ \A f \in filled' : f[1] # s
                      /\ \A a \in Agents, f \in Ids : f[1] = s => f \notin agent'[a].held
    BY DEF CancelKept
  <1>1. e \in Ids /\ e[1] = s
    BY DEF TypeOK, TypeHistory
  <1>2. CASE e \in refused
    <2>1. /\ \A f \in filled : f[1] # s
          /\ \A a \in Agents, f \in Ids : f[1] = s => f \notin agent[a].held
      BY <1>2 DEF CancelKept
    <2>2. ASSUME NEW a \in Agents, NEW f, f[1] = s,
                 \/ CollectsForm(a) /\ f \in Queued(SlotOf(a))
                 \/ CollectsPrompt(a) /\ f = <<SlotOf(a), 0>>
          PROVE  FALSE
      <3>1. /\ f \in Ids /\ state[f] = "fulfilled"
            /\ \A g \in Ids : g[1] = f[1] => state[g] \in {"absent", "fulfilled"}
        BY <2>2, Collected
      <3>2. state[e] # "cancelled"
        BY <1>1, <2>2, <3>1
      <3> QED BY <1>2, <2>2, <3>1, <3>2 DEF Apart
    <2>3. ASSUME NEW f \in filled', f[1] = s PROVE FALSE
      <3>1. PICK a \in Agents : Fills(a) /\ f = Field(a)
        BY <2>1, <2>3, Recorded
      <3> QED BY <2>1, <2>3, <3>1, FieldHeld
    <2>4. ASSUME NEW a \in Agents, NEW f \in Ids, f[1] = s, f \in agent'[a].held PROVE FALSE
      BY <2>1, <2>2, <2>4, Holds
    <2> QED BY <2>3, <2>4
  <1>3. CASE Refuses(e)
    <2>1. state[e] = "pending" /\ state'[e] = "cancelled"
      BY <1>1, <1>3 DEF Refuses, Decides, TypeOK, TypeQueue
    <2>2. ASSUME NEW f \in filled', f[1] = s PROVE FALSE
      <3>1. CASE f \in filled
        BY <1>1, <2>1, <2>2, <3>1 DEF Apart
      <3>2. ASSUME NEW a \in Agents, Fills(a), f = Field(a) PROVE FALSE
        BY <1>1, <2>1, <2>2, <3>2, FieldHeld DEF Apart
      <3> QED BY <2>2, <3>1, <3>2, Recorded
    <2>3. ASSUME NEW a \in Agents, NEW f \in Ids, f[1] = s, f \in agent'[a].held PROVE FALSE
      <3>1. CASE f \in agent[a].held
        BY <1>1, <2>1, <2>3, <3>1 DEF Apart
      <3>2. CASE \/ CollectsForm(a) /\ f \in Queued(SlotOf(a))
                 \/ CollectsPrompt(a) /\ f = <<SlotOf(a), 0>>
        BY <1>1, <2>1, <2>3, <3>2, Collected
      <3> QED BY <2>3, <3>1, <3>2, Holds
    <2> QED BY <2>2, <2>3
  <1> QED BY <1>2, <1>3, Recorded

(* No step lets a form waiter sleep on what it could collect.               *)
LEMMA WaiterStep ==
  ASSUME TypeOK, SlotInv, AgentInv, FreshInv, HoldInv, Effect,
         NEW s \in Slots, Young(s), Apart(s), WaiterWoken(s)
  PROVE  WaiterWoken(s)'
  <1> SUFFICES ASSUME NEW b \in Agents, agent'[b].pc = "parked", SlotOf(b)' = s
               PROVE  /\ \E e \in Fields(s)' : state'[e] = "pending"
                      /\ \A e \in Fields(s)' : state'[e] # "cancelled"
    BY DEF WaiterWoken, SlotOf
  <1>1. ~AllAwake
    BY DEF AllAwake
  <1>2. Kept(b)
    BY Movers
       DEF AgentEffect, Settles, RemovesForm, CollectsForm, RemovesPrompt, CollectsPrompt, Fills,
           Fails, Waits, AsksForm, AsksPrompt, Over, Collects, Starts, Enqueues
  <1>3. SlotOf(b) = s /\ agent[b].pc \in FormWaits
    BY <1>2 DEF Kept, SlotOf, FormWaits, PromptWaits
  <1>4. kind[s] = "form" /\ nonce[s] # "none"
    BY <1>3 DEF FormWaits, AgentInv, Collecting, SlotOf, TypeOK, TypeAgents
  <1>5. Fields(s)' = Fields(s) /\ Fields(s) \subseteq Ids /\ \A e \in Fields(s) : e[1] = s
    BY <1>4, OldSlots, FieldsAre DEF TypeOK
  <1>6. CASE agent[b].pc = "parked"
    <2>1. /\ \E e \in Fields(s) : state[e] = "pending"
          /\ \A e \in Fields(s) : state[e] # "cancelled"
      BY <1>3, <1>6 DEF WaiterWoken, SlotOf
    <2>2. ASSUME NEW a \in Agents, TakesForm(a) \/ TakesPrompt(a), SlotOf(a) = s
          PROVE  FALSE
      <3>1. TakesForm(a)
        BY <1>4, <2>2, TakesIs
      <3> QED BY <2>1, <2>2, <3>1 DEF TakesForm, RemovesForm, CollectsForm, Queued
    <2>3. \A e \in Fields(s) : state[e] # "absent" => state'[e] = state[e]
      BY <1>1, <1>5, <2>2, Turns
    <2>4. \A e \in Fields(s) : state[e] = "absent" => state'[e] # "cancelled"
      BY <1>5, Comes
    <2>5. \A e \in Fields(s) : state'[e] # "cancelled"
      BY <2>1, <2>3, <2>4
    <2> QED BY <1>5, <2>1, <2>3, <2>5
  <1>7. CASE agent[b].pc # "parked"
    <2>1. Rests
      BY <1>7 DEF Effect, AgentEffect, EntryEffect, Lists, Settles, RemovesForm, CollectsForm,
         RemovesPrompt, CollectsPrompt, Fills, Fails, Waits, AsksForm, AsksPrompt, Enqueues, Takes,
         Types, Refuses, Decides, Ages, NobodyParks, AllAwake
    <2> QED BY <1>3, <1>5, <1>7, <2>1 DEF Rests, Blocks
  <1> QED BY <1>6, <1>7

(* Only a form every field of which was filled or answered from an old row  *)
(* is answered a success.                                                   *)
LEMMA SuccessStep ==
  ASSUME TypeOK, SlotInv, AgentInv, HoldInv, Effect,
         NEW s \in Slots, Together(s), SuccessFills(s)
  PROVE  SuccessFills(s)'
  <1> SUFFICES ASSUME NEW b \in Agents, agent'[b].answer = "ok", SlotOf(b)' = s, kind'[s] = "form"
               PROVE  Fields(s)' \subseteq filled' \cup replayed'
    BY DEF SuccessFills, SlotOf
  <1>1. SlotOf(b) = s
    BY Movers
       DEF AgentEffect, Settles, RemovesForm, CollectsForm, RemovesPrompt, CollectsPrompt, Fills,
           Fails, Waits, AsksForm, AsksPrompt, Over, Collects, Starts, Enqueues, Kept, SlotOf
  <1>2. kind[s] # "free" /\ (agent[b].answer = "ok" \/ Fills(b))
    <2>1. agent[b].answer = "ok" \/ Fills(b)
      BY Movers
         DEF AgentEffect, Settles, RemovesForm, CollectsForm, RemovesPrompt, CollectsPrompt,
             Fails, Waits, AsksForm, AsksPrompt, Over, Collects, Starts, Enqueues, Kept
    <2>2. Fills(b) => agent[b].pc = "fill"
      BY DEF Fills
    <2> QED BY <1>1, <2>1, <2>2 DEF AgentInv, SlotOf, TypeOK, TypeAgents
  <1>3. kind[s] = "form" /\ Fields(s)' = Fields(s)
    BY <1>2, OldSlots
  <1>4. CASE agent[b].answer = "ok"
    BY <1>1, <1>3, <1>4, Recorded DEF SuccessFills, SlotOf
  <1>5. CASE Fills(b) /\ agent[b].answer # "ok"
    <2>1. agent[b].held = Fields(s)
      BY <1>1, <1>3, <1>5 DEF Fills, Together, Filling
    <2>2. agent[b].todo = {Field(b)} /\ Field(b) \in filled' \cup replayed'
      BY <1>5 DEF Fills
    <2> QED BY <1>3, <2>1, <2>2, Recorded DEF HoldInv
  <1> QED BY <1>2, <1>4, <1>5

-----------------------------------------------------------------------------
(* What is asked for again.                                                 *)

(* What is dropped outlived ORPHAN_TTL or was superseded.                   *)
LEMMA DroppedIs ==
  ASSUME Effect, NEW s \in dropped'
  PROVE  \/ s \in dropped
         \/ \E e \in Ids : Ages(e) /\ s = e[1]
         \/ \E a \in Agents, refs \in Asks : AsksForm(a, refs) /\ s \in Dead(refs)
  <1>1. CASE dropped' = dropped
    BY <1>1
  <1>2. ASSUME NEW e \in Ids, Ages(e) PROVE s \in dropped \/ s = e[1]
    BY <1>2 DEF Ages
  <1>3. ASSUME NEW a \in Agents, NEW refs \in Asks, AsksForm(a, refs)
        PROVE  s \in dropped \/ s \in Dead(refs)
    BY <1>3 DEF AsksForm
  <1> QED BY <1>1, <1>2, <1>3
          DEF Effect, AgentEffect, EntryEffect, Rests, Lists, Settles, Waits, AsksPrompt, Enqueues,
              RemovesForm, CollectsForm, RemovesPrompt, CollectsPrompt, Takes, Fills, Fails, Types,
              Refuses, Decides, HistoryKept

(* Who asked for a form has it until the link is minted.                    *)
LEMMA AskStep ==
  ASSUME TypeOK, TypeOK', SlotInv, AgentInv, HoldInv, AskInv, Effect
  PROVE  AskInv'
  <1>1. ASSUME NEW a \in Agents, NEW refs \in Asks, AsksForm(a, refs) \/ AsksPrompt(a, refs)
        PROVE  /\ Used + 1 \in Slots /\ kind[Used + 1] = "free"
               /\ kind'[Used + 1] = "form" => ask'[Used + 1] = refs /\ Asking(a)' /\ SlotOf(a)' = Used + 1
               /\ \A s \in Slots : s # Used + 1 => kind'[s] = kind[s]
    <2>1. Used + 1 \in Slots /\ kind[Used + 1] = "free"
      BY <1>1, FreshSlot DEF AsksForm, AsksPrompt, TypeOK
    <2> QED BY <1>1, <2>1 DEF AsksForm, AsksPrompt, Starts, Asking, SlotOf, TypeOK, TypeQueue
  <1>2. ASSUME NEW s \in Slots, kind[s] = "free", kind'[s] # "free"
        PROVE  \E a \in Agents, refs \in Asks :
                 (AsksForm(a, refs) \/ AsksPrompt(a, refs)) /\ s = Used + 1
    <2>1. ~AsksKept
      BY <1>2 DEF AsksKept
    <2>2. PICK a \in Agents, refs \in Asks : AsksForm(a, refs) \/ AsksPrompt(a, refs)
      BY <2>1 DEF Effect, AgentEffect, EntryEffect, Rests, Lists, Settles, Waits, Enqueues,
         RemovesForm, CollectsForm, RemovesPrompt, CollectsPrompt, Takes, Fills, Fails, Types,
         Refuses, Decides, Ages
    <2> QED BY <1>1, <1>2, <2>2
  <1>3. ASSUME NEW s \in Slots, kind'[s] = "form"
        PROVE  /\ ask'[s] \in Asks
               /\ nonce'[s] = "none" => \E a \in Agents : Asking(a)' /\ SlotOf(a)' = s
    <2>1. CASE kind[s] = "free"
      BY <1>1, <1>2, <1>3, <2>1
    <2>2. CASE kind[s] # "free"
      <3>1. kind[s] = "form" /\ ask'[s] = ask[s]
        BY <1>3, <2>2, OldSlots
      <3>2. ASSUME nonce'[s] = "none"
            PROVE  \E a \in Agents : Asking(a)' /\ SlotOf(a)' = s
        <4>1. nonce[s] = "none"
          BY <3>2, Minted
        <4>2. PICK a \in Agents : Asking(a) /\ SlotOf(a) = s
          BY <3>1, <4>1 DEF AskInv
        <4>3. CASE Kept(a)
          BY <4>2, <4>3 DEF Kept, Asking, SlotOf, FormWaits, PromptWaits
        <4>4. CASE Enqueues(a)
          BY <4>2, <4>4 DEF Enqueues, Asking, SlotOf
        <4>5. ~Settles(a)
          BY <3>2, <4>2 DEF Settles, Asking
        <4> QED BY <4>2, <4>3, <4>4, <4>5, Movers
                DEF AgentEffect, RemovesForm, CollectsForm, RemovesPrompt, CollectsPrompt, Fills,
                    Fails, Waits, AsksForm, AsksPrompt, Starts, Asking, PromptWaits
      <3> QED BY <3>1, <3>2 DEF AskInv
    <2> QED BY <2>1, <2>2
  <1>4. ASSUME NEW s \in dropped', s \in Slots
        PROVE  kind'[s] # "free"
    <2>1. kind[s] # "free"
      <3>1. CASE s \in dropped
        BY <3>1 DEF AskInv
      <3>2. ASSUME NEW e \in Ids, Ages(e), s = e[1]
            PROVE  kind[s] # "free"
        BY <3>2, QueuedIs, HeldIs DEF Ages
      <3>3. ASSUME NEW refs \in Asks, s \in Dead(refs)
            PROVE  kind[s] # "free"
        BY <3>3 DEF Dead
      <3> QED BY <1>4, <3>1, <3>2, <3>3, DroppedIs
    <2> QED BY <1>4, <2>1, OldSlots
  <1>5. dropped' \subseteq Slots
    BY DEF TypeOK, TypeHistory
  <1> QED BY <1>3, <1>4, <1>5 DEF AskInv

(* While nothing of it is too old, the fields of a form in the queue are    *)
(* its first ones: it is being enqueued, or all of it is there.             *)
LEMMA QueuedFirst ==
  ASSUME TypeOK, AgentInv, FreshInv, AskInv, NEW s \in Slots, kind[s] = "form", Together(s)
  PROVE  \E k \in Nat : \A i \in 1..Len(ask[s]) : state[<<s, i>>] # "absent" <=> i <= k
  <1>1. Len(ask[s]) \in Nat /\ \A i \in 1..Len(ask[s]) : <<s, i>> \in Fields(s)
    BY FieldsAre DEF TypeOK, TypeQueue
  <1>2. CASE \A e \in Fields(s) : state[e] # "absent"
    <2>1. \A i \in 1..Len(ask[s]) : state[<<s, i>>] # "absent" <=> i <= Len(ask[s])
      BY <1>1, <1>2
    <2> QED BY <1>1, <2>1
  <1>3. CASE \A e \in Fields(s) : state[e] = "absent"
    <2>1. 0 \in Nat /\ \A i \in 1..Len(ask[s]) : state[<<s, i>>] # "absent" <=> i <= 0
      BY <1>1, <1>3
    <2> QED BY <2>1
  <1>4. ASSUME NEW a \in Agents, SlotOf(a) = s, agent[a].pc = "enqueue"
        PROVE  \E k \in Nat : \A i \in 1..Len(ask[s]) : state[<<s, i>>] # "absent" <=> i <= k
    <2> DEFINE n == agent[a].next
    <2>1. n \in 1..Len(ask[s]) /\ \A i \in n..Len(ask[s]) : state[<<s, i>>] = "absent"
      BY <1>4 DEF FreshInv
    <2>2. \A i \in 1..(n - 1) : state[<<s, i>>] # "absent"
      BY <1>4 DEF Together
    <2> HIDE DEF n
    <2>3. n - 1 \in Nat /\ \A i \in 1..Len(ask[s]) : i <= n - 1 => i \in 1..(n - 1)
      BY <1>1, <2>1
    <2>4. \A i \in 1..Len(ask[s]) : ~(i <= n - 1) => i \in n..Len(ask[s])
      BY <1>1, <2>1
    <2> QED BY <2>1, <2>2, <2>3, <2>4
  <1>5. CASE nonce[s] = "none"
    <2>1. PICK a \in Agents : Asking(a) /\ SlotOf(a) = s
      BY <1>5 DEF AskInv
    <2> QED BY <1>2, <1>4, <2>1 DEF Asking, Together
  <1> QED BY <1>2, <1>3, <1>5 DEF Together

(* So an ask that supersedes a form asks for its first fields, and for all  *)
(* of them once the form's link is minted.                                  *)
LEMMA DeadIsFirst ==
  ASSUME TypeOK, AgentInv, FreshInv, AskInv, NEW s \in Slots, kind[s] = "form", Together(s),
         NEW refs \in Asks, Listed(s, refs)
  PROVE  /\ Len(refs) <= Len(ask[s]) /\ \A i \in 1..Len(refs) : refs[i] = ask[s][i]
         /\ nonce[s] # "none" => refs = ask[s]
  <1>1. /\ DOMAIN refs = 1..Len(refs) /\ Len(refs) \in Nat
        /\ DOMAIN ask[s] = 1..Len(ask[s]) /\ Len(ask[s]) \in Nat
    BY AskAssumption DEF TypeOK, TypeQueue
  <1>2. PICK at \in [DOMAIN refs -> DOMAIN ask[s]] :
          /\ \A i, j \in DOMAIN refs : i < j => at[i] < at[j]
          /\ Queued(s) = {<<s, at[i]>> : i \in DOMAIN refs}
          /\ \A i \in DOMAIN refs : refs[i] = ask[s][at[i]]
    BY DEF Listed
  <1>3. \A i \in 1..Len(refs) : at[i] \in 1..Len(ask[s])
    BY <1>1, <1>2
  <1>4. PICK k \in Nat : \A i \in 1..Len(ask[s]) : state[<<s, i>>] # "absent" <=> i <= k
    BY QueuedFirst
  <1>5. ASSUME NEW i \in 1..Len(refs) PROVE at[i] <= k
    <2>1. <<s, at[i]>> \in Queued(s)
      BY <1>1, <1>2
    <2> QED BY <1>3, <1>4, <2>1 DEF Queued
  <1>6. ASSUME NEW j \in 1..Len(ask[s]), j <= k
        PROVE  \E i \in 1..Len(refs) : at[i] = j
    <2>1. <<s, j>> \in Queued(s)
      BY <1>4, <1>6 DEF Queued, Fields
    <2>2. PICK i \in DOMAIN refs : <<s, j>> = <<s, at[i]>>
      BY <1>2, <2>1
    <2> QED BY <1>1, <2>2
  <1> DEFINE Astray == {i \in 1..Len(refs) : at[i] # i}
  <1>7. Astray = {}
    <2>1. SUFFICES ASSUME Astray # {} PROVE FALSE
      OBVIOUS
    <2>2. PICK i \in Astray : \A j \in Astray : i <= j
      <3>1. Astray \in SUBSET Nat
        BY <1>1
      <3> HIDE DEF Astray
      <3> QED BY <2>1, <3>1, Least
    <2>3. i \in 1..Len(refs) /\ at[i] # i /\ i \in Nat /\ at[i] \in Nat /\ at[i] <= Len(ask[s])
      BY <1>1, <1>3, <2>2
    <2>4. \A j \in 1..Len(refs) : j < i => at[j] = j
      BY <1>1, <2>2
    <2>5. i < at[i]
      <3>1. CASE i = 1
        BY <1>3, <2>3, <3>1
      <3>2. CASE i # 1
        <4>1. i - 1 \in 1..Len(refs) /\ i - 1 < i
          BY <1>1, <2>3, <3>2
        <4>2. at[i - 1] = i - 1 /\ at[i - 1] < at[i]
          BY <1>1, <1>2, <2>3, <2>4, <4>1
        <4> QED BY <2>3, <4>2
      <3> QED BY <3>1, <3>2
    <2>6. i \in 1..Len(ask[s]) /\ i <= k
      BY <1>1, <1>5, <2>3, <2>5
    <2>7. PICK j \in 1..Len(refs) : at[j] = i
      BY <1>6, <2>6
    <2>8. CASE j < i
      BY <1>1, <2>3, <2>4, <2>7, <2>8
    <2>9. CASE i < j
      <3>1. at[i] < at[j]
        BY <1>1, <1>2, <2>3, <2>9
      <3> QED BY <2>3, <2>5, <2>7, <3>1
    <2> QED BY <1>1, <2>3, <2>7, <2>8, <2>9
  <1>8. \A i \in 1..Len(refs) : at[i] = i
    BY <1>7
  <1>9. \A i \in 1..Len(refs) : refs[i] = ask[s][i]
    BY <1>1, <1>2, <1>8
  <1>10. Len(refs) <= Len(ask[s])
    <2>1. CASE Len(refs) = 0
      BY <1>1, <2>1
    <2>2. CASE Len(refs) # 0
      <3>1. Len(refs) \in 1..Len(refs)
        BY <1>1, <2>2
      <3> QED BY <1>1, <1>3, <1>8, <3>1
    <2> QED BY <2>1, <2>2
  <1>11. ASSUME nonce[s] # "none" PROVE refs = ask[s]
    <2>1. refs \in Seq(Nat) /\ ask[s] \in Seq(Nat) /\ 1 \in 1..Len(refs)
      BY AskAssumption, LimitAssumption DEF TypeOK, TypeQueue
    <2>2. <<s, at[1]>> \in Queued(s)
      BY <1>1, <1>2, <2>1
    <2>3. \A e \in Fields(s) : state[e] # "absent"
      BY <1>11, <2>2 DEF Together, Queued
    <2>4. Len(ask[s]) \in 1..Len(ask[s]) /\ <<s, Len(ask[s])>> \in Queued(s)
      BY <1>1, <1>10, <2>1, <2>3 DEF Queued, Fields
    <2>5. PICK n \in DOMAIN refs : <<s, Len(ask[s])>> = <<s, at[n]>>
      BY <1>2, <2>4
    <2>6. Len(refs) = Len(ask[s])
      BY <1>1, <1>8, <1>10, <2>5
    <2> DEFINE q == ask[s]
    <2>7. q \in Seq(Nat) /\ Len(q) = Len(refs) /\ \A i \in 1..Len(refs) : refs[i] = q[i]
      BY <1>9, <2>1, <2>6
    <2> HIDE DEF q
    <2>8. refs = q
      BY <2>1, <2>7, SeqEqual
    <2> QED BY <2>8 DEF q
  <1> QED BY <1>9, <1>10, <1>11

(* A step supersedes a form only by asking for its fields.                  *)
LEMMA TwinStep ==
  ASSUME TypeOK, TypeOK', SlotInv, AgentInv, FreshInv, WholeInv, AskInv, Effect,
         NEW s \in dropped' \ dropped, Young(s)'
  PROVE  Superseded(s)
  <1>1. Young(s) /\ s \in Slots
    BY Recorded DEF Young, TypeOK, TypeHistory
  <1>2. ASSUME NEW e \in Ids, Ages(e), s = e[1] PROVE FALSE
    BY <1>2 DEF Ages, Young
  <1>3. PICK a \in Agents, refs \in Asks : AsksForm(a, refs) /\ s \in Dead(refs)
    BY <1>2, DroppedIs
  <1> DEFINE t == Used + 1
  <1>4. t \in Slots /\ kind[t] = "free"
    BY <1>3, FreshSlot DEF AsksForm, TypeOK
  <1>5. kind[s] = "form" /\ Listed(s, refs)
    BY <1>3 DEF Dead
  <1>6. Together(s)
    BY <1>1 DEF WholeInv, Whole
  <1>7. /\ Len(refs) <= Len(ask[s]) /\ \A i \in 1..Len(refs) : refs[i] = ask[s][i]
        /\ nonce[s] # "none" => refs = ask[s]
    BY <1>1, <1>5, <1>6, DeadIsFirst
  <1>8. kind'[t] = "form" /\ ask'[t] = refs /\ ask'[s] = ask[s]
    BY <1>1, <1>3, <1>4, <1>5 DEF AsksForm, TypeOK, TypeQueue
  <1> HIDE DEF t
  <1> QED BY <1>4, <1>7, <1>8 DEF Superseded, FirstOf

-----------------------------------------------------------------------------
(* Links.                                                                   *)

Busy(h) == human[h].pc \in {"submitting", "listing", "cancelling"}

(* A step of one human changes no other.                                    *)
LEMMA OneHuman ==
  ASSUME TypeOK, NEW h \in Humans, NEW r, human' = [human EXCEPT ![h] = r]
  PROVE  human'[h] = r /\ \A g \in Humans : g # h => human'[g] = human[g]
  BY DEF TypeOK, TypeWeb

(* Every step keeps links apart.                                            *)
LEMMA LinkStep ==
  ASSUME TypeOK, AgentInv, LinkInv, [Next]_vars
  PROVE  LinkInv'
  <1> USE DEF Busy
  <1>1. /\ nonce \in [0..MaxAsks -> {"none", "live", "spent", "gone"}]
        /\ \A h \in Humans : human[h].link \in 0..MaxAsks /\ human[h] \in HumanStates
    BY DEF TypeOK, TypeWeb, HumanStates
  <1>2. /\ \A h \in Humans : Busy(h) => nonce[human[h].link] = "spent"
        /\ \A g, h \in Humans : g # h /\ Busy(g) /\ Busy(h) => human[g].link # human[h].link
    BY DEF LinkInv, LinkSingleUse
  <1>3. ASSUME \A n \in 0..MaxAsks : nonce[n] = "spent" => nonce'[n] = "spent",
               \A h \in Humans : Busy(h)' => Busy(h) /\ human'[h].link = human[h].link
        PROVE  LinkInv'
    <2>1. \A h \in Humans : Busy(h)' => nonce'[human'[h].link] = "spent"
      BY <1>1, <1>2, <1>3
    <2>2. \A g, h \in Humans : g # h /\ Busy(g)' /\ Busy(h)' => human'[g].link # human'[h].link
      BY <1>2, <1>3
    <2> QED BY <2>1, <2>2 DEF LinkInv, LinkSingleUse
  <1>4. CASE UNCHANGED human /\ UNCHANGED nonce
    BY <1>3, <1>4
  <1>5. ASSUME UNCHANGED human, NEW n \in 0..MaxAsks, nonce[n] # "spent",
               NEW v, nonce' = [nonce EXCEPT ![n] = v]
        PROVE  LinkInv'
    BY <1>1, <1>3, <1>5
  <1>6. ASSUME NEW a \in Agents, MintForm(a)
        PROVE  LinkInv'
    <2>1. SlotOf(a) \in 0..MaxAsks /\ nonce[SlotOf(a)] = "none"
      BY <1>6, LimitAssumption
         DEF MintForm, AgentInv, Asking, SlotOf, TypeOK, TypeAgents, AgentStates
    <2> QED BY <1>5, <1>6, <2>1 DEF MintForm, SlotOf
  <1>7. CASE MintUnscoped
    <2>1. 0 \in 0..MaxAsks
      BY LimitAssumption
    <2> QED BY <1>5, <1>7, <2>1 DEF MintUnscoped
  <1>8. CASE \E n \in 0..MaxAsks : NonceExpires(n)
    BY <1>5, <1>8 DEF NonceExpires
  <1>9. ASSUME NEW h \in Humans, NEW b \in {"submitting", "listing"}, Post(h, b)
        PROVE  LinkInv'
    <2>1. CASE nonce[human[h].link] # "live"
      <3>1. human' = [human EXCEPT ![h] = Away] /\ UNCHANGED nonce
        BY <1>9, <2>1 DEF Post
      <3>2. \A g \in Humans : Busy(g)' => Busy(g) /\ human'[g].link = human[g].link
        BY <3>1, OneHuman DEF Away
      <3> QED BY <1>3, <3>1, <3>2
    <2>2. CASE nonce[human[h].link] = "live"
      <3> DEFINE l == human[h].link
      <3>1. /\ nonce' = [nonce EXCEPT ![l] = "spent"]
            /\ human' = [human EXCEPT ![h].pc = b]
        BY <1>9, <2>2 DEF Post
      <3>2. nonce'[l] = "spent" /\ \A n \in 0..MaxAsks : n # l => nonce'[n] = nonce[n]
        BY <1>1, <3>1
      <3>3. human'[h].link = l /\ \A g \in Humans : g # h => human'[g] = human[g]
        BY <1>1, <3>1 DEF HumanStates, TypeOK, TypeWeb
      <3>4. \A g \in Humans : g # h /\ Busy(g) => human[g].link # l
        BY <1>2, <2>2
      <3>5. \A g \in Humans : Busy(g)' => nonce'[human'[g].link] = "spent"
        BY <1>1, <1>2, <3>2, <3>3
      <3>6. \A g, k \in Humans : g # k /\ Busy(g)' /\ Busy(k)' => human'[g].link # human'[k].link
        BY <1>2, <3>3, <3>4
      <3> QED BY <3>5, <3>6 DEF LinkInv, LinkSingleUse
    <2> QED BY <2>1, <2>2
  <1>10. ASSUME NEW h \in Humans, \/ HumanStep(h) \/ Shell(h)
                                  \/ \E n \in 0..MaxAsks : Look(h, n)
         PROVE  LinkInv'
    <2>1. CASE CancelList(h)
      <3>1. /\ human[h].pc = "listing" /\ UNCHANGED nonce
            /\ human' = [human EXCEPT ![h].pc = "cancelling", ![h].ids = Shown(human[h].link)]
        BY <2>1 DEF CancelList
      <3>2. \A g \in Humans : Busy(g)' => Busy(g) /\ human'[g].link = human[g].link
        BY <1>1, <3>1 DEF HumanStates, TypeOK, TypeWeb
      <3> QED BY <1>3, <3>1, <3>2
    <2>2. CASE PostEntry(h)
      <3>1. PICK e : human' = [human EXCEPT ![h].ids = @ \ {e}]
        BY <2>2 DEF PostEntry
      <3>2. \A g \in Humans : Busy(g)' => Busy(g) /\ human'[g].link = human[g].link
        BY <1>1, <3>1 DEF HumanStates, TypeOK, TypeWeb
      <3> QED BY <1>3, <2>2, <3>2 DEF PostEntry
    <2>3. CASE Posted(h)
      <3>1. \A g \in Humans : Busy(g)' => Busy(g) /\ human'[g].link = human[g].link
        BY <2>3, OneHuman DEF Posted, Away
      <3> QED BY <1>3, <2>3, <3>1 DEF Posted
    <2>4. CASE Shell(h)
      BY <1>4, <2>4 DEF Shell
    <2>5. ASSUME NEW n \in 0..MaxAsks, Look(h, n) PROVE LinkInv'
      <3>1. \A g \in Humans : Busy(g)' => Busy(g) /\ human'[g].link = human[g].link
        BY <2>5, OneHuman DEF Look
      <3> QED BY <1>3, <2>5, <3>1 DEF Look
    <2> QED BY <1>10, <2>1, <2>2, <2>3, <2>4, <2>5 DEF HumanStep
  <1>11. ASSUME NEW a \in Agents,
                \/ Enqueue(a) \/ CheckForm(a) \/ ReadToken(a) \/ ParkPrompt(a) \/ CheckPrompt(a)
                \/ Fill(a) \/ FillHit(a) \/ FillError(a) \/ Deadline(a) \/ SpuriousWake(a)
                \/ \E refs \in Asks : Ask(a, refs) \/ Prompt(a, refs)
                \/ \E s \in Slots : Wait(a, s)
         PROVE  LinkInv'
    <2>1. UNCHANGED human /\ UNCHANGED nonce
      BY <1>11 DEF Enqueue, CheckForm, ReadToken, ParkPrompt, CheckPrompt, Fill, FillHit, FillError,
         Deadline, SpuriousWake, Ask, Prompt, Wait
    <2> QED BY <1>4, <2>1
  <1>12. CASE \/ \E e \in Ids : Age(e)
              \/ PageMoves \/ IdemExpire \/ Rest \/ UNCHANGED vars
    BY <1>4, <1>12 DEF Age, PageMoves, IdemExpire, Rest, vars
  <1> QED BY <1>6, <1>7, <1>8, <1>9, <1>10, <1>11, <1>12 DEF Next, AgentStep

-----------------------------------------------------------------------------
(* The inductive invariant, and what follows from it.                       *)

(* It holds where nothing was asked for.                                    *)
LEMMA FormInit == Init => FormInv
  <1> SUFFICES ASSUME Init PROVE FormInv
    OBVIOUS
  <1>1. TypeOK
    BY InitType
  <1>2. \A a \in Agents : /\ agent[a].pc = "idle" /\ agent[a].held = {} /\ agent[a].answer = "none"
    BY DEF Init, Idle
  <1>3. \A e \in Ids : state[e] = "absent"
    BY DEF Init
  <1>4. SlotInv
    <2>1. 0 \in 0..MaxAsks /\ \A s \in Slots : ~(s <= 0) /\ s \in 0..MaxAsks
      BY LimitAssumption DEF Slots
    <2>2. \E n \in 0..MaxAsks : \A s \in Slots : kind[s] # "free" <=> s <= n
      BY <2>1 DEF Init
    <2> QED BY <1>3, <2>1, <2>2 DEF Init, SlotInv
  <1>5. AgentInv /\ FreshInv /\ HoldInv
    BY <1>2 DEF AgentInv, FreshInv, HoldInv, Asking, Collecting, Filling
  <1>6. GoneInv
    BY <1>3 DEF Init, GoneInv
  <1>7. WholeInv
    <2>1. \A s \in Slots : nonce[s] = "none"
      BY LimitAssumption DEF Init, Slots
    <2>2. \A s \in Slots : Together(s)
      BY <1>2, <2>1 DEF Together, Filling
    <2>3. \A s \in Slots : Apart(s) /\ CancelKept(s) /\ WaiterWoken(s) /\ SuccessFills(s)
      BY <1>2 DEF Init, Apart, CancelKept, WaiterWoken, SuccessFills, Asking
    <2> QED BY <2>2, <2>3 DEF WholeInv, Whole
  <1>8. FormTypingKept /\ AskInv
    BY DEF Init, FormTypingKept, AskInv
  <1>9. LinkInv
    BY DEF Init, LinkInv, LinkSingleUse, Away
  <1> QED BY <1>1, <1>4, <1>5, <1>6, <1>7, <1>8, <1>9 DEF FormInv

(* Every step keeps it.                                                     *)
LEMMA FormStep == FormInv /\ [Next]_vars => FormInv'
  <1> SUFFICES ASSUME FormInv, [Next]_vars PROVE FormInv'
    OBVIOUS
  <1>1. TypeOK /\ SlotInv /\ AgentInv /\ FreshInv /\ HoldInv /\ GoneInv /\ LinkInv
    BY DEF FormInv
  <1>2. TypeOK' /\ Effect
    BY <1>1, TypeStep, Effects
  <1>3. SlotInv' /\ AgentInv' /\ FreshInv' /\ HoldInv' /\ GoneInv' /\ LinkInv'
    BY <1>1, <1>2, SlotStep, AgentInvStep, FreshStep, HoldStep, GoneStep, LinkStep
  <1>4. FormTypingKept'
    BY <1>1, <1>2, TypingStep DEF FormInv
  <1>5. ASSUME NEW s \in Slots, Young(s)' PROVE Whole(s)'
    <2>1. Young(s)
      BY <1>2, <1>5, Recorded DEF Young
    <2>2. Together(s) /\ Apart(s) /\ CancelKept(s) /\ WaiterWoken(s) /\ SuccessFills(s)
      BY <2>1 DEF FormInv, WholeInv, Whole
    <2>3. Together(s)' /\ Apart(s)' /\ CancelKept(s)' /\ WaiterWoken(s)'
      BY <1>1, <1>2, <2>1, <2>2, TogetherStep, ApartStep, CancelStep, WaiterStep
    <2>4. SuccessFills(s)'
      BY <1>1, <1>2, <2>2, SuccessStep
    <2> QED BY <2>3, <2>4 DEF Whole
  <1>6. AskInv'
    BY <1>1, <1>2, AskStep DEF FormInv
  <1> QED BY <1>2, <1>3, <1>4, <1>5, <1>6 DEF FormInv, WholeInv

(* It holds throughout.                                                     *)
LEMMA FormAlways == Spec => []FormInv
  BY FormInit, FormStep, PTL DEF Spec

(* The queue, its waiters, the links and the page keep their types, and a   *)
(* vs_prompt_form_wait is never left asleep on a form that was decided,     *)
(* unless a field of that form has outlived ORPHAN_TTL.                     *)
THEOREM QueueIsSound == Spec => []QueueSound
  <1>1. FormInv => QueueSound
    BY DEF FormInv, WholeInv, Whole, QueueSound
  <1> QED BY <1>1, FormAlways, PTL

(* Nothing that was typed into a form is ever lost: it is in the queue, in  *)
(* the hands of the call that fills it, or on the page, unless its form was *)
(* cancelled, superseded or left for longer than ORPHAN_TTL, or the fill of *)
(* it was answered from the row of another fill on the same token.          *)
THEOREM TypingIsKept == Spec => []FormTypingKept
  <1>1. FormInv => FormTypingKept
    BY DEF FormInv
  <1> QED BY <1>1, FormAlways, PTL

(* What a form's waiter answers is true: nothing of a cancelled form is on  *)
(* the page, before or after; and a success put every field there but those *)
(* whose fill was answered from the row of another.  A form one of whose    *)
(* fields has outlived ORPHAN_TTL is excepted.                              *)
THEOREM AnswersAreTrue == Spec => []FormAnswerTrue
  <1>1. FormInv => FormAnswerTrue
    BY DEF FormInv, WholeInv, Whole, FormAnswerTrue
  <1> QED BY <1>1, FormAlways, PTL

(* A form whose link is minted is superseded by an ask for exactly its      *)
(* fields and by no other; one that is still being enqueued, also by an ask *)
(* for the first of them, in order.                                         *)
THEOREM OnlyTwinsSupersede == Spec => SupersededByTwin
  <1>1. FormInv /\ [Next]_vars =>
          [\A s \in dropped' \ dropped : Young(s)' => Superseded(s)]_vars
    <2>1. SUFFICES ASSUME FormInv, [Next]_vars, NEW s \in dropped' \ dropped, Young(s)'
                   PROVE  Superseded(s)
      OBVIOUS
    <2>2. TypeOK /\ SlotInv /\ AgentInv /\ FreshInv /\ WholeInv /\ AskInv
      BY <2>1 DEF FormInv
    <2>3. TypeOK' /\ Effect
      BY <2>1, <2>2, TypeStep, Effects
    <2> QED BY <2>1, <2>2, <2>3, TwinStep
  <1> QED BY <1>1, FormAlways, PTL DEF Spec, SupersededByTwin

(* No two submissions ever go on through one entry link.                    *)
THEOREM LinksAreSpent == Spec => []LinkSingleUse
  <1>1. FormInv => LinkSingleUse
    BY DEF FormInv, LinkInv
  <1> QED BY <1>1, FormAlways, PTL

=============================================================================
