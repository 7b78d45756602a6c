-------------------------- MODULE ConnectionProofs --------------------------
(***************************************************************************)
(* What holds of Connection for any characters callers type, any length of  *)
(* text and any number of calls: the codec gives back what it was given,    *)
(* every command is understood, and answers stay in step.                   *)
(***************************************************************************)
EXTENDS Connection, FiniteSetTheorems, WellFoundedInduction, TLAPS

-----------------------------------------------------------------------------
(* Numbers and sequences.                                                   *)

(* A nonempty set of numbers has a least one.                               *)
LEMMA Least ==
  ASSUME NEW N \in SUBSET Nat, N # {}
  PROVE  \E i \in N : \A j \in N : i <= j
  <1> DEFINE Less == OpToRel(<, Nat)
  <1>1. IsWellFoundedOn(Less, Nat)
    BY NatLessThanWellFounded
  <1>2. \A i, j \in Nat : i < j => <<i, j>> \in Less
    BY DEF OpToRel
  <1> HIDE DEF Less
  <1>3. PICK i \in N : \A j \in N : <<j, i>> \notin Less
    BY <1>1, WFMin, Zenon
  <1>4. ASSUME NEW j \in N PROVE i <= j
    <2>1. i \in Nat /\ j \in Nat
      OBVIOUS
    <2>2. ~(j < i)
      BY <1>2, <1>3, <2>1, Zenon
    <2> QED BY <2>1, <2>2
  <1> QED BY <1>4

(* What holds of the empty sequence, and of a sequence made longer if it    *)
(* held before, holds of every sequence.                                    *)
LEMMA SequencesGrow ==
  ASSUME NEW C, NEW T, <<>> \in T,
         \A s \in Seq(C), c \in C : s \in T => Append(s, c) \in T
  PROVE  Seq(C) \subseteq T
  <1> SUFFICES ASSUME NEW z \in Seq(C), z \notin T PROVE FALSE
    OBVIOUS
  <1> DEFINE N == {Len(s) : s \in Seq(C) \ T}
  <1>1. N \in SUBSET Nat /\ N # {}
    OBVIOUS
  <1>2. PICK n \in N : \A j \in N : n <= j
    <2> HIDE DEF N
    <2> QED BY <1>1, Least
  <1>3. PICK s \in Seq(C) \ T : n = Len(s)
    BY <1>2
  <1>4. s # <<>>
    BY <1>3
  <1> DEFINE f == SubSeq(s, 1, Len(s) - 1)
  <1>5. f \in Seq(C) /\ Len(f) = Len(s) - 1 /\ s = Append(f, s[Len(s)]) /\ s[Len(s)] \in C
    BY <1>3, <1>4
  <1>6. f \in T
    <2>1. Len(f) < n /\ Len(f) \in Nat
      BY <1>3, <1>5
    <2>2. f \notin T => Len(f) \in N
      BY <1>5
    <2> HIDE DEF f, N
    <2> QED BY <1>1, <1>2, <2>1, <2>2
  <1> QED BY <1>3, <1>5, <1>6

(* The greatest of some of the first numbers is one of them.                *)
LEMMA Greatest ==
  ASSUME NEW n \in Nat, NEW t \in SUBSET (1..n), t # {}
  PROVE  Max(t) \in t /\ \A i \in t : i <= Max(t)
  <1> DEFINE N == {n - i : i \in t}
  <1>1. N \in SUBSET Nat /\ N # {}
    <2>1. \A i \in t : n - i \in Nat
      OBVIOUS
    <2> QED BY <2>1
  <1>2. PICK k \in N : \A j \in N : k <= j
    <2> HIDE DEF N
    <2> QED BY <1>1, Least
  <1>3. PICK m \in t : k = n - m
    BY <1>2
  <1>4. \A i \in t : i <= m
    <2> SUFFICES ASSUME NEW i \in t PROVE i <= m
      OBVIOUS
    <2>1. n - i \in N
      OBVIOUS
    <2> HIDE DEF N
    <2>2. k <= n - i
      BY <1>2, <2>1
    <2> QED BY <1>3, <2>2
  <1>5. \E x \in t : \A y \in t : x >= y
    BY <1>4
  <1>6. Max(t) \in t /\ \A y \in t : Max(t) >= y
    BY <1>5 DEF Max
  <1> QED BY <1>6

(* ... and is the one no other is above.                                    *)
LEMMA GreatestIs ==
  ASSUME NEW n \in Nat, NEW t \in SUBSET (1..n), NEW m \in t, \A i \in t : i <= m
  PROVE  Max(t) = m
  <1>1. Max(t) \in t /\ m <= Max(t) /\ Max(t) <= m
    BY Greatest
  <1>2. Max(t) \in Int /\ m \in Int
    <2>1. \A i \in t : i \in Int
      OBVIOUS
    <2> QED BY <1>1, <2>1, Zenon
  <1> QED BY <1>1, <1>2

-----------------------------------------------------------------------------
(* Folds.  FoldLeft goes through the sets of positions; `whole` is what it  *)
(* makes of each of them.                                                   *)
Rest(t) == t \ {Max(t)}

Steps(W, C) == [W \X C -> W]

IsTable(h, W, step, st, s) ==
    /\ h \in [SUBSET (1..Len(s)) -> W]
    /\ \A t \in SUBSET (1..Len(s)) :
         h[t] = IF t = {} THEN st ELSE step[<<h[Rest(t)], s[Max(t)]>>]

(* A fold has a table.                                                      *)
LEMMA FoldTable ==
  ASSUME NEW W, NEW C, NEW step \in Steps(W, C), NEW st \in W, NEW s \in Seq(C)
  PROVE  \E h : IsTable(h, W, step, st, s)
  <1> DEFINE Filled(h, k) == \A t \in SUBSET (1..k) :
                   h[t] = IF t = {} THEN st ELSE step[<<h[Rest(t)], s[Max(t)]>>]
             Tabled(k) == \E h \in [SUBSET (1..k) -> W] : Filled(h, k)
             N == {k \in 0..Len(s) : ~Tabled(k)}
  <1> SUFFICES ASSUME ~Tabled(Len(s)) PROVE FALSE
    BY Zenon DEF IsTable
  <1>1. N # {}
    <2> HIDE DEF Tabled
    <2>1. Len(s) \in 0..Len(s)
      OBVIOUS
    <2> QED BY <2>1
  <1>2. PICK k \in N : \A j \in N : k <= j
    <2>1. N \in SUBSET Nat
      <3>1. N \subseteq 0..Len(s)
        BY Zenon
      <3> HIDE DEF N
      <3>2. 0..Len(s) \subseteq Nat
        OBVIOUS
      <3> QED BY <3>1, <3>2
    <2> HIDE DEF N
    <2> QED BY <1>1, <2>1, Least
  <1>3. k \in 0..Len(s) /\ ~Tabled(k)
    BY <1>2
  <1>4. CASE k = 0
    <2> DEFINE h == [t \in SUBSET (1..k) |-> st]
    <2>1. h \in [SUBSET (1..k) -> W] /\ Filled(h, k)
      BY <1>4
    <2> QED BY <1>3, <2>1
  <1>5. CASE k > 0
    <2>1. k - 1 \in 0..Len(s) /\ ~(k <= k - 1) /\ k \in 1..Len(s)
      BY <1>3, <1>5
    <2>2. Tabled(k - 1)
      BY <1>2, <2>1
    <2>3. PICK h \in [SUBSET (1..(k - 1)) -> W] : Filled(h, k - 1)
      BY <2>2
    <2> DEFINE g == [t \in SUBSET (1..k) |->
                       IF k \in t THEN step[<<h[t \ {k}], s[k]>>] ELSE h[t]]
    <2> HIDE DEF N
    <2>4. g \in [SUBSET (1..k) -> W]
      <3> SUFFICES ASSUME NEW t \in SUBSET (1..k)
                   PROVE (IF k \in t THEN step[<<h[t \ {k}], s[k]>>] ELSE h[t]) \in W
        OBVIOUS
      <3>1. CASE k \in t
        <4>1. t \ {k} \in SUBSET (1..(k - 1))
          <5>1. \A i \in 1..k : i # k => i \in 1..(k - 1)
            BY <2>1
          <5> QED BY <5>1
        <4>2. h[t \ {k}] \in W /\ s[k] \in C
          BY <2>1, <2>3, <4>1
        <4> QED BY <3>1, <4>2 DEF Steps
      <3>2. CASE k \notin t
        <4>1. t \in SUBSET (1..(k - 1))
          BY <2>1, <3>2
        <4> QED BY <2>3, <3>2, <4>1
      <3> QED BY <3>1, <3>2
    <2>5. Filled(g, k)
      <3> SUFFICES ASSUME NEW t \in SUBSET (1..k)
                   PROVE g[t] = IF t = {} THEN st ELSE step[<<g[Rest(t)], s[Max(t)]>>]
        OBVIOUS
      <3>1. CASE k \in t
        <4>1. Max(t) = k
          <5>1. k \in Nat /\ \A i \in t : i <= k
            BY <2>1
          <5> QED BY <3>1, <5>1, GreatestIs
        <4>2. Rest(t) \in SUBSET (1..(k - 1)) /\ Rest(t) \in SUBSET (1..k)
              /\ Rest(t) = t \ {k} /\ k \notin Rest(t)
          <5> HIDE DEF Filled, Tabled, g
          <5>1. Rest(t) = t \ {k}
            BY <4>1 DEF Rest
          <5>2. k \in Nat /\ k > 0
            BY <2>1
          <5>3. \A i \in 1..k : i # k => i \in 1..(k - 1)
            BY <5>2
          <5>4. t \ {k} \in SUBSET (1..(k - 1)) /\ t \ {k} \in SUBSET (1..k)
            BY <5>3
          <5> QED BY <5>1, <5>4
        <4>3. g[Rest(t)] = h[Rest(t)] /\ g[t] = step[<<h[t \ {k}], s[k]>>]
          BY <3>1, <4>2
        <4> QED BY <3>1, <4>1, <4>2, <4>3
      <3>2. CASE k \notin t /\ t = {}
        <4>1. t \in SUBSET (1..(k - 1)) /\ g[t] = h[t]
          BY <3>2
        <4> QED BY <2>3, <3>2, <4>1
      <3>3. CASE k \notin t /\ t # {}
        <4>1. t \in SUBSET (1..(k - 1)) /\ g[t] = h[t]
          BY <2>1, <3>3
        <4>2. Rest(t) \in SUBSET (1..k) /\ Rest(t) \in SUBSET (1..(k - 1)) /\ k \notin Rest(t)
          BY <3>3, <4>1 DEF Rest
        <4>3. g[Rest(t)] = h[Rest(t)]
          BY <4>2
        <4> QED BY <2>3, <3>3, <4>1, <4>3
      <3> QED BY <3>1, <3>2, <3>3
    <2>6. Tabled(k)
      <3> HIDE DEF g
      <3> QED BY <2>4, <2>5
    <2> QED BY <1>3, <2>6
  <1> QED BY <1>3, <1>4, <1>5

FirstDiffer(g, h, t) == /\ g[t] # h[t]
                        /\ t # {} => g[Rest(t)] = h[Rest(t)]

(* Two tables that differ, differ first somewhere.                          *)
LEMMA FirstDifference ==
  ASSUME NEW n \in Nat, NEW g, NEW h, NEW u \in SUBSET (1..n), g[u] # h[u]
  PROVE  \E t \in SUBSET (1..n) : FirstDiffer(g, h, t)
  <1> DEFINE Differ(k) == \E t \in SUBSET (1..k) : g[t] # h[t]
             N == {k \in 0..n : Differ(k)}
  <1>1. N \in SUBSET Nat /\ N # {}
    OBVIOUS
  <1>2. PICK k \in N : \A j \in N : k <= j
    <2> HIDE DEF N
    <2> QED BY <1>1, Least
  <1>3. PICK t \in SUBSET (1..k) : g[t] # h[t]
    BY <1>2
  <1>4. k \in 0..n /\ t \in SUBSET (1..n)
    BY <1>2
  <1>5. ASSUME t # {} PROVE g[Rest(t)] = h[Rest(t)]
    <2>1. Max(t) \in t /\ \A i \in t : i <= Max(t)
      BY <1>4, <1>5, Greatest
    <2>2. k - 1 \in 0..n /\ ~(k <= k - 1)
      <3>1. Max(t) \in 1..k
        BY <1>3, <2>1
      <3> HIDE DEF N
      <3> QED BY <1>4, <3>1
    <2>3. Rest(t) \in SUBSET (1..(k - 1))
      <3> SUFFICES ASSUME NEW i \in t, i # Max(t) PROVE i \in 1..(k - 1)
        BY DEF Rest
      <3>1. i \in 1..k /\ Max(t) \in 1..k /\ i <= Max(t)
        BY <1>3, <2>1
      <3> HIDE DEF N
      <3> QED BY <1>4, <3>1
    <2>4. k - 1 \notin N
      <3> HIDE DEF N
      <3> QED BY <1>2, <2>2
    <2> QED BY <2>2, <2>3, <2>4
  <1> QED BY <1>3, <1>4, <1>5 DEF FirstDiffer

-----------------------------------------------------------------------------
(* Folds over sequences, of which the library knows no induction.           *)

(* A fold whose step is a function of what is there and the next element.   *)
Through(step, st, s) == FoldLeft(LAMBDA x, c : step[<<x, c>>], st, s)

(* A fold is the last entry of its table.                                   *)
LEMMA ThroughIs ==
  ASSUME NEW W, NEW C, NEW step \in Steps(W, C), NEW st \in W, NEW s \in Seq(C),
         NEW h, IsTable(h, W, step, st, s)
  PROVE  Through(step, st, s) = h[1..Len(s)]
  <1> DEFINE n == Len(s)
             P(g) == g = [t \in SUBSET DOMAIN s |->
                            IF t = {} THEN st
                            ELSE step[<<g[t \ {Max(t)}], s[Max(t)]>>]]
             g == CHOOSE x : P(x)
  <1>1. n \in Nat /\ DOMAIN s = 1..n
    OBVIOUS
  <1>2. Through(step, st, s) = g[1..n]
    BY <1>1, Zenon DEF Through, FoldLeft, MapThenFoldSet
  <1>3. P(h)
    BY <1>1 DEF IsTable, Rest
  <1>4. P(g)
    <2> HIDE DEF P
    <2> QED BY <1>3
  <1>5. \A t \in SUBSET (1..n) : g[t] = IF t = {} THEN st ELSE step[<<g[Rest(t)], s[Max(t)]>>]
    <2> HIDE DEF g
    <2> QED BY <1>1, <1>4 DEF Rest
  <1>6. g[1..n] = h[1..n]
    <2> HIDE DEF g, P
    <2> SUFFICES ASSUME g[1..n] # h[1..n] PROVE FALSE
      OBVIOUS
    <2>1. PICK t \in SUBSET (1..n) : FirstDiffer(g, h, t)
      BY <1>1, FirstDifference
    <2> QED BY <1>5, <2>1 DEF FirstDiffer, IsTable
  <1> QED BY <1>2, <1>6

(* The initial stretch of positions, and the last of them.                  *)
LEMMA Stretch ==
  ASSUME NEW k \in Nat, k > 0
  PROVE  1..k # {} /\ Max(1..k) = k /\ Rest(1..k) = 1..(k - 1)
  <1>1. Max(1..k) = k
    <2>1. k \in 1..k /\ \A i \in 1..k : i <= k
      OBVIOUS
    <2> QED BY <2>1, GreatestIs
  <1> QED BY <1>1 DEF Rest

(* A fold over nothing is where it starts.                                  *)
LEMMA ThroughNothing ==
  ASSUME NEW W, NEW C, NEW step \in Steps(W, C), NEW st \in W
  PROVE  Through(step, st, <<>>) = st
  <1> DEFINE s == <<>>
  <1>1. s \in Seq(C) /\ Len(s) = 0 /\ 1..Len(s) = {}
    OBVIOUS
  <1> HIDE DEF s
  <1>2. PICK h : IsTable(h, W, step, st, s)
    BY <1>1, FoldTable
  <1>5. s \in Seq(C)
    BY <1>1
  <1>3. Through(step, st, s) = h[1..Len(s)]
    BY <1>5, <1>2, ThroughIs
  <1>4. h[{}] = st
    BY <1>2 DEF IsTable
  <1> QED BY <1>1, <1>3, <1>4 DEF s

(* A fold stays among its states.                                           *)
LEMMA ThroughType ==
  ASSUME NEW W, NEW C, NEW step \in Steps(W, C), NEW st \in W, NEW s \in Seq(C)
  PROVE  Through(step, st, s) \in W
  <1>2. PICK h : IsTable(h, W, step, st, s)
    BY FoldTable
  <1>3. Through(step, st, s) = h[1..Len(s)]
    BY <1>2, ThroughIs
  <1> QED BY <1>2, <1>3 DEF IsTable

(* A fold over a sequence made longer takes one step more.                  *)
LEMMA ThroughMore ==
  ASSUME NEW W, NEW C, NEW step \in Steps(W, C), NEW st \in W, NEW s \in Seq(C),
         NEW c \in C
  PROVE  Through(step, st, Append(s, c)) = step[<<Through(step, st, s), c>>]
  <1> DEFINE z == Append(s, c)
  <1>1. z \in Seq(C) /\ Len(z) = Len(s) + 1 /\ z[Len(z)] = c /\ Len(s) \in Nat
        /\ \A i \in 1..Len(s) : z[i] = s[i]
    OBVIOUS
  <1> HIDE DEF z
  <1>2. PICK h : IsTable(h, W, step, st, z)
    BY <1>1, FoldTable
  <1>3. Through(step, st, z) = h[1..Len(z)]
    BY <1>1, <1>2, ThroughIs
  <1>4. h[1..Len(z)] = step[<<h[1..Len(s)], c>>]
    <2>1. 1..Len(z) # {} /\ Max(1..Len(z)) = Len(z) /\ Rest(1..Len(z)) = 1..(Len(z) - 1)
      BY <1>1, Stretch
    <2>2. Len(z) - 1 = Len(s)
      BY <1>1
    <2> QED BY <1>1, <1>2, <2>1, <2>2 DEF IsTable
  <1> DEFINE g == [t \in SUBSET (1..Len(s)) |-> h[t]]
  <1>5. g \in [SUBSET (1..Len(s)) -> W]
    <2>1. SUBSET (1..Len(s)) \subseteq SUBSET (1..Len(z))
      BY <1>1
    <2> QED BY <1>2, <2>1 DEF IsTable
  <1>6. \A t \in SUBSET (1..Len(s)) :
          g[t] = IF t = {} THEN st ELSE step[<<g[Rest(t)], s[Max(t)]>>]
    <2> SUFFICES ASSUME NEW t \in SUBSET (1..Len(s))
                 PROVE g[t] = IF t = {} THEN st ELSE step[<<g[Rest(t)], s[Max(t)]>>]
      OBVIOUS
    <2>1. t \in SUBSET (1..Len(z)) /\ g[t] = h[t]
      BY <1>1
    <2>2. CASE t = {}
      BY <1>2, <2>1, <2>2 DEF IsTable
    <2>3. CASE t # {}
      <3>1. Max(t) \in 1..Len(s)
        BY <1>1, <2>3, Greatest
      <3>2. Rest(t) \in SUBSET (1..Len(s))
        BY DEF Rest
      <3>3. g[Rest(t)] = h[Rest(t)] /\ z[Max(t)] = s[Max(t)]
        BY <1>1, <3>1, <3>2
      <3>4. h[t] = step[<<h[Rest(t)], z[Max(t)]>>]
        BY <1>2, <2>1, <2>3 DEF IsTable
      <3> QED BY <2>1, <2>3, <3>3, <3>4
    <2> QED BY <2>2, <2>3
  <1>9. IsTable(g, W, step, st, s)
    <2> HIDE DEF g
    <2> QED BY <1>5, <1>6 DEF IsTable
  <1>7. Through(step, st, s) = g[1..Len(s)]
    <2> HIDE DEF g
    <2> QED BY <1>9, ThroughIs
  <1>8. g[1..Len(s)] = h[1..Len(s)]
    OBVIOUS
  <1> QED BY <1>3, <1>4, <1>7, <1>8 DEF z

(* A fold over two sequences, one behind the other, goes through both.      *)
LEMMA ThroughBoth ==
  ASSUME NEW W, NEW C, NEW step \in Steps(W, C), NEW st \in W, NEW a \in Seq(C),
         NEW b \in Seq(C)
  PROVE  Through(step, st, a \o b) = Through(step, Through(step, st, a), b)
  <1> DEFINE T == {x \in Seq(C) : Through(step, st, a \o x)
                                    = Through(step, Through(step, st, a), x)}
  <1>1. Through(step, st, a) \in W
    BY ThroughType
  <1>2. <<>> \in T
    <2>1. a \o <<>> = a
      OBVIOUS
    <2> QED BY <1>1, <2>1, ThroughNothing
  <1>5. \A x \in Seq(C), c \in C :
          Through(step, st, Append(x, c)) = step[<<Through(step, st, x), c>>]
    BY ThroughMore
  <1>3. \A s \in Seq(C), c \in C : s \in T => Append(s, c) \in T
    <2> SUFFICES ASSUME NEW s \in Seq(C), NEW c \in C, s \in T PROVE Append(s, c) \in T
      OBVIOUS
    <2>1. a \o Append(s, c) = Append(a \o s, c) /\ Append(s, c) \in Seq(C)
      OBVIOUS
    <2>4. a \o s \in Seq(C)
      OBVIOUS
    <2>2. Through(step, st, Append(a \o s, c)) = step[<<Through(step, st, a \o s), c>>]
      BY <2>4, <1>5, Zenon
    <2>3. Through(step, Through(step, st, a), Append(s, c))
            = step[<<Through(step, Through(step, st, a), s), c>>]
      BY <1>1, ThroughMore
    <2> QED BY <2>1, <2>2, <2>3
  <1>4. Seq(C) \subseteq T
    <2> HIDE DEF T
    <2> QED BY <1>2, <1>3, SequencesGrow
  <1> QED BY <1>4

(* A fold over one member takes one step.                                   *)
LEMMA ThroughOne ==
  ASSUME NEW W, NEW C, NEW step \in Steps(W, C), NEW st \in W, NEW c \in C
  PROVE  Through(step, st, <<c>>) = step[<<st, c>>]
  <1> DEFINE e == <<>>
  <1>1. <<c>> = Append(e, c)
    OBVIOUS
  <1>2. Through(step, st, e) = st
    BY ThroughNothing
  <1>3. e \in Seq(C)
    OBVIOUS
  <1> HIDE DEF e
  <1>4. Through(step, st, Append(e, c)) = step[<<Through(step, st, e), c>>]
    BY <1>3, ThroughMore
  <1> QED BY <1>1, <1>2, <1>4

(* A fold takes its first step first.                                       *)
LEMMA ThroughNext ==
  ASSUME NEW W, NEW C, NEW step \in Steps(W, C), NEW st \in W, NEW c \in C,
         NEW s \in Seq(C)
  PROVE  Through(step, st, <<c>> \o s) = Through(step, step[<<st, c>>], s)
  <1>1. <<c>> \in Seq(C)
    OBVIOUS
  <1> QED BY <1>1, ThroughOne, ThroughBoth

-----------------------------------------------------------------------------
(* Texts joined.                                                            *)

(* A sequence of sequences put one behind the other is a fold as well.      *)
Join(C) == [x \in Seq(C) \X Seq(C) |-> x[1] \o x[2]]

Nothing == <<>>

(* Joining two texts gives a text.                                          *)
LEMMA JoinType ==
  ASSUME NEW C
  PROVE  Join(C) \in Steps(Seq(C), Seq(C)) /\ Nothing \in Seq(C)
  BY DEF Join, Steps, Nothing

(* FlattenSeq is a fold of joining.                                         *)
LEMMA FlattenIs ==
  ASSUME NEW C, NEW ss \in Seq(Seq(C))
  PROVE  FlattenSeq(ss) = Through(Join(C), Nothing, ss)
  <1> DEFINE n == Len(ss)
             P(g) == g = [i \in 1..n |-> IF i = 1 THEN ss[i] ELSE g[i - 1] \o ss[i]]
             g == CHOOSE x : P(x)
             f == [i \in 1..n |-> Through(Join(C), Nothing, SubSeq(ss, 1, i))]
  <1>0. n \in Nat
    OBVIOUS
  <1>3. Join(C) \in Steps(Seq(C), Seq(C)) /\ Nothing \in Seq(C)
    BY JoinType
  <1>1. CASE n = 0
    <2>1. ss = <<>>
      BY <1>1
    <2>2. FlattenSeq(ss) = ss
      BY <1>1 DEF FlattenSeq
    <2>3. Through(Join(C), Nothing, <<>>) = Nothing
      BY <1>3, ThroughNothing
    <2> QED BY <2>1, <2>2, <2>3 DEF Nothing
  <1>2. CASE n > 0
    <2>1. FlattenSeq(ss) = g[n]
      <3>1. Len(ss) # 0
        BY <1>2
      <3> QED BY <3>1, Zenon DEF FlattenSeq
    <2>2. \A i \in 1..n : i # 1 => /\ f[i] = f[i - 1] \o ss[i]
      <3> SUFFICES ASSUME NEW i \in 1..n, i # 1 PROVE f[i] = f[i - 1] \o ss[i]
        OBVIOUS
      <3> DEFINE a == SubSeq(ss, 1, i - 1)
      <3>1. SubSeq(ss, 1, i) = Append(a, ss[i])
        OBVIOUS
      <3>2. a \in Seq(Seq(C)) /\ ss[i] \in Seq(C) /\ i - 1 \in 1..n
        OBVIOUS
      <3>3. f[i - 1] = Through(Join(C), Nothing, a) /\ f[i] = Through(Join(C), Nothing, Append(a, ss[i]))
        BY <3>1, <3>2
      <3> HIDE DEF a, f
      <3>4. Through(Join(C), Nothing, Append(a, ss[i])) = Join(C)[<<Through(Join(C), Nothing, a), ss[i]>>]
        BY <3>2, <1>3, ThroughMore
      <3>5. Through(Join(C), Nothing, a) \in Seq(C)
        BY <3>2, <1>3, ThroughType
      <3> QED BY <3>2, <3>3, <3>4, <3>5 DEF Join
    <2>3. f[1] = ss[1]
      <3>0. 1 \in 1..n /\ ss[1] \in Seq(C)
        BY <1>0, <1>2
      <3>1. SubSeq(ss, 1, 1) = <<ss[1]>>
        <4> DEFINE a == SubSeq(ss, 1, 1)
        <4>1. a \in Seq(Seq(C)) /\ Len(a) = 1 /\ a[1] = ss[1]
          BY <1>0, <1>2
        <4> HIDE DEF a
        <4>2. a = <<a[1]>>
          BY <4>1
        <4> QED BY <4>1, <4>2 DEF a
      <3>2. f[1] = Through(Join(C), Nothing, <<ss[1]>>)
        BY <3>0, <3>1
      <3>3. Through(Join(C), Nothing, <<ss[1]>>) = Join(C)[<<Nothing, ss[1]>>]
        BY <3>0, <1>3, ThroughOne
      <3>4. Join(C)[<<Nothing, ss[1]>>] = Nothing \o ss[1]
        BY <1>3, <3>0 DEF Join
      <3> QED BY <3>0, <3>2, <3>3, <3>4 DEF Nothing
    <2>4. f = [i \in 1..n |-> IF i = 1 THEN ss[i] ELSE f[i - 1] \o ss[i]]
      <3>1. f = [i \in 1..n |-> f[i]]
        OBVIOUS
      <3>2. \A i \in 1..n : f[i] = IF i = 1 THEN ss[i] ELSE f[i - 1] \o ss[i]
        <4> HIDE DEF f
        <4> QED BY <2>2, <2>3
      <3> HIDE DEF f, n
      <3> QED BY <3>1, <3>2, Zenon
    <2>5. P(f)
      BY <2>4
    <2>6. P(g)
      <3> HIDE DEF P, f
      <3> QED BY <2>5, Zenon
    <2>7. \A i \in 1..n : g[i] = IF i = 1 THEN ss[i] ELSE g[i - 1] \o ss[i]
      <3> HIDE DEF g, f, n
      <3> QED BY <2>6
    <2> DEFINE N == {i \in 1..n : g[i] # f[i]}
    <2>8. N = {}
      <3> SUFFICES ASSUME N # {} PROVE FALSE
        BY Zenon
      <3> HIDE DEF g, f
      <3>1. N \in SUBSET Nat
        OBVIOUS
      <3>2. PICK k \in N : \A j \in N : k <= j
        <4> HIDE DEF N
        <4> QED BY <3>1, Least
      <3>3. k \in 1..n /\ g[k] # f[k]
        BY <3>2
      <3>4. k # 1 => g[k - 1] = f[k - 1]
        <4> SUFFICES ASSUME k # 1 PROVE g[k - 1] = f[k - 1]
          OBVIOUS
        <4>1. k - 1 \in 1..n /\ ~(k <= k - 1)
          BY <3>3
        <4> QED BY <3>2, <4>1
      <3> HIDE DEF N
      <3> QED BY <2>2, <2>3, <2>7, <3>3, <3>4
    <2>9. g[n] = f[n]
      <3> HIDE DEF g, f
      <3> QED BY <1>0, <1>2, <2>8
    <2>10. f[n] = Through(Join(C), Nothing, ss)
      <3>1. SubSeq(ss, 1, n) = ss /\ n \in 1..n
        BY <1>0, <1>2
      <3> QED BY <3>1
    <2> HIDE DEF g, f
    <2> QED BY <2>1, <2>9, <2>10
  <1> QED BY <1>0, <1>1, <1>2

(* FlattenSeq of texts and one more is what it was with that text behind    *)
(* it.                                                                      *)
LEMMA FlattenMore ==
  ASSUME NEW C, NEW ss \in Seq(Seq(C)), NEW x \in Seq(C)
  PROVE  /\ FlattenSeq(ss) \in Seq(C)
         /\ FlattenSeq(Append(ss, x)) = FlattenSeq(ss) \o x
  <1>0. Join(C) \in Steps(Seq(C), Seq(C)) /\ Nothing \in Seq(C)
    BY JoinType
  <1>1. FlattenSeq(ss) = Through(Join(C), Nothing, ss)
    BY FlattenIs
  <1>2. FlattenSeq(ss) \in Seq(C)
    BY <1>0, <1>1, ThroughType
  <1>3. Append(ss, x) \in Seq(Seq(C))
    OBVIOUS
  <1>4. FlattenSeq(Append(ss, x)) = Through(Join(C), Nothing, Append(ss, x))
    BY <1>3, FlattenIs
  <1>5. Through(Join(C), Nothing, Append(ss, x)) = Join(C)[<<Through(Join(C), Nothing, ss), x>>]
    BY <1>0, ThroughMore
  <1> QED BY <1>1, <1>2, <1>4, <1>5 DEF Join

(* FlattenSeq of no texts is no text.                                       *)
LEMMA FlattenNothing == FlattenSeq(<<>>) = <<>>
  BY DEF FlattenSeq

-----------------------------------------------------------------------------
(* Answers: what is on its way to the client.                               *)

(* An answer on its way: a head, a body without a blank line, and the blank *)
(* line that ends it.                                                       *)
Lines == [k : {"row", "form", "bang", "at", "blank"}, of : Nat]

Content == {l \in Lines : l.k # "blank" /\ l.of = calls}

Whole == /\ meant \in {"ok", "err"}
         /\ \E head \in Heads(meant), body \in Seq(Content) :
              stream = head \o body \o <<Blank>>

(* The least position of a set of positions.                                *)
LEMMA LeastIs ==
  ASSUME NEW I \in SUBSET Nat, NEW m \in I, \A i \in I : m <= i
  PROVE  Min(I) = m
  <1>1. \E i \in I : \A j \in I : i <= j
    OBVIOUS
  <1>2. Min(I) \in I /\ \A j \in I : Min(I) <= j
    BY <1>1 DEF Min
  <1>3. Min(I) <= m /\ m <= Min(I) /\ Min(I) \in Nat
    BY <1>2
  <1> QED BY <1>3

(* A client that is sent a whole answer reads that answer and leaves        *)
(* nothing.                                                                 *)
LEMMA WholeIsRead ==
  ASSUME NEW head \in Heads(meant), NEW body \in Seq(Content), calls \in Nat,
         meant \in {"ok", "err"}, stream = head \o body \o <<Blank>>
  PROVE  /\ Envelope = Len(head) /\ End = Len(stream)
         /\ Reading = [result |-> meant, of |-> calls, body |-> body, rest |-> <<>>]
  <1> DEFINE h == Len(head)
             b == Len(body)
  <1>0. \/ head = <<Line("ok")>> /\ meant = "ok"
        \/ head = <<Line("err")>> /\ meant = "err"
        \/ head = <<Line("warn"), Line("ok")>> /\ meant = "ok"
    <2>1. CASE meant = "ok"
      BY <2>1 DEF Heads
    <2>2. CASE meant = "err"
      BY <2>2 DEF Heads
    <2> QED BY <2>1, <2>2
  <1>1. /\ head[h] = Line(meant)
        /\ h \in {1, 2}
        /\ h = 2 => head[1] = Line("warn")
    <2>1. CASE head = <<Line("ok")>> /\ meant = "ok"
      BY <2>1
    <2>2. CASE head = <<Line("err")>> /\ meant = "err"
      BY <2>2
    <2>3. CASE head = <<Line("warn"), Line("ok")>> /\ meant = "ok"
      BY <2>3
    <2> QED BY <1>0, <2>1, <2>2, <2>3
  <1>a. \E x : head = <<x>> \/ \E y : head = <<x, y>>
    BY <1>0
  <1>2. /\ Len(stream) = h + b + 1 /\ h \in Nat /\ b \in Nat
        /\ \A i \in 1..h : stream[i] = head[i]
        /\ \A i \in 1..b : stream[h + i] = body[i] /\ body[i] \in Content
        /\ stream[h + b + 1] = Blank
    BY <1>1
  <1>3. stream[h] = Line(meant) /\ (h = 2 => stream[1] = Line("warn"))
    <2> HIDE DEF h, b
    <2> QED BY <1>1, <1>2
  <1>4. stream[h].k = meant /\ stream[h].of = calls /\ (h = 2 => stream[1].k = "warn")
    <2>1. Line(meant).k = meant /\ Line(meant).of = calls /\ Line("warn").k = "warn"
      BY DEF Line
    <2> QED BY <1>3, <2>1
  <1>5. Envelope = h
    <2> DEFINE I == {i \in 1..Len(stream) : stream[i].k \notin {"blank", "warn"}}
    <2>1. I \in SUBSET Nat /\ h \in I /\ \A i \in I : h <= i
      <3> HIDE DEF h, b
      <3>1. stream[h].k \notin {"blank", "warn"} /\ h \in 1..Len(stream)
        <4>1. stream[h].k \notin {"blank", "warn"}
          BY <1>4
        <4>2. h \in 1..Len(stream)
          BY <1>1, <1>2
        <4> QED BY <4>1, <4>2
      <3>2. \A i \in 1..Len(stream) : i < h => i \notin I
        BY <1>1, <1>2, <1>4
      <3> QED BY <1>1, <1>2, <3>1, <3>2
    <2>2. Min(I) = h
      <3> HIDE DEF I, h
      <3> QED BY <2>1, LeastIs
    <2> QED BY <2>1, <2>2 DEF Envelope, SelectInSeq
  <1>6. End = h + b + 1
    <2> DEFINE I == {i \in h + 1..Len(stream) : stream[i].k = "blank"}
    <2>1. \A i \in h + 1..h + b : stream[i].k # "blank"
      <3> SUFFICES ASSUME NEW i \in h + 1..h + b PROVE stream[i].k # "blank"
        OBVIOUS
      <3>1. i - h \in 1..b /\ i = h + (i - h)
        BY <1>2
      <3>2. stream[i] = body[i - h] /\ body[i - h] \in Content
        BY <1>2, <3>1
      <3> QED BY <3>2 DEF Content
    <2>2. stream[h + b + 1].k = "blank"
      BY <1>2 DEF Blank, Line
    <2>3. I \in SUBSET Nat /\ h + b + 1 \in I /\ \A i \in I : h + b + 1 <= i
      BY <1>2, <2>1, <2>2
    <2>4. Min(I) = h + b + 1
      <3> HIDE DEF I, h, b
      <3> QED BY <2>3, LeastIs
    <2> QED BY <1>5, <2>3, <2>4 DEF End, SelectInSubSeq
  <1>7. SubSeq(stream, h + 1, h + b) = body
    <2> SUFFICES ASSUME NEW i \in 1..b PROVE SubSeq(stream, h + 1, h + b)[i] = body[i]
      BY <1>2
    <2> QED BY <1>2
  <1>8. SubSeq(stream, h + b + 2, Len(stream)) = <<>>
    BY <1>2
  <1> HIDE DEF h, b
  <1>9. Envelope # 0 /\ End # 0
    BY <1>1, <1>2, <1>5, <1>6
  <1>10. SubSeq(stream, Envelope + 1, End - 1) = body /\ SubSeq(stream, End + 1, Len(stream)) = <<>>
    <2>1. End - 1 = h + b /\ End + 1 = h + b + 2
      BY <1>2, <1>6
    <2> QED BY <1>5, <1>7, <1>8, <2>1
  <1>11. stream[Envelope].k = meant /\ stream[Envelope].of = calls
    BY <1>4, <1>5
  <1>12. Reading = [result |-> stream[Envelope].k, of |-> stream[Envelope].of,
                   body |-> SubSeq(stream, Envelope + 1, End - 1),
                   rest |-> SubSeq(stream, End + 1, Len(stream))]
    BY <1>9, <1>11 DEF Reading
  <1> QED BY <1>2, <1>5, <1>6, <1>10, <1>11, <1>12 DEF h, b

(* The kinds of body handlers answer with.                                  *)
BodyKinds == {"none", "line", "rows", "text", "bare", "form"}

Kinded(needs) == \A n \in needs : n.body \in BodyKinds

(* Every handler answers with a body of one of the kinds.                   *)
LEMMA TablesKinded ==
  /\ \A p \in DOMAIN lifecycle_handlers : Kinded(lifecycle_handlers[p])
  /\ \A p \in DOMAIN read_handlers : Kinded(read_handlers[p])
  /\ \A p \in DOMAIN page_handlers : Kinded(page_handlers[p])
  /\ \A p \in DOMAIN store_handlers : Kinded(store_handlers[p])
  /\ \A p \in DOMAIN media_handlers : Kinded(media_handlers[p])
  /\ \A p \in DOMAIN screen_handlers : Kinded(screen_handlers[p])
  /\ \A p \in DOMAIN cursor_handlers : Kinded(cursor_handlers[p])
  /\ \A p \in DOMAIN prompt_handlers : Kinded(prompt_handlers[p])
  /\ \A p \in DOMAIN record_handlers : Kinded(record_handlers[p])
  /\ \A p \in DOMAIN pending_handlers : Kinded(pending_handlers[p])
  /\ Kinded(handle_auth) /\ Kinded(handle_inspect)
  <1>1. \A p \in DOMAIN lifecycle_handlers : Kinded(lifecycle_handlers[p])
    BY DEF lifecycle_handlers, Kinded, Need, BodyKinds
  <1>2. \A p \in DOMAIN read_handlers : Kinded(read_handlers[p])
    BY DEF read_handlers, handle_view, Kinded, Need, BodyKinds
  <1>3. \A p \in DOMAIN page_handlers : Kinded(page_handlers[p])
    BY DEF page_handlers, handle_act, handle_wait, Kinded, Need, BodyKinds
  <1>4. \A p \in DOMAIN store_handlers : Kinded(store_handlers[p])
    BY DEF store_handlers, Kinded, Need, BodyKinds
  <1>5. \A p \in DOMAIN media_handlers : Kinded(media_handlers[p])
    BY DEF media_handlers, handle_skill, Kinded, Need, BodyKinds
  <1>6. \A p \in DOMAIN screen_handlers : Kinded(screen_handlers[p])
    BY DEF screen_handlers, Kinded, Need, BodyKinds
  <1>7. \A p \in DOMAIN cursor_handlers : Kinded(cursor_handlers[p])
    BY DEF cursor_handlers, handle_cursor, Kinded, Need, BodyKinds
  <1>8. \A p \in DOMAIN prompt_handlers : Kinded(prompt_handlers[p])
    BY DEF prompt_handlers, Kinded, Need, BodyKinds
  <1>9. \A p \in DOMAIN record_handlers : Kinded(record_handlers[p])
    BY DEF record_handlers, Kinded, Need, BodyKinds
  <1>10. \A p \in DOMAIN pending_handlers : Kinded(pending_handlers[p])
    BY DEF pending_handlers, Kinded, Need, BodyKinds
  <1>11. Kinded(handle_auth)
    BY DEF handle_auth, Kinded, Need, BodyKinds
  <1>12. Kinded(handle_inspect)
    BY DEF handle_inspect, inspect_buffers, inspect_page, inspect_counters, Kinded, Need,
           BodyKinds
  <1> QED BY <1>1, <1>2, <1>3, <1>4, <1>5, <1>6, <1>7, <1>8, <1>9, <1>10, <1>11, <1>12

(* Every handler answers with one of the kinds of body.                     *)
LEMMA DispatchKinded ==
  \A p \in Known : Kinded(dispatch[p])
  <1> SUFFICES ASSUME NEW p \in Known PROVE Kinded(dispatch[p])
    OBVIOUS
  <1> QED BY TablesKinded DEF dispatch, Known

(* What keeps a connection in step: as long as nothing on it was torn, it   *)
(* holds one whole answer while a call waits for it, and nothing otherwise, *)
(* and a call returned what the daemon meant, or failed.                    *)
InStep ==
    /\ TypeOK
    /\ phase = "served" /\ ~torn => Whole
    /\ phase # "served" /\ ~torn => stream = <<>>
    /\ phase = "done" /\ ~torn =>
         \/ answer.result = "fail"
         \/ answer.result = meant /\ meant \in {"ok", "err"}

USE DEF TypeOK

(* Nothing is on its way at first.                                          *)
LEMMA InStepInit == ConnectionInit => InStep
  <1> SUFFICES ASSUME ConnectionInit PROVE InStep
    OBVIOUS
  <1>1. MaxCalls \in Nat /\ MaxLosses \in Nat
    BY ConnectionAssumption
  <1>2. calls \in 0..MaxCalls /\ losses \in 0..MaxLosses /\ answer.result = "none"
        /\ phase = "idle" /\ stream = <<>> /\ torn = FALSE /\ meant = "none"
    BY <1>1 DEF ConnectionInit, NoAnswer
  <1> QED BY <1>2 DEF InStep

(* Raw text is lines, and content unless it has a blank one.                *)
LEMMA RawIsContent ==
  ASSUME NEW text \in Raw, calls \in Nat
  PROVE  /\ text \in Seq(Lines)
         /\ (\A i \in DOMAIN text : text[i].k # "blank") => text \in Seq(Content)
  <1>1. Row \in Content /\ Bang \in Content
    BY DEF Row, Bang, Line, Content, Lines
  <1>2. {Row, Blank, At, Bang} \subseteq Lines /\ Blank.k = "blank"
    BY DEF Row, Blank, At, Bang, Line, Lines
  <1>3. \/ text = <<Row>> \/ text = <<Bang>>
        \/ text = <<Row, Blank, Row>> \/ text = <<Row, Blank, At>>
    BY DEF Raw
  <1> HIDE DEF Content, Lines
  <1>4. /\ <<Row>> \in Seq(Content) /\ <<Bang>> \in Seq(Content)
        /\ <<Row>> \in Seq(Lines) /\ <<Bang>> \in Seq(Lines)
        /\ <<Row, Blank, Row>> \in Seq(Lines) /\ <<Row, Blank, At>> \in Seq(Lines)
    BY <1>1, <1>2
  <1>5. CASE text = <<Row>> \/ text = <<Bang>>
    BY <1>4, <1>5
  <1>6. CASE text = <<Row, Blank, Row>> \/ text = <<Row, Blank, At>>
    <2>1. 2 \in DOMAIN text /\ text[2] = Blank
      BY <1>6
    <2> QED BY <1>2, <1>4, <1>6, <2>1
  <1> QED BY <1>3, <1>5, <1>6

(* An answer without a blank line is content.                               *)
LEMMA BodyIsContent ==
  ASSUME NEW kind \in BodyKinds \ {"bare"}, NEW body \in Bodies(kind), calls \in Nat,
         MaxForm \in Nat, \A i \in DOMAIN body : body[i].k # "blank"
  PROVE  body \in Seq(Content)
  <1>1. Row \in Content
    BY DEF Row, Line, Content, Lines
  <1>2. Line("form") \in Content
    BY DEF Line, Content, Lines
  <1>3. CASE kind \in {"none", "line", "rows"}
    <2>1. body \in {<<>>, <<Row>>, <<Row, Row>>}
      BY <1>3 DEF Bodies
    <2>2. <<>> \in Seq(Content) /\ <<Row>> \in Seq(Content) /\ <<Row, Row>> \in Seq(Content)
      <3> HIDE DEF Content
      <3> QED BY <1>1
    <2> QED BY <2>1, <2>2
  <1>4. CASE kind = "text"
    BY <1>4, RawIsContent DEF Bodies
  <1>5. CASE kind = "form"
    <2>1. CASE \E n \in 0..MaxForm : body = [i \in 1..n |-> Line("form")]
      BY <1>2, <2>1
    <2>2. CASE \E text \in Raw : body = <<Line("form")>> \o text
      <3>1. PICK text \in Raw : body = <<Line("form")>> \o text
        BY <2>2
      <3>2. text \in Seq(Lines)
        BY RawIsContent
      <3>3. \A i \in DOMAIN text : i + 1 \in DOMAIN body /\ body[i + 1] = text[i]
        BY <3>1, <3>2
      <3>4. text \in Seq(Content)
        BY <3>3, RawIsContent
      <3> HIDE DEF Content
      <3>5. <<Line("form")>> \in Seq(Content)
        BY <1>2
      <3>6. <<Line("form")>> \o text \in Seq(Content)
        BY <3>4, <3>5
      <3> QED BY <3>1, <3>6
    <2> QED BY <1>5, <2>1, <2>2 DEF Bodies
  <1> QED BY <1>3, <1>4, <1>5 DEF BodyKinds

(* An answer written on an orderly stream is the only one on it.            *)
LEMMA ToldKeeps ==
  ASSUME InStep, Arrives, NEW result, NEW head \in Heads(result), NEW body,
         result \in {"ok", "err", "bare"},
         result # "bare" /\ (\A i \in DOMAIN body : body[i].k # "blank")
           => body \in Seq(Content),
         Told(result, head, body)
  PROVE  InStep'
  <1>1. TypeOK'
    BY DEF InStep, Arrives, Told
  <1>2. phase' = "served" /\ phase = "sent" /\ calls' = calls /\ meant' = result
    BY DEF Arrives, Told
  <1>3. ASSUME ~torn' PROVE Whole'
    <2>1. ~torn /\ result # "bare" /\ \A i \in DOMAIN body : body[i].k # "blank"
      BY <1>3 DEF Told
    <2>2. stream = <<>> /\ body \in Seq(Content)
      BY <1>2, <2>1 DEF InStep
    <2>3. stream' = head \o body \o <<Blank>>
      <3>1. \E x, y : head = <<x>> \/ head = <<x, y>>
        <4>1. result = "ok" \/ result = "err"
          BY <2>1
        <4>2. CASE result = "ok"
          BY <4>2 DEF Heads
        <4>3. CASE result = "err"
          BY <4>3 DEF Heads
        <4> QED BY <4>1, <4>2, <4>3
      <3> QED BY <2>2, <3>1 DEF Told, Writes
    <2>4. (Heads(result))' = Heads(result) /\ Content' = Content /\ Blank' = Blank
      BY <1>2 DEF Heads, Line, Content, Blank
    <2>5. meant' \in {"ok", "err"} /\ head \in (Heads(result))' /\ body \in (Seq(Content))'
      BY <1>2, <2>1, <2>2, <2>4
    <2> QED BY <1>2, <2>3, <2>4, <2>5 DEF Whole
  <1> QED BY <1>1, <1>2, <1>3 DEF InStep

USE DEF TypeOK

(* What a call that is not blocked returns.                                 *)
LEMMA ReadingResults ==
  ASSUME Complete(Reading)
  PROVE  /\ Reading.result \in {"ok", "err", "fail"}
         /\ Reading.result = "fail" => Reading.rest = <<>>
  <1>1. CASE Envelope = 0
    BY <1>1 DEF Complete, Reading, Blocked
  <1>2. CASE Envelope # 0 /\ stream[Envelope].k \notin {"ok", "err"}
    BY <1>2 DEF Reading
  <1>3. CASE Envelope # 0 /\ stream[Envelope].k \in {"ok", "err"} /\ End = 0
    BY <1>3 DEF Complete, Reading, Blocked
  <1>4. CASE Envelope # 0 /\ stream[Envelope].k \in {"ok", "err"} /\ End # 0
    <2>1. Reading.result = stream[Envelope].k
      BY <1>4 DEF Reading
    <2> QED BY <1>4, <2>1
  <1> QED BY <1>1, <1>2, <1>3, <1>4

(* Every step keeps answers in step.                                        *)
LEMMA InStepNext ==
  ASSUME InStep, [ConnectionNext]_connectionVars
  PROVE  InStep'
  <1>0. MaxCalls \in Nat /\ MaxLosses \in Nat /\ MaxForm \in Nat /\ calls \in Nat
    BY ConnectionAssumption DEF InStep
  <1>1. ASSUME NEW q \in CommandRequests, NEW text \in Sayable(q), Send(q, text) PROVE InStep'
    BY <1>0, <1>1 DEF InStep, Send
  <1>2. CASE Serve
    <2>1. Arrives
      BY <1>2 DEF Serve
    <2>2. CASE Refuses
      <3>1. PICK body \in {<<>>, <<Row, Blank, Row>>} : Told("err", <<Line("err")>>, body)
        BY <2>2 DEF Refuses
      <3>2. <<Line("err")>> \in Heads("err")
        BY DEF Heads
      <3>3. (\A i \in DOMAIN body : body[i].k # "blank") => body \in Seq(Content)
        <4>1. Blank.k = "blank"
          BY DEF Blank, Line
        <4>2. CASE body = <<Row, Blank, Row>>
          BY <4>1, <4>2
        <4>3. CASE body = <<>>
          BY <4>3
        <4> QED BY <4>2, <4>3
      <3> HIDE DEF InStep
      <3> QED BY <2>1, <3>1, <3>2, <3>3, ToldKeeps
    <2>3. ASSUME NEW need \in Understood, NEW body \in Bodies(need.body), Succeeds(need, body)
          PROVE  InStep'
      <3> DEFINE result == IF need.body = "bare" THEN "bare" ELSE "ok"
      <3>1. PICK head \in Heads(result) : Told(result, head, body)
        BY <2>3 DEF Succeeds
      <3>2. need.body \in BodyKinds
        BY DispatchKinded DEF Understood, Serves, Kinded
      <3>3. result # "bare" /\ (\A i \in DOMAIN body : body[i].k # "blank")
              => body \in Seq(Content)
        <4>1. result # "bare" => need.body \in BodyKinds \ {"bare"}
          BY <3>2
        <4> QED BY <1>0, <4>1, BodyIsContent
      <3>4. result \in {"ok", "err", "bare"}
        OBVIOUS
      <3> HIDE DEF result
      <3> QED BY <2>1, <3>1, <3>3, <3>4, ToldKeeps
    <2> QED BY <1>2, <2>2, <2>3 DEF Serve
  <1>3. CASE Receive
    <2>1. Reading.result \in {"ok", "err", "fail"}
          /\ (Reading.result = "fail" => Reading.rest = <<>>)
      BY <1>3, ReadingResults DEF Receive
    <2>2. phase = "served" /\ phase' = "done" /\ answer'.result = Reading.result
          /\ stream' = Reading.rest /\ torn' = (torn /\ Reading.result # "fail")
          /\ UNCHANGED <<meant, calls, losses>>
      BY <1>3 DEF Receive
    <2>3. TypeOK'
      BY <2>1, <2>2 DEF InStep
    <2>4. ASSUME ~torn PROVE /\ Reading.result = meant /\ Reading.rest = <<>>
                             /\ meant \in {"ok", "err"}
      <3>1. Whole
        BY <2>2, <2>4 DEF InStep
      <3>2. PICK head \in Heads(meant), body \in Seq(Content) :
              stream = head \o body \o <<Blank>>
        BY <3>1 DEF Whole
      <3>3. Reading = [result |-> meant, of |-> calls, body |-> body, rest |-> <<>>]
        BY <1>0, <3>1, <3>2, WholeIsRead DEF Whole
      <3> QED BY <3>1, <3>3 DEF Whole
    <2> QED BY <2>1, <2>2, <2>3, <2>4 DEF InStep
  <1>4. CASE GoesOn
    BY <1>4 DEF InStep, GoesOn, Forgotten, NoAnswer
  <1>5. CASE Disconnect
    BY <1>5 DEF InStep, Disconnect, Forgotten, Reset, NoAnswer
  <1>6. CASE Lose
    <2>1. losses' \in 0..MaxLosses
      BY <1>0, <1>6 DEF InStep, Lose
    <2>2. phase' = "done" /\ stream' = <<>> /\ torn' = FALSE /\ answer'.result = "fail"
          /\ UNCHANGED <<meant, calls>>
      BY <1>6 DEF Lose, Reset, NoAnswer
    <2> QED BY <2>1, <2>2 DEF InStep
  <1>7. CASE Restart
    <2>1. losses' \in 0..MaxLosses
      BY <1>0, <1>7 DEF InStep, Restart
    <2>2. phase' = "idle" /\ stream' = <<>> /\ torn' = FALSE /\ answer'.result = "none"
          /\ meant' = "none" /\ calls' = calls
      BY <1>7 DEF Restart, Forgotten, Reset, NoAnswer
    <2> QED BY <2>1, <2>2 DEF InStep
  <1>8. CASE UNCHANGED connectionVars
    <2>1. Whole' = Whole
      BY <1>8 DEF connectionVars, Whole, Heads, Line, Content, Blank
    <2> QED BY <1>8, <2>1 DEF InStep, connectionVars
  <1> QED BY <1>1, <1>2, <1>3, <1>4, <1>5, <1>6, <1>7, <1>8 DEF ConnectionNext

(* Client and tool report what became of their own request.                 *)
LEMMA InStepIsTrue == InStep => AnswersTrue
  <1> SUFFICES ASSUME InStep PROVE AnswersTrue
    OBVIOUS
  <1>0. MaxCalls \in Nat /\ calls \in Nat
    BY ConnectionAssumption DEF InStep
  <1>1. AnswersInStep
    <2> SUFFICES ASSUME phase = "served", ~torn
                 PROVE /\ Reading.result = meant /\ Reading.of = calls /\ Reading.rest = <<>>
                       /\ \A i \in DOMAIN Reading.body : Reading.body[i].of = calls
      BY DEF AnswersInStep
    <2>1. Whole
      BY DEF InStep
    <2>2. PICK head \in Heads(meant), body \in Seq(Content) :
            stream = head \o body \o <<Blank>>
      BY <2>1 DEF Whole
    <2>3. Reading = [result |-> meant, of |-> calls, body |-> body, rest |-> <<>>]
      BY <1>0, <2>1, <2>2, WholeIsRead DEF Whole
    <2>4. \A i \in DOMAIN body : body[i].of = calls
      BY DEF Content
    <2> QED BY <2>3, <2>4
  <1>2. ToolReportsFailure
    BY DEF ToolReportsFailure, ToolFailed, InStep
  <1> QED BY <1>1, <1>2 DEF AnswersTrue, InStep

(* Client and tool report what became of their own request, however many    *)
(* calls are made, whatever is lost and however long the answers are: the   *)
(* reader of Client::call and the writer of handle_connection agree.        *)
THEOREM AnswersTrueTheorem == ConnectionSpec => []AnswersTrue
  <1>1. ConnectionInit => InStep
    BY InStepInit
  <1>2. InStep /\ [ConnectionNext]_connectionVars => InStep'
    BY InStepNext
  <1>3. InStep => AnswersTrue
    BY InStepIsTrue
  <1> QED BY <1>1, <1>2, <1>3, PTL DEF ConnectionSpec

-----------------------------------------------------------------------------
(* Commands: the requests they build, and the handlers that take them.      *)

(* The words arguments are made of, and the names of flags.                 *)
Words == {"session", "text", "page", "ref", "mark", "click", "submit", "fill", "key",
          "stable", "net-idle", "token-change", "gone", "containing", "schema", "target",
          "list", "show", "spec", "webauthn", "import", "blob", "save", "load", "clear",
          "console", "network", "request", "eval", "storage", "scope", "scripts", "script",
          "dom", "performance", "cookie-events", "num", "form", "id", "stop", "start",
          "field"}

FlagNames == {"session", "policy", "all", "idle-for", "full", "token", "mode", "group",
              "timeout", "page", "since", "limit", "full-page", "list", "timeout-ms", "dest",
              "id", "dpr", "unsafe-log", "secret", "fps", "width", "retina"}

(* What a command asks for is a request made of them that its handler takes *)
(* and, outside vs_inspect, no flag of which is ignored.                    *)
Fits(na, a) == Len(na) <= Len(a) /\ \A i \in DOMAIN na : a[i] \in na[i]

Answerable(q) == \E need \in dispatch[q.primitive] :
                    /\ Fits(need.args, q.args)
                    /\ need.flags \subseteq q.flags
                    /\ q.primitive # "vs_inspect" => q.flags \subseteq need.flags \cup need.reads

Worded(q) == /\ q = [primitive |-> q.primitive, args |-> q.args, flags |-> q.flags]
             /\ q.primitive \in Known
             /\ q.args \in Seq(Words) /\ q.flags \in SUBSET FlagNames

Good(q) == Worded(q) /\ Answerable(q)

(* A request that fits one of the needs of its handler is good.             *)
LEMMA AskIsGood ==
  ASSUME NEW p \in Known, NEW a \in Seq(Words), NEW f \in SUBSET FlagNames,
         NEW na, NEW nf, NEW nr, NEW nb, Need(na, nf, nr, nb) \in dispatch[p],
         Fits(na, a), nf \subseteq f, p # "vs_inspect" => f \subseteq nf \cup nr
  PROVE  Good(Ask(p, a, f))
  <1>1. Ask(p, a, f).primitive = p /\ Ask(p, a, f).args = a /\ Ask(p, a, f).flags = f
    BY DEF Ask
  <1> DEFINE n == Need(na, nf, nr, nb)
  <1>2. n.args = na /\ n.flags = nf /\ n.reads = nr
    BY DEF Need
  <1> HIDE DEF n
  <1>3. Answerable(Ask(p, a, f))
    BY <1>1, <1>2 DEF Answerable, n
  <1>4. Worded(Ask(p, a, f))
    BY DEF Worded, Ask
  <1> QED BY <1>3, <1>4 DEF Good

(* ... with no arguments, and with some.                                    *)
LEMMA GoodNone ==
  ASSUME NEW p \in Known, NEW f \in SUBSET FlagNames, NEW nf, NEW nr, NEW nb,
         Need(<<>>, nf, nr, nb) \in dispatch[p],
         nf \subseteq f, p # "vs_inspect" => f \subseteq nf \cup nr
  PROVE  Good(Ask(p, <<>>, f))
  <1> DEFINE x == <<>>
  <1>1. x \in Seq(Words) /\ Fits(x, x) /\ Need(x, nf, nr, nb) \in dispatch[p]
    BY DEF Fits
  <1> HIDE DEF x
  <1>2. Good(Ask(p, x, f))
    BY <1>1, AskIsGood
  <1> QED BY <1>2 DEF x

(* ... with one argument,                                                   *)
LEMMA GoodOne ==
  ASSUME NEW p \in Known, NEW a \in Words,
         NEW r, NEW f \in SUBSET FlagNames, NEW nf, NEW nr, NEW nb,
         Need(<<r>>, nf, nr, nb) \in dispatch[p], a \in r,
         nf \subseteq f, p # "vs_inspect" => f \subseteq nf \cup nr
  PROVE  Good(Ask(p, <<a>>, f))
  <1> DEFINE x == <<a>>
             nx == <<r>>
  <1>1. x \in Seq(Words) /\ Fits(nx, x) /\ Need(nx, nf, nr, nb) \in dispatch[p]
    <2>1. Fits(nx, x)
      BY DEF Fits
    <2>2. x \in Seq(Words)
      OBVIOUS
    <2> QED BY <2>1, <2>2
  <1> HIDE DEF x, nx
  <1>2. Good(Ask(p, x, f))
    BY <1>1, AskIsGood
  <1> QED BY <1>2 DEF x

(* ... two,                                                                 *)
LEMMA GoodTwo ==
  ASSUME NEW p \in Known, NEW a \in Words, NEW b \in Words,
         NEW r, NEW s, NEW f \in SUBSET FlagNames, NEW nf, NEW nr, NEW nb,
         Need(<<r, s>>, nf, nr, nb) \in dispatch[p], a \in r, b \in s,
         nf \subseteq f, p # "vs_inspect" => f \subseteq nf \cup nr
  PROVE  Good(Ask(p, <<a, b>>, f))
  <1> DEFINE x == <<a, b>>
             nx == <<r, s>>
  <1>1. x \in Seq(Words) /\ Fits(nx, x) /\ Need(nx, nf, nr, nb) \in dispatch[p]
    <2>1. Fits(nx, x)
      BY DEF Fits
    <2>2. x \in Seq(Words)
      OBVIOUS
    <2> QED BY <2>1, <2>2
  <1> HIDE DEF x, nx
  <1>2. Good(Ask(p, x, f))
    BY <1>1, AskIsGood
  <1> QED BY <1>2 DEF x

(* ... three,                                                               *)
LEMMA GoodThree ==
  ASSUME NEW p \in Known, NEW a \in Words, NEW b \in Words, NEW c \in Words,
         NEW r, NEW s, NEW t, NEW f \in SUBSET FlagNames, NEW nf, NEW nr, NEW nb,
         Need(<<r, s, t>>, nf, nr, nb) \in dispatch[p], a \in r, b \in s, c \in t,
         nf \subseteq f, p # "vs_inspect" => f \subseteq nf \cup nr
  PROVE  Good(Ask(p, <<a, b, c>>, f))
  <1> DEFINE x == <<a, b, c>>
             nx == <<r, s, t>>
  <1>1. x \in Seq(Words) /\ Fits(nx, x) /\ Need(nx, nf, nr, nb) \in dispatch[p]
    <2>1. Fits(nx, x)
      BY DEF Fits
    <2>2. x \in Seq(Words)
      OBVIOUS
    <2> QED BY <2>1, <2>2
  <1> HIDE DEF x, nx
  <1>2. Good(Ask(p, x, f))
    BY <1>1, AskIsGood
  <1> QED BY <1>2 DEF x

(* ... four,                                                                *)
LEMMA GoodFour ==
  ASSUME NEW p \in Known, NEW a \in Words, NEW b \in Words, NEW c \in Words, NEW d \in Words,
         NEW r, NEW s, NEW t, NEW u, NEW f \in SUBSET FlagNames, NEW nf, NEW nr, NEW nb,
         Need(<<r, s, t, u>>, nf, nr, nb) \in dispatch[p], a \in r, b \in s, c \in t, d \in u,
         nf \subseteq f, p # "vs_inspect" => f \subseteq nf \cup nr
  PROVE  Good(Ask(p, <<a, b, c, d>>, f))
  <1> DEFINE x == <<a, b, c, d>>
             nx == <<r, s, t, u>>
  <1>1. x \in Seq(Words) /\ Fits(nx, x) /\ Need(nx, nf, nr, nb) \in dispatch[p]
    <2>1. Fits(nx, x)
      BY DEF Fits
    <2>2. x \in Seq(Words)
      OBVIOUS
    <2> QED BY <2>1, <2>2
  <1> HIDE DEF x, nx
  <1>2. Good(Ask(p, x, f))
    BY <1>1, AskIsGood
  <1> QED BY <1>2 DEF x

(* ... and five.                                                            *)
LEMMA GoodFive ==
  ASSUME NEW p \in Known, NEW a \in Words, NEW b \in Words, NEW c \in Words, NEW d \in Words, NEW e \in Words,
         NEW r, NEW s, NEW t, NEW u, NEW v, NEW f \in SUBSET FlagNames, NEW nf, NEW nr, NEW nb,
         Need(<<r, s, t, u, v>>, nf, nr, nb) \in dispatch[p], a \in r, b \in s, c \in t, d \in u, e \in v,
         nf \subseteq f, p # "vs_inspect" => f \subseteq nf \cup nr
  PROVE  Good(Ask(p, <<a, b, c, d, e>>, f))
  <1> DEFINE x == <<a, b, c, d, e>>
             nx == <<r, s, t, u, v>>
  <1>1. x \in Seq(Words) /\ Fits(nx, x) /\ Need(nx, nf, nr, nb) \in dispatch[p]
    <2>1. Fits(nx, x)
      BY DEF Fits
    <2>2. x \in Seq(Words)
      OBVIOUS
    <2> QED BY <2>1, <2>2
  <1> HIDE DEF x, nx
  <1>2. Good(Ask(p, x, f))
    BY <1>1, AskIsGood
  <1> QED BY <1>2 DEF x

(* The first of two arguments may be all the handler looks at,              *)
LEMMA GoodOneOfTwo ==
  ASSUME NEW p \in Known, NEW a \in Words, NEW b \in Words,
         NEW r, NEW f \in SUBSET FlagNames, NEW nf, NEW nr, NEW nb,
         Need(<<r>>, nf, nr, nb) \in dispatch[p], a \in r,
         nf \subseteq f, p # "vs_inspect" => f \subseteq nf \cup nr
  PROVE  Good(Ask(p, <<a, b>>, f))
  <1> DEFINE x == <<a, b>>
             nx == <<r>>
  <1>1. x \in Seq(Words) /\ Fits(nx, x) /\ Need(nx, nf, nr, nb) \in dispatch[p]
    <2>1. Fits(nx, x)
      BY DEF Fits
    <2>2. x \in Seq(Words)
      OBVIOUS
    <2> QED BY <2>1, <2>2
  <1> HIDE DEF x, nx
  <1>2. Good(Ask(p, x, f))
    BY <1>1, AskIsGood
  <1> QED BY <1>2 DEF x

(* ... or of three,                                                         *)
LEMMA GoodOneOfThree ==
  ASSUME NEW p \in Known, NEW a \in Words, NEW b \in Words, NEW c \in Words,
         NEW r, NEW f \in SUBSET FlagNames, NEW nf, NEW nr, NEW nb,
         Need(<<r>>, nf, nr, nb) \in dispatch[p], a \in r,
         nf \subseteq f, p # "vs_inspect" => f \subseteq nf \cup nr
  PROVE  Good(Ask(p, <<a, b, c>>, f))
  <1> DEFINE x == <<a, b, c>>
             nx == <<r>>
  <1>1. x \in Seq(Words) /\ Fits(nx, x) /\ Need(nx, nf, nr, nb) \in dispatch[p]
    <2>1. Fits(nx, x)
      BY DEF Fits
    <2>2. x \in Seq(Words)
      OBVIOUS
    <2> QED BY <2>1, <2>2
  <1> HIDE DEF x, nx
  <1>2. Good(Ask(p, x, f))
    BY <1>1, AskIsGood
  <1> QED BY <1>2 DEF x

(* ... or the first two of three.                                           *)
LEMMA GoodTwoOfThree ==
  ASSUME NEW p \in Known, NEW a \in Words, NEW b \in Words, NEW c \in Words,
         NEW r, NEW s, NEW f \in SUBSET FlagNames, NEW nf, NEW nr, NEW nb,
         Need(<<r, s>>, nf, nr, nb) \in dispatch[p], a \in r, b \in s,
         nf \subseteq f, p # "vs_inspect" => f \subseteq nf \cup nr
  PROVE  Good(Ask(p, <<a, b, c>>, f))
  <1> DEFINE x == <<a, b, c>>
             nx == <<r, s>>
  <1>1. x \in Seq(Words) /\ Fits(nx, x) /\ Need(nx, nf, nr, nb) \in dispatch[p]
    <2>1. Fits(nx, x)
      BY DEF Fits
    <2>2. x \in Seq(Words)
      OBVIOUS
    <2> QED BY <2>1, <2>2
  <1> HIDE DEF x, nx
  <1>2. Good(Ask(p, x, f))
    BY <1>1, AskIsGood
  <1> QED BY <1>2 DEF x

(* The words, a few at a time.                                              *)
LEMMA WordsKnown ==
  /\ {"session", "text", "page", "ref", "mark", "click", "submit", "fill", "key"} \subseteq Words
  /\ {"stable", "net-idle", "token-change", "gone", "containing", "schema"} \subseteq Words
  /\ {"target", "list", "show", "spec", "webauthn", "import", "blob", "save"} \subseteq Words
  /\ {"load", "clear", "console", "network", "request", "eval", "storage"} \subseteq Words
  /\ {"scope", "scripts", "script", "dom", "performance", "cookie-events"} \subseteq Words
  /\ {"num", "form", "id", "stop", "start", "field"} \subseteq Words
  BY DEF Words

(* Sequences that agree everywhere are the same.                            *)
LEMMA SameSequence ==
  ASSUME NEW C, NEW x \in Seq(C), NEW y \in Seq(C), Len(x) = Len(y),
         \A i \in 1..Len(x) : x[i] = y[i]
  PROVE  x = y
  OBVIOUS

(* Short sequences beside each other.                                       *)
LEMMA Beside ==
  /\ \A a : <<a>> \o <<>> = <<a>>
  /\ \A a, b : <<a, b>> \o <<>> = <<a, b>>
  /\ \A a, b : <<a>> \o <<b>> = <<a, b>>
  /\ \A a, b, c : <<a>> \o <<b, c>> = <<a, b, c>>
  /\ \A a, b, c : <<a, b>> \o <<c>> = <<a, b, c>>
  /\ \A a, b, c, d : <<a, b>> \o <<c, d>> = <<a, b, c, d>>
  <1>1. ASSUME NEW a PROVE <<a>> \o <<>> = <<a>>
    <2> DEFINE C == {a}
               x == <<a>> \o <<>>
               y == <<a>>
    <2>1. x \in Seq(C) /\ y \in Seq(C) /\ Len(x) = 1 /\ Len(y) = 1
      OBVIOUS
    <2>2. \A i \in 1..1 : x[i] = y[i]
      OBVIOUS
    <2> HIDE DEF x, y, C
    <2>3. x = y
      BY <2>1, <2>2, SameSequence
    <2> QED BY <2>3 DEF x, y
  <1>2. ASSUME NEW a, NEW b PROVE <<a, b>> \o <<>> = <<a, b>>
    <2> DEFINE C == {a, b}
               x == <<a, b>> \o <<>>
               y == <<a, b>>
    <2>1. x \in Seq(C) /\ y \in Seq(C) /\ Len(x) = 2 /\ Len(y) = 2
      OBVIOUS
    <2>2. \A i \in 1..2 : x[i] = y[i]
      OBVIOUS
    <2> HIDE DEF x, y, C
    <2>3. x = y
      BY <2>1, <2>2, SameSequence
    <2> QED BY <2>3 DEF x, y
  <1>3. ASSUME NEW a, NEW b PROVE <<a>> \o <<b>> = <<a, b>>
    <2> DEFINE C == {a, b}
               x == <<a>> \o <<b>>
               y == <<a, b>>
    <2>1. x \in Seq(C) /\ y \in Seq(C) /\ Len(x) = 2 /\ Len(y) = 2
      OBVIOUS
    <2>2. \A i \in 1..2 : x[i] = y[i]
      OBVIOUS
    <2> HIDE DEF x, y, C
    <2>3. x = y
      BY <2>1, <2>2, SameSequence
    <2> QED BY <2>3 DEF x, y
  <1>4. ASSUME NEW a, NEW b, NEW c PROVE <<a>> \o <<b, c>> = <<a, b, c>>
    <2> DEFINE C == {a, b, c}
               x == <<a>> \o <<b, c>>
               y == <<a, b, c>>
    <2>1. x \in Seq(C) /\ y \in Seq(C) /\ Len(x) = 3 /\ Len(y) = 3
      OBVIOUS
    <2>2. \A i \in 1..3 : x[i] = y[i]
      OBVIOUS
    <2> HIDE DEF x, y, C
    <2>3. x = y
      BY <2>1, <2>2, SameSequence
    <2> QED BY <2>3 DEF x, y
  <1>5. ASSUME NEW a, NEW b, NEW c PROVE <<a, b>> \o <<c>> = <<a, b, c>>
    <2> DEFINE C == {a, b, c}
               x == <<a, b>> \o <<c>>
               y == <<a, b, c>>
    <2>1. x \in Seq(C) /\ y \in Seq(C) /\ Len(x) = 3 /\ Len(y) = 3
      OBVIOUS
    <2>2. \A i \in 1..3 : x[i] = y[i]
      OBVIOUS
    <2> HIDE DEF x, y, C
    <2>3. x = y
      BY <2>1, <2>2, SameSequence
    <2> QED BY <2>3 DEF x, y
  <1>6. ASSUME NEW a, NEW b, NEW c, NEW d PROVE <<a, b>> \o <<c, d>> = <<a, b, c, d>>
    <2> DEFINE C == {a, b, c, d}
               x == <<a, b>> \o <<c, d>>
               y == <<a, b, c, d>>
    <2>1. x \in Seq(C) /\ y \in Seq(C) /\ Len(x) = 4 /\ Len(y) = 4
      OBVIOUS
    <2>2. \A i \in 1..4 : x[i] = y[i]
      OBVIOUS
    <2> HIDE DEF x, y, C
    <2>3. x = y
      BY <2>1, <2>2, SameSequence
    <2> QED BY <2>3 DEF x, y
  <1> QED BY <1>1, <1>2, <1>3, <1>4, <1>5, <1>6

(* Every handler is found under its name.                                   *)
Found(table) == \A p \in DOMAIN table : p \in Known /\ dispatch[p] = table[p]

(* dispatch finds every handler of every table.                             *)
LEMMA TablesFound ==
  /\ Found(lifecycle_handlers) /\ Found(read_handlers) /\ Found(page_handlers)
  /\ Found(store_handlers) /\ Found(media_handlers) /\ Found(screen_handlers)
  /\ Found(cursor_handlers) /\ Found(prompt_handlers) /\ Found(record_handlers)
  /\ Found(pending_handlers)
  /\ "vs_auth" \in Known /\ dispatch["vs_auth"] = handle_auth
  /\ "vs_inspect" \in Known /\ dispatch["vs_inspect"] = handle_inspect
  <1> USE DEF lifecycle_handlers, read_handlers, page_handlers, store_handlers,
              media_handlers, screen_handlers, cursor_handlers, prompt_handlers,
              record_handlers, pending_handlers, dispatch, Known
  <1>1. Found(lifecycle_handlers)
    BY DEF Found
  <1>2. Found(read_handlers)
    BY DEF Found
  <1>3. Found(page_handlers)
    BY DEF Found
  <1>4. Found(store_handlers)
    BY DEF Found
  <1>5. Found(media_handlers)
    BY DEF Found
  <1>6. Found(screen_handlers)
    BY DEF Found
  <1>7. Found(cursor_handlers)
    BY DEF Found
  <1>8. Found(prompt_handlers)
    BY DEF Found
  <1>9. Found(record_handlers)
    BY DEF Found
  <1>10. Found(pending_handlers)
    BY DEF Found
  <1>11. "vs_auth" \in Known /\ dispatch["vs_auth"] = handle_auth
    OBVIOUS
  <1>12. "vs_inspect" \in Known /\ dispatch["vs_inspect"] = handle_inspect
    OBVIOUS
  <1> QED BY <1>1, <1>2, <1>3, <1>4, <1>5, <1>6, <1>7, <1>8, <1>9, <1>10, <1>11, <1>12

(* What the session and page commands ask for is good.                      *)
LEMMA LifecycleGood == \A q \in LifecycleRequests : Good(q)
  <1>1. /\ {"vs_session_open", "vs_session_close", "vs_open", "vs_goto", "vs_close"} \subseteq Known
        /\ Need(<<>>, {}, {"policy"}, "line") \in dispatch["vs_session_open"]
        /\ Need(<<>>, {"idle-for"}, {}, "rows") \in dispatch["vs_session_close"]
        /\ Need(<<>>, {"all"}, {}, "rows") \in dispatch["vs_session_close"]
        /\ Need(<<{"session"}>>, {}, {}, "none") \in dispatch["vs_session_close"]
        /\ Need(<<{"text"}>>, S, {"view"}, "line") \in dispatch["vs_open"]
        /\ Need(<<{"page"}, {"text"}>>, S, {"view"}, "line") \in dispatch["vs_goto"]
        /\ Need(<<{"page"}>>, S, {}, "none") \in dispatch["vs_close"]
    BY TablesFound DEF Found, lifecycle_handlers
  <1>2. /\ S \in SUBSET FlagNames /\ {} \in SUBSET FlagNames
        /\ {"all"} \in SUBSET FlagNames /\ {"idle-for"} \in SUBSET FlagNames
    BY DEF S, FlagNames
  <1>3. ASSUME NEW f \in Some({"policy"}) PROVE Good(Ask("vs_session_open", <<>>, f))
    <2>1. f \in SUBSET FlagNames /\ f \subseteq {"policy"}
      BY DEF Some, FlagNames
    <2> QED BY <1>1, <2>1, GoodNone
  <1>4. /\ Good(Ask("vs_session_close", <<"session">>, {}))
        /\ Good(Ask("vs_session_close", <<>>, {"all"}))
        /\ Good(Ask("vs_session_close", <<>>, {"idle-for"}))
    BY <1>1, <1>2, WordsKnown, GoodNone, GoodOne
  <1>5. /\ Good(Ask("vs_open", <<"text">>, S)) /\ Good(Ask("vs_goto", <<"page", "text">>, S))
        /\ Good(Ask("vs_close", <<"page">>, S))
    BY <1>1, <1>2, WordsKnown, GoodOne, GoodTwo
  <1> QED BY <1>3, <1>4, <1>5 DEF LifecycleRequests

(* What the commands on a page ask for is good.                             *)
LEMMA PageGood == \A q \in PageRequests : Good(q)
  <1>0. S \in SUBSET FlagNames
    BY DEF S, FlagNames
  <1>1. ASSUME NEW f \in Some({"full"}) PROVE Good(Ask("vs_view", <<"page">>, S \cup f))
    <2>1. /\ S \cup f \in SUBSET FlagNames /\ S \subseteq S \cup f
          /\ S \cup f \subseteq S \cup {"full", "layout", "read"}
      BY <1>0 DEF Some, FlagNames
    <2>2. "vs_view" \in Known
          /\ Need(<<{"page"}>>, S, {"full", "layout", "read"}, "form") \in dispatch["vs_view"]
      BY TablesFound DEF Found, read_handlers, handle_view
    <2> QED BY <2>1, <2>2, WordsKnown, GoodOne
  <1>2. Good(Ask("vs_read", <<"page", "ref">>, S))
    <2>1. "vs_read" \in Known /\ Need(<<{"page"}, {"ref"}>>, S, {}, "text") \in dispatch["vs_read"]
      BY TablesFound DEF Found, read_handlers
    <2> QED BY <1>0, <2>1, WordsKnown, GoodTwo
  <1>3. Good(Ask("vs_find", <<"text">>, S))
    <2>1. "vs_find" \in Known /\ Need(<<{"text"}>>, S, {}, "text") \in dispatch["vs_find"]
      BY TablesFound DEF Found, page_handlers
    <2> QED BY <1>0, <2>1, WordsKnown, GoodOne
  <1> DEFINE targets == {"ref", "mark"}
             moves == {<<"click">>, <<"submit">>, <<"fill", "text">>, <<"key", "text">>}
             act(t, f, a) == Ask("vs_act", <<"page", t>> \o a, S \cup {"token", "mode"} \cup f)
  <1>4. ASSUME NEW t \in targets, NEW f \in Some({"group"}), NEW a \in moves
        PROVE  Good(act(t, f, a))
    <2> DEFINE g == S \cup {"token", "mode"} \cup f
               k == S \cup {"token"}
               r == {"group", "mode", "view"}
               page == {"page"}
               target == {"ref", "mark"}
               bare == {"click", "submit", "hover", "focus", "scroll"}
               with == {"fill", "key"}
               text == {"text"}
    <2>1. g \in SUBSET FlagNames /\ k \subseteq g /\ g \subseteq k \cup r
      BY <1>0 DEF Some, FlagNames
    <2>2. "vs_act" \in Known
          /\ Need(<<page, target>> \o <<bare>>, k, r, "form") \in dispatch["vs_act"]
          /\ Need(<<page, target>> \o <<with, text>>, k, r, "form") \in dispatch["vs_act"]
      BY TablesFound DEF Found, page_handlers, handle_act
    <2>3. "page" \in Words /\ t \in Words /\ "click" \in Words /\ "submit" \in Words
          /\ "fill" \in Words /\ "key" \in Words /\ "text" \in Words
      BY WordsKnown
    <2>4. "page" \in page /\ t \in target /\ "click" \in bare /\ "submit" \in bare
          /\ "fill" \in with /\ "key" \in with /\ "text" \in text
      OBVIOUS
    <2> HIDE DEF g, k, r, page, target, bare, with, text
    <2>5. Need(<<page, target, bare>>, k, r, "form") \in dispatch["vs_act"]
          /\ Need(<<page, target, with, text>>, k, r, "form") \in dispatch["vs_act"]
      <3>1. /\ <<page, target>> \o <<bare>> = <<page, target, bare>>
            /\ <<page, target>> \o <<with, text>> = <<page, target, with, text>>
        BY Beside
      <3> QED BY <2>2, <3>1
    <2>6. /\ <<"page", t>> \o <<"click">> = <<"page", t, "click">>
          /\ <<"page", t>> \o <<"submit">> = <<"page", t, "submit">>
          /\ <<"page", t>> \o <<"fill", "text">> = <<"page", t, "fill", "text">>
          /\ <<"page", t>> \o <<"key", "text">> = <<"page", t, "key", "text">>
      BY Beside
    <2>7. /\ Good(Ask("vs_act", <<"page", t, "click">>, g))
          /\ Good(Ask("vs_act", <<"page", t, "submit">>, g))
      BY <2>1, <2>2, <2>3, <2>4, <2>5, GoodThree
    <2>8. /\ Good(Ask("vs_act", <<"page", t, "fill", "text">>, g))
          /\ Good(Ask("vs_act", <<"page", t, "key", "text">>, g))
      BY <2>1, <2>2, <2>3, <2>4, <2>5, GoodFour, SMTT(30)
    <2> QED BY <2>6, <2>7, <2>8 DEF g
  <1>5. ASSUME NEW c \in {<<"stable">>, <<"net-idle">>, <<"token-change">>,
                          <<"ref", "ref">>, <<"gone", "ref">>, <<"containing", "text">>}
        PROVE  Good(Ask("vs_wait", <<"page">> \o c, S \cup {"timeout"}))
    <2> DEFINE g == S \cup {"timeout"}
               r == {"timeout", "view"}
    <2>1. g \in SUBSET FlagNames /\ S \subseteq g /\ g \subseteq S \cup r
      BY <1>0 DEF FlagNames
    <2>2. "vs_wait" \in Known
          /\ Need(<<{"page"}, {"stable", "net-idle", "token-change"}>>, S, r, "none") \in dispatch["vs_wait"]
          /\ Need(<<{"page"}, {"ref", "gone"}, {"ref"}>>, S, r, "none") \in dispatch["vs_wait"]
          /\ Need(<<{"page"}, {"containing"}, {"text"}>>, S, r, "none") \in dispatch["vs_wait"]
      <3>1. /\ <<{"page"}>> \o <<{"stable", "net-idle", "token-change"}>>
                 = <<{"page"}, {"stable", "net-idle", "token-change"}>>
            /\ <<{"page"}>> \o <<{"ref", "gone"}, {"ref"}>> = <<{"page"}, {"ref", "gone"}, {"ref"}>>
            /\ <<{"page"}>> \o <<{"containing"}, {"text"}>> = <<{"page"}, {"containing"}, {"text"}>>
        <4> DEFINE a == {"page"}
                   b == {"stable", "net-idle", "token-change"}
                   d == {"ref", "gone"}
                   e == {"ref"}
                   h == {"containing"}
                   k == {"text"}
        <4> HIDE DEF a, b, d, e, h, k
        <4>1. <<a>> \o <<b>> = <<a, b>> /\ <<a>> \o <<d, e>> = <<a, d, e>>
              /\ <<a>> \o <<h, k>> = <<a, h, k>>
          BY Beside
        <4> QED BY <4>1 DEF a, b, d, e, h, k
      <3>2. "vs_wait" \in Known /\ dispatch["vs_wait"] = handle_wait
        BY TablesFound DEF Found, page_handlers
      <3> QED BY <3>1, <3>2 DEF handle_wait
    <2> HIDE DEF g, r
    <2>3. CASE c \in {<<"stable">>, <<"net-idle">>, <<"token-change">>}
      <3>1. PICK x \in {"stable", "net-idle", "token-change"} : c = <<x>>
        BY <2>3
      <3>2. <<"page">> \o <<x>> = <<"page", x>>
        BY Beside
      <3>3. Good(Ask("vs_wait", <<"page", x>>, g))
        BY <2>1, <2>2, WordsKnown, GoodTwo
      <3> QED BY <3>1, <3>2, <3>3 DEF g
    <2>4. CASE c \in {<<"ref", "ref">>, <<"gone", "ref">>}
      <3>1. PICK x \in {"ref", "gone"} : c = <<x, "ref">>
        BY <2>4
      <3>2. <<"page">> \o <<x, "ref">> = <<"page", x, "ref">>
        BY Beside
      <3>3. Good(Ask("vs_wait", <<"page", x, "ref">>, g))
        BY <2>1, <2>2, WordsKnown, GoodThree, SMTT(30)
      <3> QED BY <3>1, <3>2, <3>3 DEF g
    <2>5. CASE c = <<"containing", "text">>
      <3>1. <<"page">> \o <<"containing", "text">> = <<"page", "containing", "text">>
        BY Beside
      <3>2. Good(Ask("vs_wait", <<"page", "containing", "text">>, g))
        BY <2>1, <2>2, WordsKnown, GoodThree
      <3> QED BY <2>5, <3>1, <3>2 DEF g
    <2> QED BY <2>3, <2>4, <2>5
  <1>6. ASSUME NEW f \in Some(S) PROVE Good(Ask("vs_status", <<>>, f))
    <2>1. f \in SUBSET FlagNames /\ f \subseteq S
      BY <1>0 DEF Some
    <2>2. "vs_status" \in Known /\ Need(<<>>, {}, S, "rows") \in dispatch["vs_status"]
      BY TablesFound DEF Found, page_handlers
    <2> QED BY <2>1, <2>2, GoodNone
  <1> SUFFICES ASSUME NEW q \in PageRequests PROVE Good(q)
    OBVIOUS
  <1> HIDE DEF Good
  <1> DEFINE views == {Ask("vs_view", <<"page">>, S \cup f) : f \in Some({"full"})}
             finds == {Ask("vs_read", <<"page", "ref">>, S), Ask("vs_find", <<"text">>, S)}
             acts == {act(t, f, a) : t \in targets, f \in Some({"group"}), a \in moves}
             waits == {Ask("vs_wait", <<"page">> \o c, S \cup {"timeout"}) :
                         c \in {<<"stable">>, <<"net-idle">>, <<"token-change">>,
                                <<"ref", "ref">>, <<"gone", "ref">>, <<"containing", "text">>}}
             states == {Ask("vs_status", <<>>, f) : f \in Some(S)}
  <1>7. PageRequests = views \cup finds \cup acts \cup waits \cup states
    BY DEF PageRequests
  <1>8. ASSUME NEW x \in acts PROVE Good(x)
    <2> HIDE DEF targets, moves, act
    <2>1. PICK t \in targets, f \in Some({"group"}), a \in moves : x = act(t, f, a)
      OBVIOUS
    <2> QED BY <1>4, <2>1
  <1>9. \A x \in waits : Good(x)
    BY <1>5
  <1>10. \A x \in views \cup finds \cup states : Good(x)
    BY <1>1, <1>2, <1>3, <1>6
  <1> HIDE DEF views, finds, acts, waits, states
  <1> QED BY <1>7, <1>8, <1>9, <1>10

(* What the commands on marks, annotations and the log ask for is good.     *)
LEMMA StoreGood == \A q \in StoreRequests : Good(q)
  <1>0. S \in SUBSET FlagNames /\ S \cup {"token"} \in SUBSET FlagNames
    BY DEF S, FlagNames
  <1>1. Good(Ask("vs_extract", <<"page", "schema">>, S \cup {"token"}))
    <2>1. "vs_extract" \in Known
          /\ Need(<<{"page"}, {"schema"}>>, S \cup {"token"}, {}, "text") \in dispatch["vs_extract"]
      BY TablesFound DEF Found, store_handlers
    <2> QED BY <1>0, <2>1, WordsKnown, GoodTwo
  <1>2. Good(Ask("vs_mark", <<"page", "ref", "text">>, S \cup {"token"}))
    <2>1. "vs_mark" \in Known
          /\ Need(<<{"page"}, {"ref"}, {"text"}>>, S \cup {"token"}, {}, "line") \in dispatch["vs_mark"]
      BY TablesFound DEF Found, store_handlers
    <2> QED BY <1>0, <2>1, WordsKnown, GoodThree
  <1>3. ASSUME NEW v \in {<<>>, <<"text">>}
        PROVE  Good(Ask("vs_annotate", <<"target", "key">> \o v, S))
    <2>1. "vs_annotate" \in Known /\ Need(<<{"target"}, {"key"}>>, S, {}, "line") \in dispatch["vs_annotate"]
      BY TablesFound DEF Found, store_handlers
    <2>2. /\ <<"target", "key">> \o <<>> = <<"target", "key">>
          /\ <<"target", "key">> \o <<"text">> = <<"target", "key", "text">>
      BY Beside
    <2>3. Good(Ask("vs_annotate", <<"target", "key">>, S))
      BY <1>0, <2>1, WordsKnown, GoodTwo
    <2>4. Good(Ask("vs_annotate", <<"target", "key", "text">>, S))
      BY <1>0, <2>1, WordsKnown, GoodTwoOfThree
    <2> QED BY <2>2, <2>3, <2>4
  <1>4. ASSUME NEW f \in Some({"page", "group", "since", "limit"})
        PROVE  Good(Ask("vs_log", <<>>, S \cup f))
    <2>1. /\ S \cup f \in SUBSET FlagNames /\ S \subseteq S \cup f
          /\ S \cup f \subseteq S \cup {"page", "group", "since", "limit"}
      BY <1>0 DEF Some, FlagNames
    <2>2. "vs_log" \in Known
          /\ Need(<<>>, S, {"page", "group", "since", "limit"}, "rows") \in dispatch["vs_log"]
      BY TablesFound DEF Found, store_handlers
    <2> QED BY <2>1, <2>2, GoodNone
  <1>5. Good(Ask("vs_skill", <<"list">>, S)) /\ Good(Ask("vs_skill", <<"show", "text">>, S))
    <2>1. "vs_skill" \in Known /\ Need(<<{"list"}>>, S, {}, "rows") \in dispatch["vs_skill"]
          /\ Need(<<{"show"}, {"text"}>>, S, {}, "text") \in dispatch["vs_skill"]
      BY TablesFound DEF Found, media_handlers, handle_skill
    <2>2. Good(Ask("vs_skill", <<"list">>, S))
      BY <1>0, <2>1, WordsKnown, GoodOne
    <2>3. Good(Ask("vs_skill", <<"show", "text">>, S))
      BY <1>0, <2>1, WordsKnown, GoodTwo
    <2> QED BY <2>2, <2>3
  <1> QED BY <1>1, <1>2, <1>3, <1>4, <1>5 DEF StoreRequests

(* What the capture and download commands ask for is good.                  *)
LEMMA MediaGood == \A q \in MediaRequests : Good(q)
  <1>0. S \in SUBSET FlagNames
    BY DEF S, FlagNames
  <1> DEFINE areas == {<<>>, <<"ref">>}
             shot(r, f) == Ask("vs_capture", <<"page">> \o r, S \cup f)
             shots == {shot(r, f) : r \in areas, f \in Some({"full-page"})}
  <1>1. ASSUME NEW r \in areas, NEW f \in Some({"full-page"}) PROVE Good(shot(r, f))
    <2> DEFINE g == S \cup f
    <2>1. g \in SUBSET FlagNames /\ S \subseteq g /\ g \subseteq S \cup {"full-page"}
      BY <1>0 DEF Some, FlagNames
    <2>2. "vs_capture" \in Known /\ Need(<<{"page"}>>, S, {"full-page"}, "line") \in dispatch["vs_capture"]
      BY TablesFound DEF Found, media_handlers
    <2> HIDE DEF g
    <2>3. Good(Ask("vs_capture", <<"page">>, g))
      BY <2>1, <2>2, WordsKnown, GoodOne
    <2>4. Good(Ask("vs_capture", <<"page", "ref">>, g))
      BY <2>1, <2>2, WordsKnown, GoodOneOfTwo
    <2>5. <<"page">> \o <<>> = <<"page">> /\ <<"page">> \o <<"ref">> = <<"page", "ref">>
      BY Beside
    <2> QED BY <2>3, <2>4, <2>5 DEF g
  <1>2. "vs_download" \in Known
        /\ Need(<<{"page"}>>, S, {"list", "id", "timeout-ms", "dest"}, "rows") \in dispatch["vs_download"]
    BY TablesFound DEF Found, media_handlers
  <1>3. Good(Ask("vs_download", <<"page">>, S \cup {"list"}))
    <2>1. S \cup {"list"} \in SUBSET FlagNames
      BY <1>0 DEF FlagNames
    <2> QED BY <1>2, <2>1, WordsKnown, GoodOne
  <1> DEFINE urls == {<<>>, <<"text">>}
             load(u, f) == Ask("vs_download", <<"page">> \o u, S \cup {"timeout-ms"} \cup f)
             loads == {load(u, f) : u \in urls, f \in Some({"dest", "id"})}
  <1>4. ASSUME NEW u \in urls, NEW f \in Some({"dest", "id"}) PROVE Good(load(u, f))
    <2> DEFINE g == S \cup {"timeout-ms"} \cup f
               r == {"list", "id", "timeout-ms", "dest"}
    <2>1. g \in SUBSET FlagNames /\ S \subseteq g /\ g \subseteq S \cup r
      BY <1>0 DEF Some, FlagNames
    <2>2. Need(<<{"page"}>>, S, r, "rows") \in dispatch["vs_download"]
      BY <1>2
    <2> HIDE DEF g, r
    <2>3. Good(Ask("vs_download", <<"page">>, g))
      BY <1>2, <2>1, <2>2, WordsKnown, GoodOne
    <2>4. Good(Ask("vs_download", <<"page", "text">>, g))
      BY <1>2, <2>1, <2>2, WordsKnown, GoodOneOfTwo
    <2>5. <<"page">> \o <<>> = <<"page">> /\ <<"page">> \o <<"text">> = <<"page", "text">>
      BY Beside
    <2> QED BY <2>3, <2>4, <2>5 DEF g
  <1>5. Good(Ask("vs_viewport", <<"page", "spec">>, S \cup {"dpr"}))
    <2>1. S \cup {"dpr"} \in SUBSET FlagNames
      BY <1>0 DEF FlagNames
    <2>2. "vs_viewport" \in Known /\ Need(<<{"page"}, {"spec"}>>, S, {"dpr"}, "none") \in dispatch["vs_viewport"]
      BY TablesFound DEF Found, screen_handlers
    <2> QED BY <2>1, <2>2, WordsKnown, GoodTwo
  <1>6. Good(Ask("vs_layout", <<"page", "ref", "ref">>, S))
    <2>1. "vs_layout" \in Known /\ Need(<<{"page"}, {"ref"}>>, S, {}, "rows") \in dispatch["vs_layout"]
      BY TablesFound DEF Found, screen_handlers
    <2> QED BY <1>0, <2>1, WordsKnown, GoodTwoOfThree
  <1> DEFINE keys == {<<"list">>, <<"webauthn", "page">>, <<"import", "text", "blob">>,
                      <<"save", "page", "text">>, <<"load", "page", "text">>,
                      <<"clear", "text">>}
             auth(a) == Ask("vs_auth", a, S)
             auths == {auth(a) : a \in keys}
  <1>7. ASSUME NEW a \in keys PROVE Good(auth(a))
    <2>1. "vs_auth" \in Known
          /\ Need(<<{"list"}>>, S, {}, "rows") \in dispatch["vs_auth"]
          /\ Need(<<{"webauthn"}, {"page"}>>, S, {}, "line") \in dispatch["vs_auth"]
          /\ Need(<<{"import"}, {"text"}, {"blob"}>>, S, {}, "line") \in dispatch["vs_auth"]
          /\ Need(<<{"save"}, {"page"}, {"text"}>>, S, {}, "line") \in dispatch["vs_auth"]
          /\ Need(<<{"load"}, {"page"}, {"text"}>>, S, {}, "none") \in dispatch["vs_auth"]
          /\ Need(<<{"clear"}, {"text"}>>, S, {}, "none") \in dispatch["vs_auth"]
      BY TablesFound DEF handle_auth
    <2>2. Good(Ask("vs_auth", <<"list">>, S))
      BY <1>0, <2>1, WordsKnown, GoodOne
    <2>3. Good(Ask("vs_auth", <<"webauthn", "page">>, S)) /\ Good(Ask("vs_auth", <<"clear", "text">>, S))
      BY <1>0, <2>1, WordsKnown, GoodTwo
    <2>4. /\ Good(Ask("vs_auth", <<"import", "text", "blob">>, S))
          /\ Good(Ask("vs_auth", <<"save", "page", "text">>, S))
          /\ Good(Ask("vs_auth", <<"load", "page", "text">>, S))
      BY <1>0, <2>1, WordsKnown, GoodThree
    <2> QED BY <2>2, <2>3, <2>4
  <1>8. MediaRequests = shots \cup {Ask("vs_download", <<"page">>, S \cup {"list"})} \cup loads
                        \cup {Ask("vs_viewport", <<"page", "spec">>, S \cup {"dpr"}),
                              Ask("vs_layout", <<"page", "ref", "ref">>, S)} \cup auths
    BY DEF MediaRequests
  <1>9. ASSUME NEW x \in shots PROVE Good(x)
    <2> HIDE DEF shot, areas
    <2>1. PICK r \in areas, f \in Some({"full-page"}) : x = shot(r, f)
      OBVIOUS
    <2> QED BY <1>1, <2>1
  <1>10. ASSUME NEW x \in loads PROVE Good(x)
    <2> HIDE DEF load, urls
    <2>1. PICK u \in urls, f \in Some({"dest", "id"}) : x = load(u, f)
      OBVIOUS
    <2> QED BY <1>4, <2>1
  <1>11. ASSUME NEW x \in auths PROVE Good(x)
    <2> HIDE DEF auth, keys
    <2> QED BY <1>7
  <1> HIDE DEF shots, loads, auths
  <1> QED BY <1>3, <1>5, <1>6, <1>8, <1>9, <1>10, <1>11

(* What the inspector commands ask for is good.                             *)
LEMMA InspectGood == \A q \in InspectRequests : Good(q)
  <1>0. S \in SUBSET FlagNames
    BY DEF S, FlagNames
  <1> DEFINE kinds == {<<"console", "page">>, <<"network", "page">>, <<"request", "page", "ref">>,
                       <<"eval", "page", "text">>, <<"storage", "page", "scope">>,
                       <<"scripts", "page">>, <<"script", "page", "ref">>,
                       <<"dom", "page", "ref">>, <<"performance", "page">>,
                       <<"cookie-events", "page">>}
             look(a, f) == Ask("vs_inspect", a, S \cup f)
  <1>1. ASSUME NEW a \in kinds, NEW f \in Some({"full", "unsafe-log"}) PROVE Good(look(a, f))
    <2> DEFINE g == S \cup f
               Takes(na) == \E nr, nb : Need(na, S, nr, nb) \in dispatch["vs_inspect"]
    <2>1. g \in SUBSET FlagNames /\ S \subseteq g /\ "vs_inspect" \in Known
      BY <1>0, TablesFound DEF Some, FlagNames
    <2>2. Takes(<<{"console"}, {"page"}>>) /\ Takes(<<{"network"}, {"page"}>>)
          /\ Takes(<<{"request"}, {"page"}, {"ref"}>>)
      BY TablesFound DEF handle_inspect, inspect_buffers
    <2>3. Takes(<<{"eval"}, {"page"}, {"text"}>>) /\ Takes(<<{"storage"}, {"page"}, {"scope"}>>)
          /\ Takes(<<{"scripts"}, {"page"}>>) /\ Takes(<<{"script"}, {"page"}, {"ref"}>>)
          /\ Takes(<<{"dom"}, {"page"}, {"ref"}>>)
      BY TablesFound DEF handle_inspect, inspect_page
    <2>4. Takes(<<{"performance"}, {"page"}>>) /\ Takes(<<{"cookie-events"}, {"page"}>>)
      BY TablesFound DEF handle_inspect, inspect_counters
    <2> HIDE DEF g
    <2>5. ASSUME NEW x \in Words, NEW y \in Words, Takes(<<{x}, {y}>>)
          PROVE  Good(Ask("vs_inspect", <<x, y>>, g))
      <3>1. PICK nr, nb : Need(<<{x}, {y}>>, S, nr, nb) \in dispatch["vs_inspect"]
        BY <2>5
      <3>2. x \in {x} /\ y \in {y}
        OBVIOUS
      <3> DEFINE r == {x} s == {y}
      <3> HIDE DEF r, s
      <3>3. Need(<<r, s>>, S, nr, nb) \in dispatch["vs_inspect"] /\ x \in r /\ y \in s
        BY <3>1 DEF r, s
      <3> QED BY <2>1, <3>3, GoodTwo
    <2>6. ASSUME NEW x \in Words, NEW y \in Words, NEW z \in Words, Takes(<<{x}, {y}, {z}>>)
          PROVE  Good(Ask("vs_inspect", <<x, y, z>>, g))
      <3>1. PICK nr, nb : Need(<<{x}, {y}, {z}>>, S, nr, nb) \in dispatch["vs_inspect"]
        BY <2>6
      <3> DEFINE r == {x} s == {y} t == {z}
      <3> HIDE DEF r, s, t
      <3>2. Need(<<r, s, t>>, S, nr, nb) \in dispatch["vs_inspect"] /\ x \in r /\ y \in s /\ z \in t
        BY <3>1 DEF r, s, t
      <3> QED BY <2>1, <3>2, GoodThree
    <2> HIDE DEF Takes
    <2>7. /\ Good(Ask("vs_inspect", <<"console", "page">>, g))
          /\ Good(Ask("vs_inspect", <<"network", "page">>, g))
          /\ Good(Ask("vs_inspect", <<"scripts", "page">>, g))
          /\ Good(Ask("vs_inspect", <<"performance", "page">>, g))
          /\ Good(Ask("vs_inspect", <<"cookie-events", "page">>, g))
      BY <2>2, <2>3, <2>4, <2>5, WordsKnown
    <2>8. /\ Good(Ask("vs_inspect", <<"request", "page", "ref">>, g))
          /\ Good(Ask("vs_inspect", <<"eval", "page", "text">>, g))
          /\ Good(Ask("vs_inspect", <<"storage", "page", "scope">>, g))
          /\ Good(Ask("vs_inspect", <<"script", "page", "ref">>, g))
          /\ Good(Ask("vs_inspect", <<"dom", "page", "ref">>, g))
      BY <2>2, <2>3, <2>6, WordsKnown
    <2> QED BY <2>7, <2>8 DEF g
  <1>2. InspectRequests = {look(a, f) : a \in kinds, f \in Some({"full", "unsafe-log"})}
    BY DEF InspectRequests
  <1>3. ASSUME NEW x \in InspectRequests PROVE Good(x)
    <2> HIDE DEF look, kinds
    <2>1. PICK a \in kinds, f \in Some({"full", "unsafe-log"}) : x = look(a, f)
      BY <1>2
    <2> QED BY <1>1, <2>1
  <1> QED BY <1>3

(* What the four cursor handlers take.                                      *)
LEMMA CursorFound ==
  /\ "vs_move_to" \in Known
  /\ Need(<<{"page"}, {"num"}, {"num"}>>, S, {"mode"}, "form") \in dispatch["vs_move_to"]
  /\ "vs_hover_at" \in Known
  /\ Need(<<{"page"}, {"num"}, {"num"}>>, S, {"mode"}, "form") \in dispatch["vs_hover_at"]
  /\ "vs_click_at" \in Known
  /\ Need(<<{"page"}, {"num"}, {"num"}>>, S \cup {"token"}, {"mode"}, "form") \in dispatch["vs_click_at"]
  /\ "vs_drag" \in Known
  /\ Need(<<{"page"}, {"num"}, {"num"}, {"num"}, {"num"}>>, S \cup {"token"}, {"mode"}, "form")
       \in dispatch["vs_drag"]
  <1> DEFINE p == {"page"}
             m == {"num"}
             numbers(n) == <<p>> \o [i \in 1..n |-> m]
  <1>1. numbers(2) = <<p, m, m>> /\ numbers(4) = <<p, m, m, m, m>>
    <2> HIDE DEF p, m
    <2> DEFINE C == {p, m}
    <2>1. ASSUME NEW n \in Nat
          PROVE  /\ numbers(n) \in Seq(C) /\ Len(numbers(n)) = n + 1
                 /\ numbers(n)[1] = p /\ \A i \in 2..(n + 1) : numbers(n)[i] = m
      <3> DEFINE r == [i \in 1..n |-> m]
      <3>1. r \in Seq(C) /\ Len(r) = n /\ \A i \in 1..n : r[i] = m
        OBVIOUS
      <3>2. <<p>> \in Seq(C) /\ Len(<<p>>) = 1 /\ <<p>>[1] = p
        OBVIOUS
      <3> HIDE DEF r, C
      <3>3. <<p>> \o r \in Seq(C) /\ Len(<<p>> \o r) = n + 1 /\ (<<p>> \o r)[1] = p
            /\ \A i \in 2..(n + 1) : (<<p>> \o r)[i] = r[i - 1]
        BY <3>1, <3>2
      <3>4. \A i \in 2..(n + 1) : i - 1 \in 1..n
        OBVIOUS
      <3> QED BY <3>1, <3>3, <3>4 DEF r
    <2>2. <<p, m, m>> \in Seq(C) /\ Len(<<p, m, m>>) = 3 /\ <<p, m, m>>[1] = p
          /\ \A i \in 2..3 : <<p, m, m>>[i] = m
      OBVIOUS
    <2>3. <<p, m, m, m, m>> \in Seq(C) /\ Len(<<p, m, m, m, m>>) = 5 /\ <<p, m, m, m, m>>[1] = p
          /\ \A i \in 2..5 : <<p, m, m, m, m>>[i] = m
      OBVIOUS
    <2> DEFINE x == <<p, m, m>>
               y == <<p, m, m, m, m>>
    <2> HIDE DEF C
    <2>6. 2 \in Nat /\ 4 \in Nat /\ 2 + 1 = 3 /\ 4 + 1 = 5
      OBVIOUS
    <2>7. /\ numbers(2) \in Seq(C) /\ Len(numbers(2)) = 2 + 1
          /\ numbers(2)[1] = p /\ \A i \in 2..(2 + 1) : numbers(2)[i] = m
      BY <2>1, <2>6, Zenon
    <2>8. /\ numbers(4) \in Seq(C) /\ Len(numbers(4)) = 4 + 1
          /\ numbers(4)[1] = p /\ \A i \in 2..(4 + 1) : numbers(4)[i] = m
      BY <2>1, <2>6, Zenon
    <2> HIDE DEF numbers, x, y
    <2>4. numbers(2) = x
      <3>1. \A i \in 1..3 : numbers(2)[i] = x[i]
        BY <2>7, <2>2 DEF x
      <3>2. Len(numbers(2)) = 3 /\ numbers(2) \in Seq(C)
        BY <2>6, <2>7
      <3>3. x \in Seq(C) /\ Len(x) = 3
        BY <2>2 DEF x
      <3> QED BY <3>1, <3>2, <3>3, SameSequence
    <2>5. numbers(4) = y
      <3>2. Len(numbers(4)) = 5 /\ numbers(4) \in Seq(C) /\ numbers(4)[1] = p
            /\ \A i \in 2..5 : numbers(4)[i] = m
        BY <2>6, <2>8
      <3>3. y \in Seq(C) /\ Len(y) = 5 /\ y[1] = p /\ \A i \in 2..5 : y[i] = m
        BY <2>3 DEF y
      <3>1. \A i \in 1..5 : numbers(4)[i] = y[i]
        BY <3>2, <3>3
      <3> QED BY <3>1, <3>2, <3>3, SameSequence
    <2> QED BY <2>4, <2>5 DEF x, y
  <1>2. /\ handle_cursor({}, 2) = {Need(numbers(2), S, {"mode"}, "form")}
        /\ handle_cursor({"token"}, 2) = {Need(numbers(2), S \cup {"token"}, {"mode"}, "form")}
        /\ handle_cursor({"token"}, 4) = {Need(numbers(4), S \cup {"token"}, {"mode"}, "form")}
    <2>1. S \cup {} = S
      OBVIOUS
    <2> QED BY <2>1 DEF handle_cursor
  <1> HIDE DEF numbers
  <1>3. /\ cursor_handlers["vs_move_to"] = handle_cursor({}, 2)
        /\ cursor_handlers["vs_hover_at"] = handle_cursor({}, 2)
        /\ cursor_handlers["vs_click_at"] = handle_cursor({"token"}, 2)
        /\ cursor_handlers["vs_drag"] = handle_cursor({"token"}, 4)
        /\ DOMAIN cursor_handlers = {"vs_move_to", "vs_hover_at", "vs_click_at", "vs_drag"}
    BY DEF cursor_handlers
  <1>4. \A x \in {"vs_move_to", "vs_hover_at", "vs_click_at", "vs_drag"} :
          x \in Known /\ dispatch[x] = cursor_handlers[x]
    BY <1>3, TablesFound DEF Found
  <1> QED BY <1>1, <1>2, <1>3, <1>4

(* What the cursor commands ask for is good.                                *)
LEMMA CursorGood == \A q \in CursorRequests : Good(q)
  <1>0. S \cup {"mode"} \in SUBSET FlagNames /\ S \cup {"token", "mode"} \in SUBSET FlagNames
    BY DEF S, FlagNames
  <1>1. /\ Good(Ask("vs_move_to", <<"page", "num", "num">>, S \cup {"mode"}))
        /\ Good(Ask("vs_hover_at", <<"page", "num", "num">>, S \cup {"mode"}))
    <2> DEFINE g == S \cup {"mode"}
               r == {"mode"}
               x == {"page"}
               y == {"num"}
    <2>1. g \in SUBSET FlagNames /\ S \subseteq g /\ g \subseteq S \cup r
      BY <1>0
    <2>4. /\ Need(<<x, y, y>>, S, r, "form") \in dispatch["vs_move_to"]
          /\ Need(<<x, y, y>>, S, r, "form") \in dispatch["vs_hover_at"]
          /\ "page" \in x /\ "num" \in y
      BY CursorFound
    <2>5. "vs_move_to" \in Known /\ "vs_hover_at" \in Known /\ {"page", "num"} \subseteq Words
      BY CursorFound, WordsKnown
    <2> HIDE DEF g, r, x, y
    <2>2. Good(Ask("vs_move_to", <<"page", "num", "num">>, g))
      BY <2>1, <2>4, <2>5, GoodThree
    <2>3. Good(Ask("vs_hover_at", <<"page", "num", "num">>, g))
      BY <2>1, <2>4, <2>5, GoodThree
    <2> QED BY <2>2, <2>3 DEF g
  <1>2. /\ Good(Ask("vs_click_at", <<"page", "num", "num">>, S \cup {"token", "mode"}))
        /\ Good(Ask("vs_drag", <<"page", "num", "num", "num", "num">>, S \cup {"token", "mode"}))
    <2> DEFINE g == S \cup {"token", "mode"}
               n == S \cup {"token"}
               r == {"mode"}
               x == {"page"}
               y == {"num"}
    <2>1. g \in SUBSET FlagNames /\ n \subseteq g /\ g \subseteq n \cup r
      BY <1>0
    <2>2. /\ Need(<<x, y, y>>, n, r, "form") \in dispatch["vs_click_at"]
          /\ Need(<<x, y, y, y, y>>, n, r, "form") \in dispatch["vs_drag"]
          /\ "page" \in x /\ "num" \in y
      BY CursorFound
    <2>5. "vs_click_at" \in Known /\ "vs_drag" \in Known /\ "page" \in Words /\ "num" \in Words
      BY CursorFound, WordsKnown
    <2> HIDE DEF g, n, r, x, y
    <2>3. Good(Ask("vs_click_at", <<"page", "num", "num">>, g))
      BY <2>1, <2>2, <2>5, GoodThree
    <2>4. Good(Ask("vs_drag", <<"page", "num", "num", "num", "num">>, g))
      BY <2>1, <2>2, <2>5, GoodFive
    <2> QED BY <2>3, <2>4 DEF g
  <1>3. ASSUME NEW f \in Some({"secret"})
        PROVE  Good(Ask("vs_type", <<"page", "text">>, S \cup {"mode"} \cup f))
    <2> DEFINE g == S \cup {"mode"} \cup f
               r == {"secret", "mode"}
    <2>1. g \in SUBSET FlagNames /\ S \subseteq g /\ g \subseteq S \cup r
      BY <1>0 DEF Some, FlagNames
    <2>2. "vs_type" \in Known /\ Need(<<{"page"}, {"text"}>>, S, r, "none") \in dispatch["vs_type"]
      BY TablesFound DEF Found, screen_handlers
    <2> HIDE DEF g, r
    <2>3. Good(Ask("vs_type", <<"page", "text">>, g))
      BY <2>1, <2>2, WordsKnown, GoodTwo
    <2> QED BY <2>3 DEF g
  <1> QED BY <1>1, <1>2, <1>3 DEF CursorRequests

(* What the prompt commands ask for is good.                                *)
LEMMA PromptGood == \A q \in PromptRequests : Good(q)
  <1>0. S \in SUBSET FlagNames /\ {} \in SUBSET FlagNames
    BY DEF S, FlagNames
  <1>1. ASSUME NEW f \in Some({"secret", "group"})
        PROVE  Good(Ask("vs_prompt_input_queue", <<"page", "ref", "text">>,
                        S \cup {"token", "timeout-ms"} \cup f))
    <2> DEFINE g == S \cup {"token", "timeout-ms"} \cup f
               n == S \cup {"token"}
               r == {"secret", "group", "timeout-ms"}
    <2>1. g \in SUBSET FlagNames /\ n \subseteq g /\ g \subseteq n \cup r
      BY <1>0 DEF Some, FlagNames
    <2>2. "vs_prompt_input_queue" \in Known
          /\ Need(<<{"page"}, {"ref"}, {"text"}>>, n, r, "none") \in dispatch["vs_prompt_input_queue"]
      BY TablesFound DEF Found, prompt_handlers
    <2> HIDE DEF g, n, r
    <2>3. Good(Ask("vs_prompt_input_queue", <<"page", "ref", "text">>, g))
      BY <2>1, <2>2, WordsKnown, GoodThree
    <2> QED BY <2>3 DEF g
  <1>2. Good(Ask("vs_prompt_form_wait", <<"form">>, S \cup {"timeout-ms"}))
    <2>1. S \cup {"timeout-ms"} \in SUBSET FlagNames
      BY <1>0 DEF FlagNames
    <2>2. "vs_prompt_form_wait" \in Known
          /\ Need(<<{"form"}>>, S, {"timeout-ms"}, "none") \in dispatch["vs_prompt_form_wait"]
      BY TablesFound DEF Found, prompt_handlers
    <2> QED BY <2>1, <2>2, WordsKnown, GoodOne
  <1>3. Good(Ask("vs_watch", <<"page">>, S)) /\ Good(Ask("vs_frame", <<"page">>, {}))
    <2>1. "vs_watch" \in Known /\ Need(<<{"page"}>>, S, {}, "line") \in dispatch["vs_watch"]
          /\ "vs_frame" \in Known /\ Need(<<{"page"}>>, {}, {}, "line") \in dispatch["vs_frame"]
      BY TablesFound DEF Found, record_handlers
    <2>2. Good(Ask("vs_watch", <<"page">>, S))
      BY <1>0, <2>1, WordsKnown, GoodOne
    <2>3. Good(Ask("vs_frame", <<"page">>, {}))
      BY <1>0, <2>1, WordsKnown, GoodOne
    <2> QED BY <2>2, <2>3
  <1>4. /\ Good(Ask("vs_pending_list", <<>>, {})) /\ Good(Ask("vs_pending_cancel", <<"id">>, {}))
        /\ Good(Ask("vs_pending_url", <<>>, {}))
    <2>1. "vs_pending_list" \in Known /\ Need(<<>>, {}, {}, "text") \in dispatch["vs_pending_list"]
          /\ "vs_pending_cancel" \in Known
          /\ Need(<<{"id"}>>, {}, {}, "none") \in dispatch["vs_pending_cancel"]
      BY TablesFound DEF Found, pending_handlers
    <2>2. "vs_pending_url" \in Known /\ Need(<<>>, {}, {}, "line") \in dispatch["vs_pending_url"]
      BY TablesFound DEF Found, prompt_handlers
    <2>3. Good(Ask("vs_pending_list", <<>>, {}))
      BY <1>0, <2>1, GoodNone
    <2>4. Good(Ask("vs_pending_url", <<>>, {}))
      BY <1>0, <2>2, GoodNone
    <2>5. Good(Ask("vs_pending_cancel", <<"id">>, {}))
      BY <1>0, <2>1, WordsKnown, GoodOne
    <2> QED BY <2>3, <2>4, <2>5
  <1>5. "vs_record" \in Known
        /\ Need(<<{"start"}, {"page"}>>, S, {"fps", "width", "retina"}, "line") \in dispatch["vs_record"]
        /\ Need(<<{"stop"}, {"page"}>>, S, {}, "line") \in dispatch["vs_record"]
    BY TablesFound DEF Found, record_handlers
  <1>6. Good(Ask("vs_record", <<"stop", "page">>, S))
    BY <1>0, <1>5, WordsKnown, GoodTwo
  <1>7. ASSUME NEW f \in Some({"width", "retina"})
        PROVE  Good(Ask("vs_record", <<"start", "page">>, S \cup {"fps"} \cup f))
    <2> DEFINE g == S \cup {"fps"} \cup f
               r == {"fps", "width", "retina"}
    <2>1. g \in SUBSET FlagNames /\ S \subseteq g /\ g \subseteq S \cup r
      BY <1>0 DEF Some, FlagNames
    <2>2. Need(<<{"start"}, {"page"}>>, S, r, "line") \in dispatch["vs_record"]
      BY <1>5
    <2> HIDE DEF g, r
    <2>3. Good(Ask("vs_record", <<"start", "page">>, g))
      BY <1>5, <2>1, <2>2, WordsKnown, GoodTwo
    <2> QED BY <2>3 DEF g
  <1> QED BY <1>1, <1>2, <1>3, <1>4, <1>6, <1>7 DEF PromptRequests

(* What a prompt answered in the terminal asks for is good.                 *)
LEMMA TerminalGood == \A q \in TerminalRequests : Good(q)
  <1>0. S \cup {"token"} \in SUBSET FlagNames
    BY DEF S, FlagNames
  <1>1. ASSUME NEW f \in Some({"group"})
        PROVE  Good(Ask("vs_act", <<"page", "ref", "fill", "text">>, S \cup {"token"} \cup f))
    <2> DEFINE g == S \cup {"token"} \cup f
               n == S \cup {"token"}
               r == {"group", "mode", "view"}
               x == {"page"}
               y == {"ref", "mark"}
               z == {"fill", "key"}
               t == {"text"}
    <2>1. g \in SUBSET FlagNames /\ n \subseteq g /\ g \subseteq n \cup r
      BY <1>0 DEF Some, FlagNames
    <2>2. <<x, y>> \o <<z, t>> = <<x, y, z, t>>
      <3> HIDE DEF x, y, z, t
      <3> QED BY Beside
    <2>3. Need(<<x, y>> \o <<z, t>>, n, r, "form") \in handle_act
      BY DEF handle_act
    <2>4. "vs_act" \in Known /\ dispatch["vs_act"] = handle_act
      BY TablesFound DEF Found, page_handlers
    <2>5. "page" \in x /\ "ref" \in y /\ "fill" \in z /\ "text" \in t
          /\ {"page", "ref", "fill", "text"} \subseteq Words
      BY WordsKnown
    <2> HIDE DEF g, n, r, x, y, z, t
    <2>6. Need(<<x, y, z, t>>, n, r, "form") \in dispatch["vs_act"]
      BY <2>2, <2>3, <2>4
    <2>7. Good(Ask("vs_act", <<"page", "ref", "fill", "text">>, g))
      BY <2>1, <2>4, <2>5, <2>6, GoodFour
    <2> QED BY <2>7 DEF g
  <1>2. ASSUME NEW f \in Some({"secret", "group"})
        PROVE  Good(Ask("vs_prompt_input_queue", <<"page", "ref", "text">>, S \cup {"token"} \cup f))
    <2> DEFINE g == S \cup {"token"} \cup f
               n == S \cup {"token"}
               r == {"secret", "group", "timeout-ms"}
    <2>1. g \in SUBSET FlagNames /\ n \subseteq g /\ g \subseteq n \cup r
      BY <1>0 DEF Some, FlagNames
    <2>2. "vs_prompt_input_queue" \in Known
          /\ Need(<<{"page"}, {"ref"}, {"text"}>>, n, r, "none") \in dispatch["vs_prompt_input_queue"]
      BY TablesFound DEF Found, prompt_handlers
    <2> HIDE DEF g, n, r
    <2>3. Good(Ask("vs_prompt_input_queue", <<"page", "ref", "text">>, g))
      BY <2>1, <2>2, WordsKnown, GoodThree
    <2> QED BY <2>3 DEF g
  <1> QED BY <1>1, <1>2 DEF TerminalRequests

(* What a form answered field by field asks for is good.                    *)
LEMMA FormGood == \A q \in FormRequests : Good(q)
  <1>1. ASSUME NEW f \in Some({"group"})
        PROVE  Good(Ask("vs_prompt_form", <<"page", "field", "field">>, S \cup {"token"} \cup f))
    <2> DEFINE g == S \cup {"token"} \cup f
               n == S \cup {"token"}
    <2>1. g \in SUBSET FlagNames /\ n \subseteq g /\ g \subseteq n \cup {"group"}
      BY DEF Some, FlagNames, S
    <2>2. "vs_prompt_form" \in Known
          /\ Need(<<{"page"}>>, n, {"group"}, "rows") \in dispatch["vs_prompt_form"]
      BY TablesFound DEF Found, prompt_handlers
    <2> HIDE DEF g, n
    <2>3. Good(Ask("vs_prompt_form", <<"page", "field", "field">>, g))
      BY <2>1, <2>2, WordsKnown, GoodOneOfThree
    <2> QED BY <2>3 DEF g
  <1> QED BY <1>1 DEF FormRequests

(* What an answer to a waiting prompt asks for is good.                     *)
LEMMA FulfillGood == \A q \in FulfillRequests : Good(q)
  <1>1. {} \in SUBSET FlagNames
    OBVIOUS
  <1>2. "vs_pending_peek" \in Known /\ Need(<<{"id"}>>, {}, {}, "text") \in dispatch["vs_pending_peek"]
        /\ "vs_pending_fulfill" \in Known
        /\ Need(<<{"id"}, {"text"}>>, {}, {}, "none") \in dispatch["vs_pending_fulfill"]
    BY TablesFound DEF Found, pending_handlers
  <1>3. Good(Ask("vs_pending_peek", <<"id">>, {}))
    BY <1>1, <1>2, WordsKnown, GoodOne
  <1>4. Good(Ask("vs_pending_fulfill", <<"id", "text">>, {}))
    BY <1>1, <1>2, WordsKnown, GoodTwo
  <1> QED BY <1>3, <1>4 DEF FulfillRequests

(* What any command asks for is good.                                       *)
LEMMA CommandsGood == \A q \in CommandRequests : Good(q)
  BY LifecycleGood, PageGood, StoreGood, MediaGood, InspectGood, CursorGood, PromptGood,
     TerminalGood, FormGood, FulfillGood DEF CommandRequests

-----------------------------------------------------------------------------
(* What the daemon sees of a request.                                       *)

(* The words among the arguments are the kinds.                             *)
LEMMA KindsAreWords ==
  /\ Kinds \subseteq Words /\ "n" \notin Words
  /\ \A q \in CommandRequests : \A i \in DOMAIN q.args : q.args[i] = "text" \/ q.args[i] \in Kinds
  /\ "text" \notin Kinds
  <1>1. "n" \notin Words
    BY DEF Words
  <1>2. \A q \in CommandRequests : \A i \in DOMAIN q.args : q.args[i] \in Words
    BY CommandsGood DEF Good, Worded
  <1> DEFINE args(q) == {q.args[i] : i \in DOMAIN q.args}
  <1>3. Kinds = (UNION {args(q) : q \in CommandRequests}) \ {"text"}
    BY DEF Kinds
  <1>4. \A q \in CommandRequests : args(q) \subseteq Words
    BY <1>2
  <1>5. \A q \in CommandRequests : \A i \in DOMAIN q.args : q.args[i] \in args(q)
    OBVIOUS
  <1> HIDE DEF args
  <1>6. Kinds \subseteq Words /\ "text" \notin Kinds
    BY <1>3, <1>4
  <1>7. ASSUME NEW q \in CommandRequests, NEW i \in DOMAIN q.args
        PROVE  q.args[i] = "text" \/ q.args[i] \in Kinds
    <2> DEFINE a == q.args[i]
    <2>1. a \in args(q)
      BY <1>5
    <2> HIDE DEF a
    <2>2. a = "text" \/ a \in Kinds
      BY <1>3, <2>1, Zenon
    <2> QED BY <2>2 DEF a
  <1> QED BY <1>1, <1>6, <1>7

(* What callers type.                                                       *)
Typing == Seq(Alphabet \cup {"n"})

(* The daemon sees what kind of request was written, whatever text is in it.*)
LEMMA ShapeIsKept ==
  ASSUME NEW q \in CommandRequests, NEW text \in Typing
  PROVE  ShapeOf(Written(q, text)) = q
  <1>1. Worded(q)
    BY CommandsGood DEF Good
  <1> DEFINE w == Written(q, text)
             shown(a) == IF Len(a) = 1 /\ a[1] \in Kinds THEN a[1] ELSE "text"
             named(name) == IF Len(name) = 1 THEN name[1] ELSE "other"
  <1>2. w.primitive = q.primitive /\ DOMAIN w.flags = {<<n>> : n \in q.flags}
        /\ w.args = [i \in DOMAIN q.args |-> IF q.args[i] = "text" THEN text ELSE <<q.args[i]>>]
    BY DEF Written
  <1>3. shown(text) = "text"
    <2> SUFFICES ASSUME Len(text) = 1, text[1] \in Kinds PROVE FALSE
      OBVIOUS
    <2>1. text[1] \in Alphabet \cup {"n"}
      BY DEF Typing
    <2> QED BY <2>1, AlphabetAssumption, KindsAreWords
  <1>4. \A i \in DOMAIN q.args : shown(w.args[i]) = q.args[i]
    <2> SUFFICES ASSUME NEW i \in DOMAIN q.args PROVE shown(w.args[i]) = q.args[i]
      OBVIOUS
    <2>1. CASE q.args[i] = "text"
      BY <1>2, <1>3, <2>1
    <2>2. CASE q.args[i] # "text"
      <3> DEFINE a == q.args[i]
      <3>1. a \in Kinds /\ w.args[i] = <<a>>
        BY <1>2, <2>2, KindsAreWords
      <3> HIDE DEF a, w
      <3>2. Len(<<a>>) = 1 /\ <<a>>[1] = a
        OBVIOUS
      <3>3. shown(w.args[i]) = a
        BY <3>1, <3>2
      <3> QED BY <3>3 DEF a
    <2> QED BY <2>1, <2>2
  <1>5. DOMAIN w.args = DOMAIN q.args
    BY <1>2
  <1>6. {named(name) : name \in DOMAIN w.flags} = q.flags
    <2>1. \A n : named(<<n>>) = n
      OBVIOUS
    <2> HIDE DEF named, w
    <2>2. \A n \in q.flags : <<n>> \in DOMAIN w.flags
      BY <1>2
    <2>3. \A name \in DOMAIN w.flags : \E n \in q.flags : name = <<n>>
      BY <1>2
    <2>4. \A n \in q.flags : n \in {named(name) : name \in DOMAIN w.flags}
      BY <2>1, <2>2
    <2>5. \A x \in {named(name) : name \in DOMAIN w.flags} : x \in q.flags
      BY <2>1, <2>3
    <2> QED BY <2>4, <2>5
  <1>7. ShapeOf(w) = [primitive |-> w.primitive,
                      args |-> [i \in DOMAIN w.args |-> shown(w.args[i])],
                      flags |-> {named(name) : name \in DOMAIN w.flags}]
    BY DEF ShapeOf
  <1>8. [i \in DOMAIN q.args |-> shown(w.args[i])] = q.args
    <2>1. q.args = [i \in DOMAIN q.args |-> q.args[i]]
      BY <1>1 DEF Worded
    <2> HIDE DEF shown, w
    <2> QED BY <1>4, <2>1, Zenon
  <1> HIDE DEF w, shown, named
  <1>9. ShapeOf(w) = [primitive |-> q.primitive, args |-> q.args, flags |-> q.flags]
    BY <1>2, <1>5, <1>6, <1>7, <1>8
  <1> QED BY <1>1, <1>9 DEF Worded, w

(* The handler of a command takes what the command writes.                  *)
LEMMA GoodIsServed ==
  ASSUME NEW q, Good(q)
  PROVE  \E need \in Serves(q) :
           q.primitive # "vs_inspect" => q.flags \subseteq need.flags \cup need.reads
  <1>1. PICK need \in dispatch[q.primitive] :
          /\ Fits(need.args, q.args) /\ need.flags \subseteq q.flags
          /\ q.primitive # "vs_inspect" => q.flags \subseteq need.flags \cup need.reads
    BY DEF Good, Answerable
  <1>2. q.primitive \in Known
    BY DEF Good, Worded
  <1>3. need \in UNION {dispatch[p] : p \in Known \cap {q.primitive}}
    BY <1>1, <1>2
  <1>5. Len(need.args) <= Len(q.args)
        /\ \A i \in DOMAIN need.args : q.args[i] \in need.args[i]
    BY <1>1 DEF Fits
  <1>4. need \in Serves(q)
    BY <1>1, <1>3, <1>5 DEF Serves
  <1> QED BY <1>1, <1>4

(* The request in hand is one a command wrote.                              *)
Asks == phase \in {"sent", "served"} =>
          \E q \in CommandRequests, text \in Typing : asked = Written(q, text)

(* What a caller may type in a step is typed by callers.                    *)
LEMMA SayableIsTyping ==
  ASSUME NEW q, NEW text \in Sayable(q)
  PROVE  text \in Typing
  <1>1. CASE text \in Texts
    <2>1. MaxText \in Nat
      BY ConnectionAssumption
    <2>2. PICK n \in 0..MaxText : text \in [1..n -> Alphabet]
      BY <1>1 DEF Texts
    <2> QED BY <2>1, <2>2 DEF Typing
  <1>2. CASE text = <<"n">>
    BY <1>2 DEF Typing
  <1> QED BY <1>1, <1>2 DEF Sayable

(* Every step keeps the request in hand one a command wrote.                *)
LEMMA AsksNext == Asks /\ [ConnectionNext]_connectionVars => Asks'
  <1> SUFFICES ASSUME Asks, [ConnectionNext]_connectionVars PROVE Asks'
    OBVIOUS
  <1>0. Typing' = Typing
    BY DEF Typing
  <1>1. ASSUME NEW q \in CommandRequests, NEW text \in Sayable(q), Send(q, text) PROVE Asks'
    <2>1. asked' = Written(q, text) /\ text \in Typing
      BY <1>1, SayableIsTyping DEF Send
    <2> QED BY <1>0, <2>1 DEF Asks
  <1>2. CASE Serve
    <2>1. phase = "sent" /\ asked' = asked
      BY <1>2 DEF Serve, Arrives
    <2> QED BY <1>0, <2>1 DEF Asks
  <1>3. CASE Receive \/ GoesOn \/ Disconnect \/ Lose \/ Restart
    BY <1>3 DEF Receive, GoesOn, Disconnect, Lose, Restart, Forgotten, Asks
  <1>4. CASE UNCHANGED connectionVars
    BY <1>0, <1>4 DEF connectionVars, Asks
  <1> QED BY <1>1, <1>2, <1>3, <1>4 DEF ConnectionNext

(* A request a command wrote, read as it was written, is understood.        *)
LEMMA AsksIsUnderstood == Asks => CommandsUnderstood
  <1> SUFFICES ASSUME Asks, phase = "served", got = asked
               PROVE \E need \in Serves(ShapeOf(got)) :
                       got.primitive # "vs_inspect" =>
                         ShapeOf(got).flags \subseteq need.flags \cup need.reads
    BY DEF CommandsUnderstood
  <1>1. PICK q \in CommandRequests, text \in Typing : asked = Written(q, text)
    BY DEF Asks
  <1>2. ShapeOf(got) = q /\ got.primitive = q.primitive
    <2>1. ShapeOf(got) = q
      BY <1>1, ShapeIsKept
    <2>2. Written(q, text).primitive = q.primitive
      BY DEF Written
    <2> QED BY <1>1, <2>1, <2>2
  <1>3. Good(q)
    BY CommandsGood
  <1> QED BY <1>2, <1>3, GoodIsServed

(* Every request a command builds is one its handler takes, and outside     *)
(* vs_inspect no flag of it is ignored, whatever text callers type in it.   *)
THEOREM CommandsUnderstoodTheorem == ConnectionSpec => []CommandsUnderstood
  <1>1. ConnectionInit => Asks
    BY DEF ConnectionInit, Asks
  <1>2. Asks /\ [ConnectionNext]_connectionVars => Asks'
    BY AsksNext
  <1>3. Asks => CommandsUnderstood
    BY AsksIsUnderstood
  <1> QED BY <1>1, <1>2, <1>3, PTL DEF ConnectionSpec

-----------------------------------------------------------------------------
(* The codec: the states of the splitter, the unescaper and the parser.     *)

(* The characters the code writes of its own.                               *)
Marks == {Space, Tab, Newline, Quote, Back, "-", "=", "n", "t"}

-----------------------------------------------------------------------------
(* The splitter.                                                            *)
Splits(C) == [done : Seq(Seq(C)), open : Seq(C), quoted : BOOLEAN, escaped : BOOLEAN]

Scan(st, s) == FoldLeft(Scanned, st, s)

SplitStep(C) == [x \in Splits(C) \X C |-> Scanned(x[1], x[2])]

(* The splitter stays among its states.                                     *)
LEMMA SplitType ==
  ASSUME NEW C
  PROVE  SplitStep(C) \in Steps(Splits(C), C)
  <1> SUFFICES ASSUME NEW t \in Splits(C), NEW c \in C PROVE Scanned(t, c) \in Splits(C)
    BY DEF SplitStep, Steps
  <1>1. t.done \in Seq(Seq(C)) /\ t.open \in Seq(C) /\ t.quoted \in BOOLEAN /\ t.escaped \in BOOLEAN
    BY DEF Splits
  <1>2. Append(t.open, c) \in Seq(C) /\ Append(t.done, t.open) \in Seq(Seq(C))
    BY <1>1
  <1>3. Cut(t) \in Splits(C)
    <2>2. <<>> \in Seq(C)
      OBVIOUS
    <2> QED BY <1>1, <1>2, <2>2 DEF Cut, Splits
  <1>4. [done |-> t.done, open |-> Append(t.open, c),
          quoted |-> IF ~t.escaped /\ c = Quote THEN ~t.quoted ELSE t.quoted,
          escaped |-> ~t.escaped /\ c = Back] \in Splits(C)
    BY <1>1, <1>2 DEF Splits
  <1> QED BY <1>3, <1>4 DEF Scanned

(* Reading a line is a fold by a function.                                  *)
LEMMA SplitIsThrough ==
  ASSUME NEW C, Marks \subseteq C, NEW st \in Splits(C), NEW s \in Seq(C)
  PROVE  Scan(st, s) = Through(SplitStep(C), st, s)
  <1>1. SplitStep(C) \in Steps(Splits(C), C)
    BY SplitType
  <1> DEFINE n == Len(s)
             P(g) == g = [t \in SUBSET DOMAIN s |->
                            IF t = {} THEN st
                            ELSE Scanned(g[t \ {Max(t)}], s[Max(t)])]
             g == CHOOSE x : P(x)
  <1>2. n \in Nat /\ DOMAIN s = 1..n
    OBVIOUS
  <1>3. Scan(st, s) = g[1..n]
    BY <1>2, Zenon DEF Scan, FoldLeft, MapThenFoldSet
  <1>4. PICK h : IsTable(h, Splits(C), SplitStep(C), st, s)
    BY <1>1, FoldTable
  <1>5. Through(SplitStep(C), st, s) = h[1..n]
    BY <1>1, <1>4, ThroughIs
  <1>6. \A t \in SUBSET (1..n) :
          h[t] = IF t = {} THEN st ELSE Scanned(h[Rest(t)], s[Max(t)])
    <2> SUFFICES ASSUME NEW t \in SUBSET (1..n)
                 PROVE h[t] = IF t = {} THEN st ELSE Scanned(h[Rest(t)], s[Max(t)])
      OBVIOUS
    <2>1. CASE t = {}
      BY <1>4, <2>1 DEF IsTable
    <2>2. CASE t # {}
      <3>1. Max(t) \in 1..n /\ Rest(t) \in SUBSET (1..n)
        BY <1>2, <2>2, Greatest DEF Rest
      <3>2. h[Rest(t)] \in Splits(C) /\ s[Max(t)] \in C
        BY <1>4, <3>1 DEF IsTable
      <3>3. h[t] = SplitStep(C)[<<h[Rest(t)], s[Max(t)]>>]
        BY <1>4, <2>2 DEF IsTable
      <3>4. SplitStep(C)[<<h[Rest(t)], s[Max(t)]>>] = Scanned(h[Rest(t)], s[Max(t)])
        BY <3>2 DEF SplitStep
      <3> QED BY <2>2, <3>3, <3>4
    <2> QED BY <2>1, <2>2
  <1>7. h = [t \in SUBSET (1..n) |->
               IF t = {} THEN st ELSE Scanned(h[Rest(t)], s[Max(t)])]
    <2>1. h = [t \in SUBSET (1..n) |-> h[t]]
      BY <1>4 DEF IsTable
    <2> QED BY <1>6, <2>1, Zenon
  <1>8. P(h)
    BY <1>2, <1>7, Zenon DEF Rest
  <1>9. P(g)
    <2> HIDE DEF P
    <2> QED BY <1>8, Zenon
  <1>10. \A t \in SUBSET (1..n) :
           g[t] = IF t = {} THEN st ELSE Scanned(g[Rest(t)], s[Max(t)])
    <2> HIDE DEF g
    <2> QED BY <1>2, <1>9 DEF Rest
  <1>11. g[1..n] = h[1..n]
    <2> HIDE DEF g, P
    <2> SUFFICES ASSUME g[1..n] # h[1..n] PROVE FALSE
      OBVIOUS
    <2>1. PICK t \in SUBSET (1..n) : FirstDiffer(g, h, t)
      BY <1>2, FirstDifference
    <2> QED BY <1>6, <1>10, <2>1 DEF FirstDiffer
  <1> QED BY <1>3, <1>5, <1>11

(* It takes the elements one after the other, and in pieces.                *)
LEMMA SplitSteps ==
  ASSUME NEW C, Marks \subseteq C, NEW st \in Splits(C)
  PROVE  /\ Scan(st, <<>>) = st
         /\ \A s \in Seq(C) : Scan(st, s) \in Splits(C)
         /\ \A c \in C : Scan(st, <<c>>) = Scanned(st, c)
         /\ \A s \in Seq(C), c \in C :
              Scan(st, Append(s, c)) = Scanned(Scan(st, s), c)
         /\ \A a, b \in Seq(C) :
              Scan(st, a \o b) = Scan(Scan(st, a), b)
  <1>1. SplitStep(C) \in Steps(Splits(C), C)
    BY SplitType
  <1>2. \A u \in Splits(C), s \in Seq(C) :
          Scan(u, s) = Through(SplitStep(C), u, s)
    BY SplitIsThrough
  <1>3. \A u \in Splits(C), c \in C : SplitStep(C)[<<u, c>>] = Scanned(u, c)
    BY DEF SplitStep
  <1>4. \A s \in Seq(C) : Scan(st, s) \in Splits(C)
    BY <1>1, <1>2, ThroughType
  <1>5. Scan(st, <<>>) = st
    <2>1. <<>> \in Seq(C)
      OBVIOUS
    <2>2. Through(SplitStep(C), st, <<>>) = st
      BY <1>1, ThroughNothing
    <2> QED BY <1>2, <2>1, <2>2
  <1>6. ASSUME NEW s \in Seq(C), NEW c \in C
        PROVE  Scan(st, Append(s, c)) = Scanned(Scan(st, s), c)
    <2> DEFINE z == Append(s, c)
    <2>1. z \in Seq(C)
      OBVIOUS
    <2>2. Through(SplitStep(C), st, z) = SplitStep(C)[<<Through(SplitStep(C), st, s), c>>]
      BY <1>1, ThroughMore
    <2> HIDE DEF z
    <2>3. Scan(st, z) = Through(SplitStep(C), st, z)
      BY <1>2, <2>1
    <2>4. Scan(st, s) = Through(SplitStep(C), st, s)
      BY <1>2
    <2>5. Scan(st, z) = SplitStep(C)[<<Scan(st, s), c>>]
      BY <2>2, <2>3, <2>4
    <2>6. Scan(st, z) = Scanned(Scan(st, s), c)
      BY <1>3, <1>4, <2>5
    <2> QED BY <2>6 DEF z
  <1>7. ASSUME NEW c \in C PROVE Scan(st, <<c>>) = Scanned(st, c)
    <2>1. <<c>> \in Seq(C)
      OBVIOUS
    <2>2. Through(SplitStep(C), st, <<c>>) = SplitStep(C)[<<st, c>>]
      BY <1>1, ThroughOne
    <2>3. Scan(st, <<c>>) = SplitStep(C)[<<st, c>>]
      BY <1>2, <2>1, <2>2
    <2> QED BY <1>3, <2>3
  <1>8. ASSUME NEW a \in Seq(C), NEW b \in Seq(C)
        PROVE  Scan(st, a \o b) = Scan(Scan(st, a), b)
    <2>1. a \o b \in Seq(C)
      OBVIOUS
    <2>2. Through(SplitStep(C), st, a \o b)
            = Through(SplitStep(C), Through(SplitStep(C), st, a), b)
      BY <1>1, ThroughBoth
    <2>3. Scan(st, a) = Through(SplitStep(C), st, a)
          /\ Scan(st, a) \in Splits(C)
      BY <1>2, <1>4
    <2>4. Scan(Scan(st, a), b)
            = Through(SplitStep(C), Through(SplitStep(C), st, a), b)
      BY <1>2, <2>3
    <2>5. Scan(st, a \o b) = Through(SplitStep(C), st, a \o b)
      BY <1>2, <2>1
    <2> QED BY <2>2, <2>4, <2>5
  <1> QED BY <1>4, <1>5, <1>6, <1>7, <1>8

-----------------------------------------------------------------------------
(* unescape_wire.                                                           *)
Copies(C) == [out : Seq(C), escaped : BOOLEAN]

Copy(st, s) == FoldLeft(Copied, st, s)

CopyStep(C) == [x \in Copies(C) \X C |-> Copied(x[1], x[2])]

(* The unescaper stays among its states.                                    *)
LEMMA CopyType ==
  ASSUME NEW C, Marks \subseteq C
  PROVE  CopyStep(C) \in Steps(Copies(C), C)
  <1> SUFFICES ASSUME NEW u \in Copies(C), NEW c \in C PROVE Copied(u, c) \in Copies(C)
    BY DEF CopyStep, Steps
  <1>1. u.out \in Seq(C) /\ u.escaped \in BOOLEAN
    BY DEF Copies
  <1>2. Unescaped(c) \in Seq(C)
    <2>1. Back \in C /\ Newline \in C /\ Tab \in C
      BY DEF Marks
    <2>2. <<c>> \in Seq(C) /\ <<Newline>> \in Seq(C) /\ <<Tab>> \in Seq(C) /\ <<Back, c>> \in Seq(C)
      BY <2>1
    <2> QED BY <2>2 DEF Unescaped
  <1>3. u.out \o Unescaped(c) \in Seq(C) /\ Append(u.out, c) \in Seq(C)
    BY <1>1, <1>2
  <1> QED BY <1>1, <1>3 DEF Copied, Copies

(* Taking the escapes out is a fold by a function.                          *)
LEMMA CopyIsThrough ==
  ASSUME NEW C, Marks \subseteq C, NEW st \in Copies(C), NEW s \in Seq(C)
  PROVE  Copy(st, s) = Through(CopyStep(C), st, s)
  <1>1. CopyStep(C) \in Steps(Copies(C), C)
    BY CopyType
  <1> DEFINE n == Len(s)
             P(g) == g = [t \in SUBSET DOMAIN s |->
                            IF t = {} THEN st
                            ELSE Copied(g[t \ {Max(t)}], s[Max(t)])]
             g == CHOOSE x : P(x)
  <1>2. n \in Nat /\ DOMAIN s = 1..n
    OBVIOUS
  <1>3. Copy(st, s) = g[1..n]
    BY <1>2, Zenon DEF Copy, FoldLeft, MapThenFoldSet
  <1>4. PICK h : IsTable(h, Copies(C), CopyStep(C), st, s)
    BY <1>1, FoldTable
  <1>5. Through(CopyStep(C), st, s) = h[1..n]
    BY <1>1, <1>4, ThroughIs
  <1>6. \A t \in SUBSET (1..n) :
          h[t] = IF t = {} THEN st ELSE Copied(h[Rest(t)], s[Max(t)])
    <2> SUFFICES ASSUME NEW t \in SUBSET (1..n)
                 PROVE h[t] = IF t = {} THEN st ELSE Copied(h[Rest(t)], s[Max(t)])
      OBVIOUS
    <2>1. CASE t = {}
      BY <1>4, <2>1 DEF IsTable
    <2>2. CASE t # {}
      <3>1. Max(t) \in 1..n /\ Rest(t) \in SUBSET (1..n)
        BY <1>2, <2>2, Greatest DEF Rest
      <3>2. h[Rest(t)] \in Copies(C) /\ s[Max(t)] \in C
        BY <1>4, <3>1 DEF IsTable
      <3>3. h[t] = CopyStep(C)[<<h[Rest(t)], s[Max(t)]>>]
        BY <1>4, <2>2 DEF IsTable
      <3>4. CopyStep(C)[<<h[Rest(t)], s[Max(t)]>>] = Copied(h[Rest(t)], s[Max(t)])
        BY <3>2 DEF CopyStep
      <3> QED BY <2>2, <3>3, <3>4
    <2> QED BY <2>1, <2>2
  <1>7. h = [t \in SUBSET (1..n) |->
               IF t = {} THEN st ELSE Copied(h[Rest(t)], s[Max(t)])]
    <2>1. h = [t \in SUBSET (1..n) |-> h[t]]
      BY <1>4 DEF IsTable
    <2> QED BY <1>6, <2>1, Zenon
  <1>8. P(h)
    BY <1>2, <1>7, Zenon DEF Rest
  <1>9. P(g)
    <2> HIDE DEF P
    <2> QED BY <1>8, Zenon
  <1>10. \A t \in SUBSET (1..n) :
           g[t] = IF t = {} THEN st ELSE Copied(g[Rest(t)], s[Max(t)])
    <2> HIDE DEF g
    <2> QED BY <1>2, <1>9 DEF Rest
  <1>11. g[1..n] = h[1..n]
    <2> HIDE DEF g, P
    <2> SUFFICES ASSUME g[1..n] # h[1..n] PROVE FALSE
      OBVIOUS
    <2>1. PICK t \in SUBSET (1..n) : FirstDiffer(g, h, t)
      BY <1>2, FirstDifference
    <2> QED BY <1>6, <1>10, <2>1 DEF FirstDiffer
  <1> QED BY <1>3, <1>5, <1>11

(* It takes the elements one after the other, and in pieces.                *)
LEMMA CopySteps ==
  ASSUME NEW C, Marks \subseteq C, NEW st \in Copies(C)
  PROVE  /\ Copy(st, <<>>) = st
         /\ \A s \in Seq(C) : Copy(st, s) \in Copies(C)
         /\ \A c \in C : Copy(st, <<c>>) = Copied(st, c)
         /\ \A s \in Seq(C), c \in C :
              Copy(st, Append(s, c)) = Copied(Copy(st, s), c)
         /\ \A a, b \in Seq(C) :
              Copy(st, a \o b) = Copy(Copy(st, a), b)
  <1>1. CopyStep(C) \in Steps(Copies(C), C)
    BY CopyType
  <1>2. \A u \in Copies(C), s \in Seq(C) :
          Copy(u, s) = Through(CopyStep(C), u, s)
    BY CopyIsThrough
  <1>3. \A u \in Copies(C), c \in C : CopyStep(C)[<<u, c>>] = Copied(u, c)
    BY DEF CopyStep
  <1>4. \A s \in Seq(C) : Copy(st, s) \in Copies(C)
    BY <1>1, <1>2, ThroughType
  <1>5. Copy(st, <<>>) = st
    <2>1. <<>> \in Seq(C)
      OBVIOUS
    <2>2. Through(CopyStep(C), st, <<>>) = st
      BY <1>1, ThroughNothing
    <2> QED BY <1>2, <2>1, <2>2
  <1>6. ASSUME NEW s \in Seq(C), NEW c \in C
        PROVE  Copy(st, Append(s, c)) = Copied(Copy(st, s), c)
    <2> DEFINE z == Append(s, c)
    <2>1. z \in Seq(C)
      OBVIOUS
    <2>2. Through(CopyStep(C), st, z) = CopyStep(C)[<<Through(CopyStep(C), st, s), c>>]
      BY <1>1, ThroughMore
    <2> HIDE DEF z
    <2>3. Copy(st, z) = Through(CopyStep(C), st, z)
      BY <1>2, <2>1
    <2>4. Copy(st, s) = Through(CopyStep(C), st, s)
      BY <1>2
    <2>5. Copy(st, z) = CopyStep(C)[<<Copy(st, s), c>>]
      BY <2>2, <2>3, <2>4
    <2>6. Copy(st, z) = Copied(Copy(st, s), c)
      BY <1>3, <1>4, <2>5
    <2> QED BY <2>6 DEF z
  <1>7. ASSUME NEW c \in C PROVE Copy(st, <<c>>) = Copied(st, c)
    <2>1. <<c>> \in Seq(C)
      OBVIOUS
    <2>2. Through(CopyStep(C), st, <<c>>) = CopyStep(C)[<<st, c>>]
      BY <1>1, ThroughOne
    <2>3. Copy(st, <<c>>) = CopyStep(C)[<<st, c>>]
      BY <1>2, <2>1, <2>2
    <2> QED BY <1>3, <2>3
  <1>8. ASSUME NEW a \in Seq(C), NEW b \in Seq(C)
        PROVE  Copy(st, a \o b) = Copy(Copy(st, a), b)
    <2>1. a \o b \in Seq(C)
      OBVIOUS
    <2>2. Through(CopyStep(C), st, a \o b)
            = Through(CopyStep(C), Through(CopyStep(C), st, a), b)
      BY <1>1, ThroughBoth
    <2>3. Copy(st, a) = Through(CopyStep(C), st, a)
          /\ Copy(st, a) \in Copies(C)
      BY <1>2, <1>4
    <2>4. Copy(Copy(st, a), b)
            = Through(CopyStep(C), Through(CopyStep(C), st, a), b)
      BY <1>2, <2>3
    <2>5. Copy(st, a \o b) = Through(CopyStep(C), st, a \o b)
      BY <1>2, <2>1
    <2> QED BY <2>2, <2>4, <2>5
  <1> QED BY <1>4, <1>5, <1>6, <1>7, <1>8

Values(C) == {<<>>} \cup {<<v>> : v \in Seq(C)}
Maps(C) == UNION {[D -> Values(C)] : D \in SUBSET Seq(C)}

(* Unescaping a text gives a text.                                          *)
LEMMA UnescapeType ==
  ASSUME NEW C, Marks \subseteq C, NEW s \in Seq(C)
  PROVE  unescape_wire(s) \in Seq(C)
  <1> DEFINE st == [out |-> <<>>, escaped |-> FALSE]
  <1>1. st \in Copies(C)
    BY DEF Copies
  <1>2. Copy(st, s) \in Copies(C)
    BY <1>1, CopySteps
  <1>3. unescape_wire(s) = IF Copy(st, s).escaped THEN Append(Copy(st, s).out, Back)
                           ELSE Copy(st, s).out
    BY DEF unescape_wire, Copy
  <1>4. Back \in C
    BY DEF Marks
  <1> HIDE DEF st
  <1> QED BY <1>2, <1>3, <1>4 DEF Copies

(* A text without its quotes is a text.                                     *)
LEMMA StripType ==
  ASSUME NEW C, NEW s \in Seq(C)
  PROVE  strip_quotes(s) \in Seq(C)
  BY DEF strip_quotes

(* The first equals sign of a text.                                         *)
EqualsAt(s) == SelectInSeq(s, LAMBDA c : c = "=")

(* SelectInSeq finds the first equals sign, where there is one.             *)
LEMMA FirstEquals ==
  ASSUME NEW C, NEW s \in Seq(C)
  PROVE  /\ EqualsAt(s) \in 0..Len(s)
         /\ EqualsAt(s) = 0 => \A i \in 1..Len(s) : s[i] # "="
         /\ EqualsAt(s) # 0 => s[EqualsAt(s)] = "="
         /\ \A i \in 1..Len(s) : i < EqualsAt(s) => s[i] # "="
  <1> DEFINE I == {i \in 1..Len(s) : s[i] = "="}
  <1>1. EqualsAt(s) = IF I # {} THEN Min(I) ELSE 0
    BY DEF EqualsAt, SelectInSeq
  <1>2. CASE I = {}
    BY <1>1, <1>2
  <1>3. CASE I # {}
    <2>1. I \in SUBSET Nat
      OBVIOUS
    <2>2. \E i \in I : \A j \in I : i <= j
      <3> HIDE DEF I
      <3> QED BY <1>3, <2>1, Least
    <2>3. Min(I) \in I /\ \A j \in I : Min(I) <= j
      <3> HIDE DEF I
      <3> QED BY <2>2 DEF Min
    <2>4. EqualsAt(s) \in I /\ \A j \in I : EqualsAt(s) <= j
      BY <1>1, <1>3, <2>3
    <2> HIDE DEF EqualsAt
    <2> QED BY <2>4
  <1> QED BY <1>2, <1>3

(* A flag has a name and a value.                                           *)
LEMMA FlagType ==
  ASSUME NEW C, Marks \subseteq C, NEW s \in Seq(C)
  PROVE  FlagOf(s).name \in Seq(C) /\ FlagOf(s).value \in Values(C)
  <1>1. EqualsAt(s) \in 0..Len(s)
    BY FirstEquals
  <1> DEFINE v == SubSeq(s, EqualsAt(s) + 1, Len(s))
             n == SubSeq(s, 1, EqualsAt(s) - 1)
  <1>2. v \in Seq(C) /\ n \in Seq(C)
    BY <1>1
  <1>3. FlagOf(s) = IF EqualsAt(s) = 0 THEN [name |-> s, value |-> <<>>]
                    ELSE [name |-> n, value |-> <<unescape_wire(strip_quotes(v))>>]
    BY DEF FlagOf, EqualsAt
  <1> HIDE DEF v, n
  <1>4. unescape_wire(strip_quotes(v)) \in Seq(C)
    BY <1>2, StripType, UnescapeType
  <1> QED BY <1>2, <1>3, <1>4 DEF Values

(* One more flag in a map.                                                  *)
LEMMA InsertType ==
  ASSUME NEW C, NEW m \in Maps(C), NEW n \in Seq(C), NEW v \in Values(C)
  PROVE  insert(m, n, v) \in Maps(C)
  <1>1. PICK D \in SUBSET Seq(C) : m \in [D -> Values(C)]
    BY DEF Maps
  <1>2. D \cup {n} \in SUBSET Seq(C)
    OBVIOUS
  <1>3. insert(m, n, v) \in [D \cup {n} -> Values(C)]
    BY <1>1 DEF insert
  <1> QED BY <1>2, <1>3 DEF Maps

-----------------------------------------------------------------------------
(* Request::parse, token by token.                                          *)
Parses(C) == [primitive : C, args : Seq(Seq(C)), flags : Maps(C)]

Parse(st, s) == FoldLeft(Parsed, st, s)

ParseStep(C) == [x \in Parses(C) \X Seq(C) |-> Parsed(x[1], x[2])]

(* The parser stays among its states.                                       *)
LEMMA ParseType ==
  ASSUME NEW C, Marks \subseteq C
  PROVE  ParseStep(C) \in Steps(Parses(C), Seq(C))
  <1> SUFFICES ASSUME NEW q \in Parses(C), NEW token \in Seq(C)
               PROVE Parsed(q, token) \in Parses(C)
    BY DEF ParseStep, Steps
  <1>1. q.primitive \in C /\ q.args \in Seq(Seq(C)) /\ q.flags \in Maps(C)
        /\ q = [primitive |-> q.primitive, args |-> q.args, flags |-> q.flags]
    BY DEF Parses
  <1>2. CASE ~IsFlag(token)
    <2> DEFINE a == unescape_wire(strip_quotes(token))
    <2>1. a \in Seq(C)
      BY StripType, UnescapeType
    <2>2. Parsed(q, token) = [primitive |-> q.primitive, args |-> Append(q.args, a), flags |-> q.flags]
      BY <1>1, <1>2 DEF Parsed
    <2> HIDE DEF a
    <2> QED BY <1>1, <2>1, <2>2 DEF Parses
  <1>3. CASE IsFlag(token)
    <2> DEFINE r == SubSeq(token, 3, Len(token))
               f == FlagOf(r)
               m == insert(q.flags, f.name, f.value)
    <2>1. r \in Seq(C)
      BY <1>3 DEF IsFlag
    <2>2. f.name \in Seq(C) /\ f.value \in Values(C)
      <3> HIDE DEF r
      <3> QED BY <2>1, FlagType
    <2>3. m \in Maps(C)
      <3> HIDE DEF f
      <3> QED BY <1>1, <2>2, InsertType
    <2>4. Parsed(q, token) = [primitive |-> q.primitive, args |-> q.args, flags |-> m]
      BY <1>1, <1>3 DEF Parsed
    <2> HIDE DEF m
    <2> QED BY <1>1, <2>3, <2>4 DEF Parses
  <1> QED BY <1>2, <1>3

(* Taking tokens in is a fold by a function.                                *)
LEMMA ParseIsThrough ==
  ASSUME NEW C, Marks \subseteq C, NEW st \in Parses(C), NEW s \in Seq(Seq(C))
  PROVE  Parse(st, s) = Through(ParseStep(C), st, s)
  <1>1. ParseStep(C) \in Steps(Parses(C), Seq(C))
    BY ParseType
  <1> DEFINE n == Len(s)
             P(g) == g = [t \in SUBSET DOMAIN s |->
                            IF t = {} THEN st
                            ELSE Parsed(g[t \ {Max(t)}], s[Max(t)])]
             g == CHOOSE x : P(x)
  <1>2. n \in Nat /\ DOMAIN s = 1..n
    OBVIOUS
  <1>3. Parse(st, s) = g[1..n]
    BY <1>2, Zenon DEF Parse, FoldLeft, MapThenFoldSet
  <1>4. PICK h : IsTable(h, Parses(C), ParseStep(C), st, s)
    BY <1>1, FoldTable
  <1>5. Through(ParseStep(C), st, s) = h[1..n]
    BY <1>1, <1>4, ThroughIs
  <1>6. \A t \in SUBSET (1..n) :
          h[t] = IF t = {} THEN st ELSE Parsed(h[Rest(t)], s[Max(t)])
    <2> SUFFICES ASSUME NEW t \in SUBSET (1..n)
                 PROVE h[t] = IF t = {} THEN st ELSE Parsed(h[Rest(t)], s[Max(t)])
      OBVIOUS
    <2>1. CASE t = {}
      BY <1>4, <2>1 DEF IsTable
    <2>2. CASE t # {}
      <3>1. Max(t) \in 1..n /\ Rest(t) \in SUBSET (1..n)
        BY <1>2, <2>2, Greatest DEF Rest
      <3>2. h[Rest(t)] \in Parses(C) /\ s[Max(t)] \in Seq(C)
        BY <1>4, <3>1 DEF IsTable
      <3>3. h[t] = ParseStep(C)[<<h[Rest(t)], s[Max(t)]>>]
        BY <1>4, <2>2 DEF IsTable
      <3>4. ParseStep(C)[<<h[Rest(t)], s[Max(t)]>>] = Parsed(h[Rest(t)], s[Max(t)])
        BY <3>2 DEF ParseStep
      <3> QED BY <2>2, <3>3, <3>4
    <2> QED BY <2>1, <2>2
  <1>7. h = [t \in SUBSET (1..n) |->
               IF t = {} THEN st ELSE Parsed(h[Rest(t)], s[Max(t)])]
    <2>1. h = [t \in SUBSET (1..n) |-> h[t]]
      BY <1>4 DEF IsTable
    <2> QED BY <1>6, <2>1, Zenon
  <1>8. P(h)
    BY <1>2, <1>7, Zenon DEF Rest
  <1>9. P(g)
    <2> HIDE DEF P
    <2> QED BY <1>8, Zenon
  <1>10. \A t \in SUBSET (1..n) :
           g[t] = IF t = {} THEN st ELSE Parsed(g[Rest(t)], s[Max(t)])
    <2> HIDE DEF g
    <2> QED BY <1>2, <1>9 DEF Rest
  <1>11. g[1..n] = h[1..n]
    <2> HIDE DEF g, P
    <2> SUFFICES ASSUME g[1..n] # h[1..n] PROVE FALSE
      OBVIOUS
    <2>1. PICK t \in SUBSET (1..n) : FirstDiffer(g, h, t)
      BY <1>2, FirstDifference
    <2> QED BY <1>6, <1>10, <2>1 DEF FirstDiffer
  <1> QED BY <1>3, <1>5, <1>11

(* It takes the elements one after the other, and in pieces.                *)
LEMMA ParseSteps ==
  ASSUME NEW C, Marks \subseteq C, NEW st \in Parses(C)
  PROVE  /\ Parse(st, <<>>) = st
         /\ \A s \in Seq(Seq(C)) : Parse(st, s) \in Parses(C)
         /\ \A c \in Seq(C) : Parse(st, <<c>>) = Parsed(st, c)
         /\ \A s \in Seq(Seq(C)), c \in Seq(C) :
              Parse(st, Append(s, c)) = Parsed(Parse(st, s), c)
         /\ \A a, b \in Seq(Seq(C)) :
              Parse(st, a \o b) = Parse(Parse(st, a), b)
  <1>1. ParseStep(C) \in Steps(Parses(C), Seq(C))
    BY ParseType
  <1>2. \A u \in Parses(C), s \in Seq(Seq(C)) :
          Parse(u, s) = Through(ParseStep(C), u, s)
    BY ParseIsThrough
  <1>3. \A u \in Parses(C), c \in Seq(C) : ParseStep(C)[<<u, c>>] = Parsed(u, c)
    BY DEF ParseStep
  <1>4. \A s \in Seq(Seq(C)) : Parse(st, s) \in Parses(C)
    BY <1>1, <1>2, ThroughType
  <1>5. Parse(st, <<>>) = st
    <2>1. <<>> \in Seq(Seq(C))
      OBVIOUS
    <2>2. Through(ParseStep(C), st, <<>>) = st
      BY <1>1, ThroughNothing
    <2> QED BY <1>2, <2>1, <2>2
  <1>6. ASSUME NEW s \in Seq(Seq(C)), NEW c \in Seq(C)
        PROVE  Parse(st, Append(s, c)) = Parsed(Parse(st, s), c)
    <2> DEFINE z == Append(s, c)
    <2>1. z \in Seq(Seq(C))
      OBVIOUS
    <2>2. Through(ParseStep(C), st, z) = ParseStep(C)[<<Through(ParseStep(C), st, s), c>>]
      BY <1>1, ThroughMore
    <2> HIDE DEF z
    <2>3. Parse(st, z) = Through(ParseStep(C), st, z)
      BY <1>2, <2>1
    <2>4. Parse(st, s) = Through(ParseStep(C), st, s)
      BY <1>2
    <2>5. Parse(st, z) = ParseStep(C)[<<Parse(st, s), c>>]
      BY <2>2, <2>3, <2>4
    <2>6. Parse(st, z) = Parsed(Parse(st, s), c)
      BY <1>3, <1>4, <2>5
    <2> QED BY <2>6 DEF z
  <1>7. ASSUME NEW c \in Seq(C) PROVE Parse(st, <<c>>) = Parsed(st, c)
    <2>1. <<c>> \in Seq(Seq(C))
      OBVIOUS
    <2>2. Through(ParseStep(C), st, <<c>>) = ParseStep(C)[<<st, c>>]
      BY <1>1, ThroughOne
    <2>3. Parse(st, <<c>>) = ParseStep(C)[<<st, c>>]
      BY <1>2, <2>1, <2>2
    <2> QED BY <1>3, <2>3
  <1>8. ASSUME NEW a \in Seq(Seq(C)), NEW b \in Seq(Seq(C))
        PROVE  Parse(st, a \o b) = Parse(Parse(st, a), b)
    <2>1. a \o b \in Seq(Seq(C))
      OBVIOUS
    <2>2. Through(ParseStep(C), st, a \o b)
            = Through(ParseStep(C), Through(ParseStep(C), st, a), b)
      BY <1>1, ThroughBoth
    <2>3. Parse(st, a) = Through(ParseStep(C), st, a)
          /\ Parse(st, a) \in Parses(C)
      BY <1>2, <1>4
    <2>4. Parse(Parse(st, a), b)
            = Through(ParseStep(C), Through(ParseStep(C), st, a), b)
      BY <1>2, <2>3
    <2>5. Parse(st, a \o b) = Through(ParseStep(C), st, a \o b)
      BY <1>2, <2>1
    <2> QED BY <2>2, <2>4, <2>5
  <1> QED BY <1>4, <1>5, <1>6, <1>7, <1>8

-----------------------------------------------------------------------------
(* Escaping undone.                                                         *)

(* Escaping, character by character.                                        *)
LEMMA EscapedType ==
  ASSUME NEW C, Marks \subseteq C, NEW c \in C
  PROVE  Escaped(c) \in Seq(C)
  <1>1. Back \in C /\ Quote \in C /\ "n" \in C /\ "t" \in C
    BY DEF Marks
  <1>2. <<Back, Back>> \in Seq(C) /\ <<Back, Quote>> \in Seq(C) /\ <<Back, "n">> \in Seq(C)
        /\ <<Back, "t">> \in Seq(C) /\ <<c>> \in Seq(C)
    BY <1>1
  <1> QED BY <1>2 DEF Escaped

(* escape_wire goes through a text character by character.                  *)
LEMMA EscapeMore ==
  ASSUME NEW C, Marks \subseteq C
  PROVE  /\ escape_wire(<<>>) = <<>>
         /\ \A s \in Seq(C) : escape_wire(s) \in Seq(C)
         /\ \A s \in Seq(C), c \in C : escape_wire(Append(s, c)) = escape_wire(s) \o Escaped(c)
  <1> DEFINE each(s) == [i \in DOMAIN s |-> Escaped(s[i])]
  <1>1. \A c \in C : Escaped(c) \in Seq(C)
    BY EscapedType
  <1>2. \A s \in Seq(C) : each(s) \in Seq(Seq(C))
    <2> SUFFICES ASSUME NEW s \in Seq(C) PROVE each(s) \in Seq(Seq(C))
      OBVIOUS
    <2>1. Len(s) \in Nat /\ DOMAIN s = 1..Len(s) /\ \A i \in 1..Len(s) : s[i] \in C
      OBVIOUS
    <2> QED BY <1>1, <2>1
  <1>3. \A s \in Seq(C) : escape_wire(s) = FlattenSeq(each(s))
    BY DEF escape_wire
  <1>4. escape_wire(<<>>) = <<>>
    <2> DEFINE e == <<>>
    <2>1. each(e) = e /\ e \in Seq(C)
      OBVIOUS
    <2>2. FlattenSeq(e) = e
      BY FlattenNothing
    <2> HIDE DEF e, each
    <2>3. escape_wire(e) = e
      BY <1>3, <2>1, <2>2
    <2> QED BY <2>3 DEF e
  <1>5. \A s \in Seq(C) : escape_wire(s) \in Seq(C)
    <2> HIDE DEF each
    <2> QED BY <1>2, <1>3, FlattenMore
  <1>6. ASSUME NEW s \in Seq(C), NEW c \in C
        PROVE  escape_wire(Append(s, c)) = escape_wire(s) \o Escaped(c)
    <2> DEFINE z == Append(s, c)
               x == each(s)
               y == Escaped(c)
    <2>1. z \in Seq(C) /\ Len(z) = Len(s) + 1 /\ z[Len(s) + 1] = c
          /\ \A i \in 1..Len(s) : z[i] = s[i]
      OBVIOUS
    <2>2. x \in Seq(Seq(C)) /\ y \in Seq(C) /\ each(z) \in Seq(Seq(C))
      BY <1>1, <1>2, <2>1
    <2>3. Len(x) = Len(s) /\ Len(each(z)) = Len(z) /\ (\A i \in 1..Len(s) : x[i] = Escaped(s[i]))
          /\ \A i \in 1..Len(z) : each(z)[i] = Escaped(z[i])
      <3> HIDE DEF z
      <3> QED BY <2>1
    <2>4. each(z) = Append(x, y)
      <3> DEFINE a == each(z)
                 b == Append(x, y)
      <3>1. b \in Seq(Seq(C)) /\ Len(b) = Len(x) + 1 /\ b[Len(x) + 1] = y
            /\ \A i \in 1..Len(x) : b[i] = x[i]
        <4> HIDE DEF x, y
        <4> QED BY <2>2
      <3>2. Len(a) = Len(s) + 1 /\ a[Len(s) + 1] = y /\ \A i \in 1..Len(s) : a[i] = x[i]
        BY <2>1, <2>3
      <3>3. a \in Seq(Seq(C)) /\ Len(s) \in Nat /\ Len(x) = Len(s)
        BY <2>2, <2>3
      <3> HIDE DEF a, b, x, y
      <3>4. ASSUME NEW i \in 1..Len(a) PROVE a[i] = b[i]
        <4>1. CASE i \in 1..Len(s)
          BY <3>1, <3>2, <3>3, <4>1
        <4>2. CASE i = Len(s) + 1
          BY <3>1, <3>2, <3>3, <4>2
        <4> QED BY <3>2, <3>3, <4>1, <4>2
      <3>6. Len(a) = Len(b)
        BY <3>1, <3>2, <3>3
      <3>5. a = b
        <4> DEFINE D == Seq(C)
        <4>1. a \in Seq(D) /\ b \in Seq(D)
          BY <3>1, <3>3
        <4> HIDE DEF D
        <4> QED BY <3>4, <3>6, <4>1, SameSequence
      <3> QED BY <3>5 DEF a, b
    <2> HIDE DEF x, y, z, each
    <2>5. FlattenSeq(Append(x, y)) = FlattenSeq(x) \o y
      BY <2>2, FlattenMore
    <2>6. FlattenSeq(x) = escape_wire(s)
      BY <1>3 DEF x
    <2> QED BY <1>3, <2>1, <2>4, <2>5, <2>6 DEF y, z
  <1> QED BY <1>4, <1>5, <1>6

(* Unescaping takes an escaped character back, and so the whole text.       *)
LEMMA CopyEscaped ==
  ASSUME NEW C, Marks \subseteq C, NEW o \in Seq(C), NEW c \in C
  PROVE  Copy([out |-> o, escaped |-> FALSE], Escaped(c))
           = [out |-> Append(o, c), escaped |-> FALSE]
  <1> DEFINE st == [out |-> o, escaped |-> FALSE]
             up == [out |-> o, escaped |-> TRUE]
             fin == [out |-> Append(o, c), escaped |-> FALSE]
  <1>0. st \in Copies(C) /\ up \in Copies(C)
    BY DEF Copies
  <1>1. Copied(st, Back) = up
    BY DEF Copied
  <1>2. Back \in C /\ Quote \in C /\ "n" \in C /\ "t" \in C
    BY DEF Marks
  <1>3. ASSUME NEW d \in C, Unescaped(d) = <<c>>
        PROVE  Copy(st, <<Back, d>>) = fin
    <2>1. <<Back>> \in Seq(C) /\ <<d>> \in Seq(C) /\ <<Back>> \o <<d>> = <<Back, d>>
      BY <1>2, Beside
    <2>2. Copied(up, d) = fin
      <3>1. o \o <<c>> = Append(o, c)
        OBVIOUS
      <3> QED BY <1>3, <3>1 DEF Copied
    <2> HIDE DEF st, up, fin
    <2>3. Copy(st, <<Back>>) = up
      BY <1>0, <1>1, <1>2, CopySteps
    <2>4. Copy(up, <<d>>) = fin
      BY <1>0, <2>2, CopySteps
    <2> DEFINE a == <<Back>>
               b == <<d>>
    <2>6. a \in Seq(C) /\ b \in Seq(C)
      BY <2>1
    <2> HIDE DEF a, b
    <2>7. Copy(st, a \o b) = Copy(Copy(st, a), b)
      BY <1>0, <2>6, CopySteps
    <2>5. Copy(st, <<Back>> \o <<d>>) = Copy(Copy(st, <<Back>>), <<d>>)
      BY <2>7 DEF a, b
    <2> QED BY <2>1, <2>3, <2>4, <2>5
  <1>4. CASE c \in {Back, Quote}
    <2>1. Unescaped(c) = <<c>>
      BY <1>4 DEF Unescaped, Back, Quote, Newline, Tab
    <2>2. Escaped(c) = <<Back, c>>
      BY <1>4 DEF Escaped, Back, Quote, Newline, Tab
    <2> QED BY <1>3, <2>1, <2>2
  <1>5. CASE c = Newline
    <2>1. Unescaped("n") = <<c>>
      BY <1>5 DEF Unescaped, Back, Quote, Newline, Tab
    <2>2. Escaped(c) = <<Back, "n">>
      BY <1>5 DEF Escaped, Back, Quote, Newline, Tab
    <2> QED BY <1>2, <1>3, <2>1, <2>2
  <1>6. CASE c = Tab
    <2>1. Unescaped("t") = <<c>>
      BY <1>6 DEF Unescaped, Back, Quote, Newline, Tab
    <2>2. Escaped(c) = <<Back, "t">>
      BY <1>6 DEF Escaped, Back, Quote, Newline, Tab
    <2> QED BY <1>2, <1>3, <2>1, <2>2
  <1>7. CASE c \notin {Back, Quote, Newline, Tab}
    <2>1. Escaped(c) = <<c>>
      BY <1>7 DEF Escaped
    <2>2. Copied(st, c) = fin
      BY <1>7 DEF Copied
    <2> HIDE DEF st, fin
    <2>3. Copy(st, <<c>>) = fin
      BY <1>0, <2>2, CopySteps
    <2> QED BY <2>1, <2>3 DEF st, fin
  <1> QED BY <1>4, <1>5, <1>6, <1>7

(* What escape_wire wrote, unescape_wire reads.                             *)
LEMMA UnescapeEscape ==
  ASSUME NEW C, Marks \subseteq C, NEW s \in Seq(C)
  PROVE  unescape_wire(escape_wire(s)) = s
  <1> DEFINE st == [out |-> <<>>, escaped |-> FALSE]
             T == {x \in Seq(C) : Copy(st, escape_wire(x)) = [out |-> x, escaped |-> FALSE]}
  <1>1. st \in Copies(C)
    BY DEF Copies
  <1>2. <<>> \in T
    <2>1. Copy(st, <<>>) = st
      <3> HIDE DEF st
      <3> QED BY <1>1, CopySteps
    <2>2. escape_wire(<<>>) = <<>>
      BY EscapeMore
    <2> QED BY <2>1, <2>2
  <1>3. \A x \in Seq(C), c \in C : x \in T => Append(x, c) \in T
    <2> SUFFICES ASSUME NEW x \in Seq(C), NEW c \in C, x \in T PROVE Append(x, c) \in T
      OBVIOUS
    <2>0. Append(x, c) \in Seq(C)
      OBVIOUS
    <2>1. escape_wire(Append(x, c)) = escape_wire(x) \o Escaped(c) /\ escape_wire(x) \in Seq(C)
          /\ Escaped(c) \in Seq(C)
      BY EscapeMore, EscapedType
    <2>3. Copy(st, escape_wire(x)) = [out |-> x, escaped |-> FALSE]
      OBVIOUS
    <2> HIDE DEF st
    <2>2. Copy(st, escape_wire(x) \o Escaped(c)) = Copy(Copy(st, escape_wire(x)), Escaped(c))
      BY <1>1, <2>1, CopySteps
    <2>4. Copy([out |-> x, escaped |-> FALSE], Escaped(c)) = [out |-> Append(x, c), escaped |-> FALSE]
      BY CopyEscaped
    <2>5. Copy(st, escape_wire(Append(x, c))) = [out |-> Append(x, c), escaped |-> FALSE]
      BY <2>1, <2>2, <2>3, <2>4
    <2> QED BY <2>0, <2>5
  <1>4. s \in T
    <2> HIDE DEF T
    <2> QED BY <1>2, <1>3, SequencesGrow
  <1>5. unescape_wire(escape_wire(s)) = IF Copy(st, escape_wire(s)).escaped
                                        THEN Append(Copy(st, escape_wire(s)).out, Back)
                                        ELSE Copy(st, escape_wire(s)).out
    BY DEF unescape_wire, Copy
  <1> HIDE DEF st
  <1> QED BY <1>4, <1>5

-----------------------------------------------------------------------------
(* What an escaped text has and has not: a space where the text has one, no *)
(* tab, no quote in front.                                                  *)
Spaced(s) == \E i \in DOMAIN s : s[i] = Space
NoTab(s) == \A i \in DOMAIN s : s[i] # Tab
NoQuote(s) == s # <<>> => s[1] # Quote

(* Escaped text has the blanks it had, no tab, no quote at its start.       *)
LEMMA EscapedShape ==
  ASSUME NEW C, Marks \subseteq C, NEW s \in Seq(C)
  PROVE  /\ Spaced(escape_wire(s)) <=> Spaced(s)
         /\ NoTab(escape_wire(s)) /\ NoQuote(escape_wire(s))
         /\ escape_wire(s) = <<>> <=> s = <<>>
  <1> DEFINE T == {x \in Seq(C) : /\ Spaced(escape_wire(x)) <=> Spaced(x)
                                  /\ NoTab(escape_wire(x)) /\ NoQuote(escape_wire(x))
                                  /\ escape_wire(x) = <<>> <=> x = <<>>}
  <1>1. <<>> \in T
    <2>1. escape_wire(<<>>) = <<>>
      BY EscapeMore
    <2> QED BY <2>1 DEF Spaced, NoTab, NoQuote
  <1>2. \A x \in Seq(C), c \in C : x \in T => Append(x, c) \in T
    <2> SUFFICES ASSUME NEW x \in Seq(C), NEW c \in C, x \in T PROVE Append(x, c) \in T
      OBVIOUS
    <2> DEFINE e == escape_wire(x)
               d == Escaped(c)
               z == Append(x, c)
    <2>1. e \in Seq(C) /\ d \in Seq(C) /\ escape_wire(z) = e \o d
      BY EscapeMore, EscapedType
    <2>2. /\ Len(d) \in {1, 2} /\ d[1] # Quote
          /\ \A i \in 1..Len(d) : d[i] # Tab
          /\ Spaced(d) <=> c = Space
      <3>1. ASSUME NEW a, NEW b, a # Quote, a # Tab, b # Tab, a # Space, b # Space, c # Space,
                   d = <<a, b>>
            PROVE  /\ Len(d) \in {1, 2} /\ d[1] # Quote
                   /\ \A i \in 1..Len(d) : d[i] # Tab
                   /\ Spaced(d) <=> c = Space
        <4> HIDE DEF d
        <4> QED BY <3>1 DEF Spaced
      <3>2. ASSUME c # Quote, c # Tab, d = <<c>>
            PROVE  /\ Len(d) \in {1, 2} /\ d[1] # Quote
                   /\ \A i \in 1..Len(d) : d[i] # Tab
                   /\ Spaced(d) <=> c = Space
        <4> HIDE DEF d
        <4> QED BY <3>2 DEF Spaced
      <3>3. CASE c \in {Back, Quote, Newline, Tab}
        <4>1. PICK b \in {Back, Quote, "n", "t"} : d = <<Back, b>>
          BY <3>3 DEF Escaped, Back, Quote, Newline, Tab
        <4>2. Back # Quote /\ Back # Tab /\ b # Tab /\ Back # Space /\ b # Space /\ c # Space
          BY <3>3, <4>1 DEF Back, Quote, Newline, Tab, Space
        <4> HIDE DEF d
        <4> QED BY <3>1, <4>1, <4>2
      <3>4. CASE c \notin {Back, Quote, Newline, Tab}
        <4>1. d = <<c>>
          BY <3>4 DEF Escaped
        <4> HIDE DEF d
        <4> QED BY <3>2, <3>4, <4>1
      <3> HIDE DEF d
      <3> QED BY <3>3, <3>4
    <2>3. z \in Seq(C) /\ Len(z) = Len(x) + 1 /\ z[Len(x) + 1] = c
          /\ \A i \in 1..Len(x) : z[i] = x[i]
      OBVIOUS
    <2>4. Spaced(e) <=> Spaced(x)
      OBVIOUS
    <2>5. NoTab(e) /\ NoQuote(e)
      OBVIOUS
    <2>11. e = <<>> <=> x = <<>>
      OBVIOUS
    <2> HIDE DEF e, d, z, T
    <2> DEFINE w == e \o d
    <2>6. /\ w \in Seq(C) /\ Len(w) = Len(e) + Len(d)
          /\ \A i \in 1..Len(e) : w[i] = e[i]
          /\ \A i \in 1..Len(d) : w[Len(e) + i] = d[i]
          /\ \A i \in 1..Len(w) : i \in 1..Len(e) \/ (i - Len(e) \in 1..Len(d) /\ w[i] = d[i - Len(e)])
      BY <2>1
    <2> HIDE DEF w
    <2>7. Spaced(w) <=> Spaced(z)
      <3>1. Spaced(z) <=> Spaced(x) \/ c = Space
        BY <2>3, SMTT(30) DEF Spaced
      <3>2. Spaced(w) <=> Spaced(e) \/ Spaced(d)
        <4>1. DOMAIN w = 1..Len(w) /\ DOMAIN e = 1..Len(e) /\ DOMAIN d = 1..Len(d)
              /\ Len(e) \in Nat /\ Len(d) \in Nat
          BY <2>1, <2>6
        <4>2. Spaced(w) => Spaced(e) \/ Spaced(d)
          BY <2>6, <4>1 DEF Spaced
        <4>3. Spaced(e) => Spaced(w)
          BY <2>6, <4>1 DEF Spaced
        <4>4. Spaced(d) => Spaced(w)
          <5> SUFFICES ASSUME NEW i \in 1..Len(d), d[i] = Space PROVE Spaced(w)
            BY <4>1 DEF Spaced
          <5>1. Len(e) + i \in 1..Len(w) /\ w[Len(e) + i] = Space
            BY <2>6, <4>1
          <5> QED BY <4>1, <5>1 DEF Spaced
        <4> QED BY <4>2, <4>3, <4>4
      <3> QED BY <2>2, <2>4, <3>1, <3>2
    <2>8. NoTab(w)
      <3>1. DOMAIN w = 1..Len(w) /\ DOMAIN e = 1..Len(e)
        BY <2>1, <2>6
      <3>2. \A i \in 1..Len(e) : e[i] # Tab
        BY <2>5, <3>1 DEF NoTab
      <3>3. \A i \in 1..Len(w) : w[i] # Tab
        BY <2>2, <2>6, <3>2, SMTT(30)
      <3> QED BY <3>1, <3>3 DEF NoTab
    <2>9. NoQuote(w)
      <3>1. CASE e = <<>>
        <4>1. Len(e) = 0
          BY <3>1
        <4> QED BY <2>2, <2>6, <4>1 DEF NoQuote
      <3>2. CASE e # <<>>
        <4>1. 1 \in 1..Len(e)
          BY <2>1, <3>2
        <4> QED BY <2>5, <2>6, <3>2, <4>1 DEF NoQuote
      <3> QED BY <3>1, <3>2
    <2>10. w # <<>> /\ z # <<>>
      <3>2. Len(e) \in Nat /\ Len(x) \in Nat
        BY <2>1
      <3>1. Len(w) # 0 /\ Len(z) # 0
        BY <2>2, <2>3, <2>6, <3>2
      <3> QED BY <3>1
    <2>12. escape_wire(z) = w
      BY <2>1 DEF w
    <2>13. z \in T
      BY <2>3, <2>7, <2>8, <2>9, <2>10, <2>12 DEF T
    <2> QED BY <2>13 DEF z
  <1>3. s \in T
    <2> HIDE DEF T
    <2> QED BY <1>1, <1>2, SequencesGrow
  <1> QED BY <1>3

-----------------------------------------------------------------------------
(* The splitter midway through a token.                                     *)

(* The splitter behind some tokens and with part of one read.               *)
Midway(d, o, b) == [done |-> d, open |-> o, quoted |-> b, escaped |-> FALSE]

(* The splitter goes through two texts, one behind the other.               *)
LEMMA ScanBoth ==
  ASSUME NEW C, Marks \subseteq C, NEW st \in Splits(C), NEW a \in Seq(C), NEW b \in Seq(C)
  PROVE  Scan(st, a \o b) = Scan(Scan(st, a), b)
  BY SplitSteps

(* A splitter midway through a token is in one of its states.               *)
LEMMA MidwayType ==
  ASSUME NEW C, NEW d \in Seq(Seq(C)), NEW o \in Seq(C), NEW b \in BOOLEAN
  PROVE  Midway(d, o, b) \in Splits(C)
  BY DEF Midway, Splits

(* A character that neither ends a token nor opens a quote is added to it.  *)
LEMMA ScanPlain ==
  ASSUME NEW C, Marks \subseteq C, NEW d \in Seq(Seq(C)), NEW o \in Seq(C), NEW b \in BOOLEAN,
         NEW c \in C, c \notin {Back, Quote, Tab}, b \/ c # Space
  PROVE  Scanned(Midway(d, o, b), c) = Midway(d, Append(o, c), b)
  BY DEF Scanned, Midway

(* A quotation mark opens or closes a quote.                                *)
LEMMA ScanQuote ==
  ASSUME NEW C, NEW d \in Seq(Seq(C)), NEW o \in Seq(C), NEW b \in BOOLEAN
  PROVE  Scanned(Midway(d, o, b), Quote) = Midway(d, Append(o, Quote), ~b)
  <1>1. Quote # Back /\ Quote \notin {Space, Tab}
    BY DEF Quote, Back, Space, Tab
  <1>2. Scanned(Midway(d, o, b), Quote)
          = [done |-> d, open |-> Append(o, Quote), quoted |-> ~b, escaped |-> FALSE]
    BY <1>1 DEF Scanned, Midway
  <1> QED BY <1>2 DEF Midway

(* An escaped character leaves the quoting as it is.                        *)
LEMMA ScanEscaped ==
  ASSUME NEW C, Marks \subseteq C, NEW d \in Seq(Seq(C)), NEW o \in Seq(C), NEW b \in BOOLEAN,
         NEW c \in C, b \/ c # Space
  PROVE  Scan(Midway(d, o, b), Escaped(c)) = Midway(d, o \o Escaped(c), b)
  <1>0. Back \in C /\ Quote \in C /\ "n" \in C /\ "t" \in C
    BY DEF Marks
  <1>1. CASE c \in {Back, Quote, Newline, Tab}
    <2>1. PICK x \in {Back, Quote, "n", "t"} : Escaped(c) = <<Back, x>>
      BY <1>1 DEF Escaped, Back, Quote, Newline, Tab
    <2>2. x \in C /\ x \notin {Space, Tab}
      BY <1>0, <2>1 DEF Back, Quote, Space, Tab
    <2>3. Back \notin {Space, Tab} /\ Back # Quote
      BY DEF Back, Quote, Space, Tab
    <2> DEFINE p == Append(o, Back)
               t == [done |-> d, open |-> p, quoted |-> b, escaped |-> TRUE]
    <2>4. Scanned(Midway(d, o, b), Back) = t
      BY <2>3 DEF Scanned, Midway
    <2>5. Scanned(t, x) = Midway(d, Append(p, x), b)
      BY DEF Scanned, Midway
    <2>6. p \in Seq(C) /\ Append(p, x) = o \o <<Back, x>>
      BY <1>0, <2>2, SMTT(30)
    <2>7. t \in Splits(C) /\ Midway(d, o, b) \in Splits(C)
      BY <2>6, MidwayType DEF Splits
    <2> DEFINE y == <<Back>>
               z == <<x>>
    <2>8. y \in Seq(C) /\ z \in Seq(C) /\ y \o z = <<Back, x>>
      BY <1>0, <2>2, Beside
    <2>9. Scan(Midway(d, o, b), y) = t
      BY <1>0, <2>4, <2>7, SplitSteps
    <2>10. Scan(t, z) = Midway(d, Append(p, x), b)
      <3> HIDE DEF t, p
      <3> QED BY <2>2, <2>5, <2>7, SplitSteps
    <2> HIDE DEF t, p, y, z
    <2>12. \A u, v \in Seq(C) : Scan(Midway(d, o, b), u \o v) = Scan(Scan(Midway(d, o, b), u), v)
      BY <2>7, ScanBoth
    <2>11. Scan(Midway(d, o, b), y \o z) = Scan(Scan(Midway(d, o, b), y), z)
      BY <2>8, <2>12
    <2> QED BY <2>1, <2>6, <2>8, <2>9, <2>10, <2>11
  <1>2. CASE c \notin {Back, Quote, Newline, Tab}
    <2>1. Escaped(c) = <<c>>
      BY <1>2 DEF Escaped
    <2>2. Scanned(Midway(d, o, b), c) = Midway(d, Append(o, c), b)
      BY <1>2, ScanPlain
    <2>3. Scan(Midway(d, o, b), <<c>>) = Scanned(Midway(d, o, b), c)
      BY MidwayType, SplitSteps
    <2>4. Append(o, c) = o \o <<c>>
      OBVIOUS
    <2> QED BY <2>1, <2>2, <2>3, <2>4
  <1> QED BY <1>1, <1>2

(* ... and so does an escaped text, inside quotes, or outside if it has no  *)
(* space.                                                                   *)
LEMMA ScanEscape ==
  ASSUME NEW C, Marks \subseteq C, NEW d \in Seq(Seq(C)), NEW o \in Seq(C), NEW b \in BOOLEAN,
         NEW s \in Seq(C), b \/ ~Spaced(s)
  PROVE  Scan(Midway(d, o, b), escape_wire(s)) = Midway(d, o \o escape_wire(s), b)
  <1> DEFINE st == Midway(d, o, b)
             T == {x \in Seq(C) : (b \/ ~Spaced(x)) =>
                     Scan(st, escape_wire(x)) = Midway(d, o \o escape_wire(x), b)}
  <1>1. st \in Splits(C)
    BY MidwayType
  <1>5. \A u, v \in Seq(C) : Scan(st, u \o v) = Scan(Scan(st, u), v)
    <2> HIDE DEF st
    <2> QED BY <1>1, ScanBoth
  <1>2. <<>> \in T
    <2>1. Scan(st, <<>>) = st
      BY <1>1, SplitSteps
    <2>2. escape_wire(<<>>) = <<>>
      BY EscapeMore
    <2>3. o \o <<>> = o
      OBVIOUS
    <2>4. Scan(st, escape_wire(<<>>)) = Midway(d, o \o escape_wire(<<>>), b)
      BY <2>1, <2>2, <2>3, Zenon
    <2>5. <<>> \in Seq(C)
      OBVIOUS
    <2> QED BY <2>4, <2>5, Zenon
  <1>3. \A x \in Seq(C), c \in C : x \in T => Append(x, c) \in T
    <2> SUFFICES ASSUME NEW x \in Seq(C), NEW c \in C, x \in T PROVE Append(x, c) \in T
      OBVIOUS
    <2> DEFINE z == Append(x, c)
               e == escape_wire(x)
               f == Escaped(c)
    <2>0. z \in Seq(C) /\ Len(z) = Len(x) + 1 /\ z[Len(x) + 1] = c
          /\ \A i \in 1..Len(x) : z[i] = x[i]
      OBVIOUS
    <2>1. escape_wire(z) = e \o f /\ e \in Seq(C) /\ f \in Seq(C)
      BY EscapeMore, EscapedType
    <2>2. ASSUME b \/ ~Spaced(z)
          PROVE  Scan(st, escape_wire(z)) = Midway(d, o \o escape_wire(z), b)
      <3>1. b \/ (~Spaced(x) /\ c # Space)
        <4>1. DOMAIN x = 1..Len(x) /\ DOMAIN z = 1..Len(z) /\ Len(x) \in Nat
          BY <2>0
        <4> HIDE DEF z
        <4>2. Spaced(x) => Spaced(z)
          BY <2>0, <4>1 DEF Spaced
        <4>4. Len(x) + 1 \in DOMAIN z
          BY <2>0, <4>1
        <4>3. c = Space => Spaced(z)
          BY <2>0, <4>4 DEF Spaced
        <4> QED BY <2>2, <4>2, <4>3
      <3>2. Scan(st, e) = Midway(d, o \o e, b)
        BY <3>1
      <3> HIDE DEF st, z, e, f, T
      <3>3. Scan(st, e \o f) = Scan(Scan(st, e), f)
        BY <1>5, <2>1
      <3> DEFINE p == o \o e
      <3>4. p \in Seq(C) /\ p \o f = o \o (e \o f)
        BY <2>1
      <3>6. b \/ c # Space
        BY <3>1
      <3> HIDE DEF p
      <3>8. \A u \in Seq(C) : Scan(Midway(d, u, b), Escaped(c)) = Midway(d, u \o Escaped(c), b)
        BY <3>6, ScanEscaped
      <3>5. Scan(Midway(d, p, b), f) = Midway(d, p \o f, b)
        BY <3>4, <3>8 DEF f
      <3> QED BY <2>1, <3>2, <3>3, <3>4, <3>5 DEF p
    <2> HIDE DEF st
    <2> QED BY <2>0, <2>2
  <1>4. s \in T
    <2> HIDE DEF T
    <2> QED BY <1>2, <1>3, SequencesGrow
  <1> QED BY <1>4

-----------------------------------------------------------------------------
(* Arguments: quoted, taken whole, unquoted.                                *)

(* Texts over some characters, and lists of texts.                          *)
Run(C) == Seq(C)
Runs(C) == Seq(Seq(C))

(* Texts and lists of texts.                                                *)
LEMMA RunIs ==
  ASSUME NEW C
  PROVE  /\ <<>> \in Run(C) /\ <<>> \in Runs(C)
         /\ \A c \in C : <<c>> \in Run(C)
         /\ \A u \in Run(C), c \in C : Append(u, c) \in Run(C) /\ Append(u, c) = u \o <<c>>
         /\ \A u, v \in Run(C) : u \o v \in Run(C)
         /\ \A u, v, w \in Run(C) : (u \o v) \o w = u \o (v \o w)
         /\ \A d \in Runs(C), u \in Run(C) : Append(d, u) \in Runs(C)
         /\ \A u, v \in Run(C) : u # <<>> => u \o v # <<>>
         /\ \A u \in Run(C) : u \o <<>> = u
  <1>1. ASSUME NEW u \in Run(C), NEW v \in Run(C), u # <<>> PROVE u \o v # <<>>
    <2> DEFINE w == u \o v
    <2>1. Len(w) = Len(u) + Len(v) /\ Len(u) # 0 /\ Len(u) \in Nat /\ Len(v) \in Nat
      BY <1>1 DEF Run
    <2>2. Len(w) # 0
      BY <2>1
    <2> HIDE DEF w
    <2>3. w # <<>>
      BY <2>2
    <2> QED BY <2>3 DEF w
  <1>2. \A u, v, w \in Run(C) : (u \o v) \o w = u \o (v \o w)
    BY DEF Run
  <1>3. \A u \in Run(C), c \in C : Append(u, c) \in Run(C) /\ Append(u, c) = u \o <<c>>
    BY DEF Run
  <1>4. \A d \in Runs(C), u \in Run(C) : Append(d, u) \in Runs(C)
    BY DEF Run, Runs
  <1>5. /\ <<>> \in Run(C) /\ <<>> \in Runs(C)
        /\ \A c \in C : <<c>> \in Run(C)
        /\ \A u, v \in Run(C) : u \o v \in Run(C)
    BY DEF Run, Runs
  <1>6. \A u \in Run(C) : u \o <<>> = u
    BY DEF Run
  <1> QED BY <1>1, <1>2, <1>3, <1>4, <1>5, <1>6

(* Two sequences, one behind the other.                                     *)
LEMMA Behind ==
  ASSUME NEW C, NEW a \in Run(C), NEW b \in Run(C)
  PROVE  /\ a \o b \in Run(C) /\ Len(a \o b) = Len(a) + Len(b)
         /\ \A i \in 1..Len(a) : (a \o b)[i] = a[i]
         /\ \A i \in 1..Len(b) : (a \o b)[Len(a) + i] = b[i]
         /\ Len(a) \in Nat /\ Len(b) \in Nat
  BY DEF Run

(* The splitter outside and inside quotes.                                  *)
Outside(d, o) == Midway(d, o, FALSE)
Inside(d, o) == Midway(d, o, TRUE)

(* A splitter midway goes on character by character, text by text.          *)
LEMMA MidwayScans ==
  ASSUME NEW C, Marks \subseteq C, NEW d \in Seq(Seq(C)), NEW o \in Seq(C), NEW b \in BOOLEAN
  PROVE  /\ \A u, v \in Seq(C) : Scan(Midway(d, o, b), u \o v) = Scan(Scan(Midway(d, o, b), u), v)
         /\ \A c \in C : Scan(Midway(d, o, b), <<c>>) = Scanned(Midway(d, o, b), c)
  <1> DEFINE st == Midway(d, o, b)
  <1>1. st \in Splits(C)
    BY MidwayType
  <1> HIDE DEF st
  <1>2. \A u, v \in Seq(C) : Scan(st, u \o v) = Scan(Scan(st, u), v)
    BY <1>1, ScanBoth
  <1>3. \A c \in C : Scan(st, <<c>>) = Scanned(st, c)
    BY <1>1, SplitSteps
  <1> QED BY <1>2, <1>3 DEF st

(* Outside quotes it takes what is no blank, and escaped text without       *)
(* blanks.                                                                  *)
LEMMA OutsideScans ==
  ASSUME NEW C, Marks \subseteq C, NEW d \in Runs(C), NEW o \in Run(C)
  PROVE  /\ \A u, v \in Run(C) : Scan(Outside(d, o), u \o v) = Scan(Scan(Outside(d, o), u), v)
         /\ \A c \in C \ {Back, Quote, Tab, Space} :
              Scan(Outside(d, o), <<c>>) = Outside(d, o \o <<c>>)
         /\ Scan(Outside(d, o), <<Quote>>) = Inside(d, o \o <<Quote>>)
         /\ \A s \in Run(C) : ~Spaced(s) =>
              Scan(Outside(d, o), escape_wire(s)) = Outside(d, o \o escape_wire(s))
  <1>0. d \in Seq(Seq(C)) /\ o \in Seq(C) /\ Quote \in C
    BY DEF Run, Runs, Marks
  <1>1. PICK b \in BOOLEAN : b = FALSE
    OBVIOUS
  <1>2. /\ \A u, v \in Seq(C) : Scan(Midway(d, o, b), u \o v) = Scan(Scan(Midway(d, o, b), u), v)
        /\ \A c \in C : Scan(Midway(d, o, b), <<c>>) = Scanned(Midway(d, o, b), c)
    BY <1>0, MidwayScans
  <1>3. \A u, v \in Run(C) : Scan(Outside(d, o), u \o v) = Scan(Scan(Outside(d, o), u), v)
    BY <1>1, <1>2 DEF Outside, Run
  <1>4. ASSUME NEW c \in C \ {Back, Quote, Tab, Space}
        PROVE  Scan(Outside(d, o), <<c>>) = Outside(d, o \o <<c>>)
    <2>1. Scanned(Midway(d, o, b), c) = Midway(d, Append(o, c), b)
      BY <1>0, ScanPlain
    <2>2. Scan(Midway(d, o, b), <<c>>) = Midway(d, Append(o, c), b)
      BY <1>2, <2>1
    <2>3. Append(o, c) = o \o <<c>>
      BY <1>0
    <2> QED BY <1>1, <2>2, <2>3 DEF Outside
  <1>5. Scan(Outside(d, o), <<Quote>>) = Inside(d, o \o <<Quote>>)
    <2>1. Scanned(Midway(d, o, b), Quote) = Midway(d, Append(o, Quote), ~b)
      BY <1>0, ScanQuote
    <2>2. Scan(Midway(d, o, b), <<Quote>>) = Midway(d, Append(o, Quote), ~b)
      BY <1>0, <1>2, <2>1
    <2>3. Append(o, Quote) = o \o <<Quote>>
      BY <1>0
    <2>4. ~b = TRUE
      BY <1>1
    <2> QED BY <1>1, <2>2, <2>3, <2>4 DEF Outside, Inside
  <1>6. ASSUME NEW s \in Run(C), ~Spaced(s)
        PROVE  Scan(Outside(d, o), escape_wire(s)) = Outside(d, o \o escape_wire(s))
    <2>1. s \in Seq(C)
      BY DEF Run
    <2>2. Scan(Midway(d, o, b), escape_wire(s)) = Midway(d, o \o escape_wire(s), b)
      BY <1>0, <1>6, <2>1, ScanEscape
    <2> QED BY <1>1, <2>2 DEF Outside
  <1> QED BY <1>3, <1>4, <1>5, <1>6

(* Inside quotes it takes any escaped text, up to the quote that ends it.   *)
LEMMA InsideScans ==
  ASSUME NEW C, Marks \subseteq C, NEW d \in Runs(C), NEW o \in Run(C)
  PROVE  /\ Scan(Inside(d, o), <<Quote>>) = Outside(d, o \o <<Quote>>)
         /\ \A s \in Run(C) :
              Scan(Inside(d, o), escape_wire(s)) = Inside(d, o \o escape_wire(s))
  <1>0. d \in Seq(Seq(C)) /\ o \in Seq(C) /\ Quote \in C
    BY DEF Run, Runs, Marks
  <1>1. PICK b \in BOOLEAN : b = TRUE
    OBVIOUS
  <1>2. /\ \A u, v \in Seq(C) : Scan(Midway(d, o, b), u \o v) = Scan(Scan(Midway(d, o, b), u), v)
        /\ \A c \in C : Scan(Midway(d, o, b), <<c>>) = Scanned(Midway(d, o, b), c)
    BY <1>0, MidwayScans
  <1>3. Scan(Inside(d, o), <<Quote>>) = Outside(d, o \o <<Quote>>)
    <2>1. Scanned(Midway(d, o, b), Quote) = Midway(d, Append(o, Quote), ~b)
      BY <1>0, ScanQuote
    <2>2. Scan(Midway(d, o, b), <<Quote>>) = Midway(d, Append(o, Quote), ~b)
      BY <1>0, <1>2, <2>1
    <2>3. Append(o, Quote) = o \o <<Quote>>
      BY <1>0
    <2>4. ~b = FALSE
      BY <1>1
    <2> QED BY <1>1, <2>2, <2>3, <2>4 DEF Outside, Inside
  <1>4. ASSUME NEW s \in Run(C)
        PROVE  Scan(Inside(d, o), escape_wire(s)) = Inside(d, o \o escape_wire(s))
    <2>1. s \in Seq(C)
      BY DEF Run
    <2>2. Scan(Midway(d, o, b), escape_wire(s)) = Midway(d, o \o escape_wire(s), b)
      BY <1>0, <1>1, <2>1, ScanEscape, ZenonT(60)
    <2> QED BY <1>1, <2>2 DEF Inside
  <1> QED BY <1>3, <1>4

-----------------------------------------------------------------------------
(* What the splitter takes into the token it reads, whole, and leaves it    *)
(* outside quotes.                                                          *)
TakenWhole(C, w) == \A d \in Runs(C), o \in Run(C) :
                      Scan(Outside(d, o), w) = Outside(d, o \o w)

Token(C) == {w \in Run(C) : w # <<>> /\ TakenWhole(C, w)}

(* Two tokens beside each other are one.                                    *)
LEMMA TokensJoin ==
  ASSUME NEW C, Marks \subseteq C, NEW u \in Token(C), NEW w \in Token(C)
  PROVE  u \o w \in Token(C)
  <1>1. u \in Run(C) /\ w \in Run(C) /\ u # <<>> /\ TakenWhole(C, u) /\ TakenWhole(C, w)
    BY DEF Token
  <1>2. u \o w \in Run(C) /\ u \o w # <<>>
    BY <1>1, RunIs
  <1>3. ASSUME NEW d \in Runs(C), NEW o \in Run(C)
        PROVE  Scan(Outside(d, o), u \o w) = Outside(d, o \o (u \o w))
    <2>1. Scan(Outside(d, o), u \o w) = Scan(Scan(Outside(d, o), u), w)
      BY <1>1, OutsideScans
    <2>2. Scan(Outside(d, o), u) = Outside(d, o \o u)
      BY <1>1 DEF TakenWhole
    <2>3. o \o u \in Run(C) /\ (o \o u) \o w = o \o (u \o w)
      BY <1>1, RunIs
    <2>4. Scan(Outside(d, o \o u), w) = Outside(d, (o \o u) \o w)
      BY <1>1, <2>3 DEF TakenWhole
    <2> QED BY <2>1, <2>2, <2>3, <2>4
  <1>4. TakenWhole(C, u \o w)
    BY <1>3 DEF TakenWhole
  <1> QED BY <1>2, <1>4 DEF Token

(* A character that is no blank, quote or backslash is a token.             *)
LEMMA PlainIsToken ==
  ASSUME NEW C, Marks \subseteq C, NEW c \in C \ {Back, Quote, Tab, Space}
  PROVE  <<c>> \in Token(C)
  <1>1. TakenWhole(C, <<c>>)
    BY OutsideScans DEF TakenWhole
  <1>2. <<c>> \in Run(C)
    BY RunIs
  <1>3. <<c>> # <<>>
    OBVIOUS
  <1> QED BY <1>1, <1>2, <1>3 DEF Token

(* How an argument is written.                                              *)
Quoted(s) == s = <<>> \/ Spaced(s)

(* An argument is quoted when it is empty or has a blank.                   *)
LEMMA WordIs ==
  ASSUME NEW C, Marks \subseteq C, NEW s \in Seq(C)
  PROVE  Word(s) = IF Quoted(s) THEN <<Quote>> \o escape_wire(s) \o <<Quote>> ELSE escape_wire(s)
  <1> DEFINE e == escape_wire(s)
  <1>1. e \in Seq(C) /\ DOMAIN e = 1..Len(e)
    <2>1. e \in Seq(C)
      BY EscapeMore
    <2> HIDE DEF e
    <2> QED BY <2>1
  <1>2. (Spaced(e) <=> Spaced(s)) /\ NoTab(e) /\ (e = <<>> <=> s = <<>>)
    BY EscapedShape
  <1> HIDE DEF e
  <1>3. (Contains(e, Space) <=> Spaced(e)) /\ ~Contains(e, Tab)
    BY <1>1, <1>2 DEF Contains, Spaced, NoTab
  <1> QED BY <1>2, <1>3 DEF Word, quote_arg, Quoted, e

(* An argument, however it is written, is a token.                          *)
LEMMA WordIsToken ==
  ASSUME NEW C, Marks \subseteq C, NEW s \in Run(C)
  PROVE  Word(s) \in Token(C)
  <1> DEFINE e == escape_wire(s)
             h == <<Quote>>
  <1>0. s \in Seq(C) /\ Quote \in C
    BY DEF Marks, Run
  <1>1. e \in Run(C) /\ h \in Run(C)
    BY <1>0, EscapeMore, RunIs DEF Run
  <1>2. Word(s) = (IF Quoted(s) THEN (h \o e) \o h ELSE e) /\ (e = <<>> <=> s = <<>>)
    BY <1>0, WordIs, EscapedShape
  <1>3. CASE ~Quoted(s)
    <2>1. TakenWhole(C, e)
      BY <1>3, OutsideScans DEF TakenWhole, Quoted
    <2> HIDE DEF e
    <2> QED BY <1>1, <1>2, <1>3, <2>1 DEF Token, Quoted
  <1>4. CASE Quoted(s)
    <2>1. ASSUME NEW d \in Runs(C), NEW o \in Run(C)
          PROVE  Scan(Outside(d, o), (h \o e) \o h) = Outside(d, o \o ((h \o e) \o h))
      <3>1. Scan(Outside(d, o), h) = Inside(d, o \o h)
        BY OutsideScans
      <3>2. \A p \in Run(C) : Scan(Inside(d, p), e) = Inside(d, p \o e)
        BY InsideScans
      <3>3. \A p \in Run(C) : Scan(Inside(d, p), h) = Outside(d, p \o h)
        BY InsideScans
      <3> HIDE DEF h, e
      <3>4. o \o h \in Run(C) /\ (o \o h) \o e \in Run(C) /\ h \o e \in Run(C)
        BY <1>1, RunIs
      <3>5. ((o \o h) \o e) \o h = o \o ((h \o e) \o h)
        <4>1. (o \o h) \o e = o \o (h \o e)
          <5>1. \A x, y, z \in Run(C) : (x \o y) \o z = x \o (y \o z)
            BY RunIs
          <5> QED BY <1>1, <5>1
        <4> DEFINE g == h \o e
        <4>3. g \in Run(C)
          BY <3>4
        <4> HIDE DEF g
        <4>4. (o \o g) \o h = o \o (g \o h)
          <5>1. \A x, y, z \in Run(C) : (x \o y) \o z = x \o (y \o z)
            BY RunIs
          <5> QED BY <1>1, <4>3, <5>1
        <4>2. (o \o (h \o e)) \o h = o \o ((h \o e) \o h)
          BY <4>4 DEF g
        <4> QED BY <4>1, <4>2
      <3>6. Scan(Outside(d, o), (h \o e) \o h) = Scan(Scan(Outside(d, o), h \o e), h)
        BY <1>1, <3>4, OutsideScans
      <3>7. Scan(Outside(d, o), h \o e) = Scan(Scan(Outside(d, o), h), e)
        BY <1>1, OutsideScans
      <3> QED BY <3>1, <3>2, <3>3, <3>4, <3>5, <3>6, <3>7
    <2>2. TakenWhole(C, (h \o e) \o h)
      <3> HIDE DEF h, e
      <3> QED BY <2>1 DEF TakenWhole
    <2>3. h # <<>>
      OBVIOUS
    <2> HIDE DEF h, e
    <2>4. h \o e \in Run(C) /\ h \o e # <<>>
      BY <1>1, <2>3, RunIs
    <2>5. (h \o e) \o h \in Run(C) /\ (h \o e) \o h # <<>>
      BY <1>1, <2>4, RunIs
    <2> QED BY <1>2, <1>4, <2>2, <2>5 DEF Token
  <1> QED BY <1>3, <1>4

(* The quotes come off again.                                               *)
LEMMA StripWord ==
  ASSUME NEW C, Marks \subseteq C, NEW s \in Seq(C)
  PROVE  strip_quotes(Word(s)) = escape_wire(s)
  <1> DEFINE e == escape_wire(s)
             h == <<Quote>>
             w == h \o e \o h
  <1>0. e \in Seq(C) /\ Quote \in C
    BY EscapeMore DEF Marks
  <1>1. Word(s) = IF Quoted(s) THEN w ELSE e
    BY WordIs
  <1>2. NoQuote(e) /\ (e = <<>> <=> s = <<>>)
    BY EscapedShape
  <1>3. CASE ~Quoted(s)
    <2>1. Word(s) = e /\ e # <<>> /\ e[1] # Quote
      BY <1>1, <1>2, <1>3 DEF Quoted, NoQuote
    <2> HIDE DEF e
    <2>2. Head(e) = e[1]
      BY <1>0, <2>1
    <2>3. strip_quotes(e) = e
      BY <2>1, <2>2 DEF strip_quotes
    <2> QED BY <2>1, <2>3 DEF e
  <1>4. CASE Quoted(s)
    <2>1. h \in Seq(C) /\ Len(h) = 1 /\ h[1] = Quote
      BY <1>0
    <2> HIDE DEF e, h
    <2>8. h \in Run(C) /\ e \in Run(C) /\ 1 \in 1..1
      BY <1>0, <2>1 DEF Run
    <2>2. /\ w \in Seq(C) /\ Len(w) = Len(e) + 2 /\ Len(e) \in Nat
          /\ w[1] = Quote /\ w[Len(e) + 2] = Quote
          /\ \A i \in 1..Len(e) : w[i + 1] = e[i]
      <3> DEFINE u == h \o e
      <3>1. /\ u \in Seq(C) /\ Len(u) = Len(e) + 1 /\ Len(e) \in Nat /\ u[1] = Quote
            /\ \A i \in 1..Len(e) : u[i + 1] = e[i]
        <4>3. /\ u \in Run(C) /\ Len(u) = Len(h) + Len(e) /\ Len(e) \in Nat
              /\ \A i \in 1..Len(h) : u[i] = h[i]
              /\ \A i \in 1..Len(e) : u[Len(h) + i] = e[i]
          BY <2>8, Behind
        <4>1. /\ u \in Seq(C) /\ Len(u) = 1 + Len(e) /\ Len(e) \in Nat /\ u[1] = h[1]
              /\ \A i \in 1..Len(e) : u[1 + i] = e[i]
          BY <2>1, <2>8, <4>3 DEF Run
        <4> HIDE DEF u
        <4>2. \A i \in 1..Len(e) : 1 + i = i + 1
          BY <4>1
        <4> QED BY <2>1, <4>1, <4>2
      <3> HIDE DEF u
      <3> DEFINE v == u \o h
      <3>2. /\ v \in Seq(C) /\ Len(v) = Len(u) + 1 /\ v[Len(u) + 1] = Quote
            /\ \A i \in 1..Len(u) : v[i] = u[i]
        <4>1. u \in Run(C)
          BY <3>1 DEF Run
        <4>2. /\ v \in Run(C) /\ Len(v) = Len(u) + Len(h)
              /\ \A i \in 1..Len(u) : v[i] = u[i]
              /\ \A i \in 1..Len(h) : v[Len(u) + i] = h[i]
          BY <2>8, <4>1, Behind
        <4> HIDE DEF v
        <4> QED BY <2>1, <2>8, <4>2 DEF Run
      <3> HIDE DEF v
      <3>3. v[1] = Quote /\ \A i \in 1..Len(e) : v[i + 1] = e[i]
        BY <3>1, <3>2
      <3>4. v = w
        BY DEF u, v
      <3> QED BY <3>1, <3>2, <3>3, <3>4
    <2>3. Word(s) = w
      BY <1>1, <1>4
    <2> HIDE DEF w
    <2>4. Head(w) = Quote /\ Last(w) = Quote /\ Len(w) >= 2
      BY <2>2 DEF Last
    <2>5. strip_quotes(w) = SubSeq(w, 2, Len(w) - 1)
      BY <2>4 DEF strip_quotes
    <2> DEFINE x == SubSeq(w, 2, Len(w) - 1)
    <2>6. x \in Seq(C) /\ Len(x) = Len(e) /\ \A i \in 1..Len(e) : x[i] = w[i + 1]
      BY <2>2
    <2> HIDE DEF x
    <2>7. x = e
      BY <1>0, <2>2, <2>6, SameSequence
    <2> QED BY <2>3, <2>5, <2>7 DEF x, e
  <1> QED BY <1>3, <1>4

(* What is left of two texts without the first is the second.               *)
LEMMA Dropped ==
  ASSUME NEW C, NEW a \in Run(C), NEW b \in Run(C)
  PROVE  SubSeq(a \o b, Len(a) + 1, Len(a \o b)) = b
  <1> DEFINE w == a \o b
             x == SubSeq(w, Len(a) + 1, Len(w))
  <1>1. /\ w \in Run(C) /\ Len(w) = Len(a) + Len(b) /\ Len(a) \in Nat /\ Len(b) \in Nat
        /\ \A i \in 1..Len(b) : w[Len(a) + i] = b[i]
    BY Behind
  <1> HIDE DEF w
  <1>2. x \in Seq(C) /\ Len(x) = Len(b) /\ \A i \in 1..Len(b) : x[i] = w[Len(a) + i]
    BY <1>1 DEF Run
  <1>3. b \in Seq(C)
    BY DEF Run
  <1> HIDE DEF x
  <1>4. x = b
    BY <1>1, <1>2, <1>3, SameSequence
  <1> QED BY <1>4 DEF x, w

-----------------------------------------------------------------------------
(* How a flag is written, and read.                                         *)
Dashes == <<"-", "-">>
Naming(n, v) == IF v = <<>> THEN <<n>> ELSE <<n>> \o (<<"=">> \o Word(v[1]))

(* A flag is two dashes, a name and, if it has one, a value.                *)
LEMMA FlagIs ==
  ASSUME NEW C, Marks \subseteq C, NEW n \in C, NEW v \in Values(C)
  PROVE  /\ FlagWord(<<n>>, v) = Dashes \o Naming(n, v)
         /\ v = <<>> \/ (\E x \in Run(C) : v = <<x>> /\ v # <<>> /\ v[1] = x)
  <1> DEFINE h == Dashes
             a == <<n>>
             e == <<"=">>
  <1>1. h \in Run(C) /\ a \in Run(C) /\ e \in Run(C)
    BY DEF Marks, Run, Dashes
  <1>2. CASE v = <<>>
    <2>1. h \o a \in Run(C)
      BY <1>1, RunIs
    <2>2. (h \o a) \o <<>> = h \o a
      BY <2>1, RunIs
    <2> QED BY <1>2, <2>2 DEF FlagWord, Naming, Dashes
  <1>3. ASSUME NEW x \in Seq(C), v = <<x>> PROVE FlagWord(<<n>>, v) = Dashes \o Naming(n, v)
    <2> DEFINE w == Word(x)
    <2>1. v # <<>> /\ v[1] = x
      BY <1>3
    <2>2. x \in Run(C)
      BY DEF Run
    <2>3. w \in Run(C)
      BY <2>2, WordIsToken DEF Token
    <2> DEFINE r == e \o w
    <2> HIDE DEF h, a, e, w
    <2>4. r \in Run(C)
      BY <1>1, <2>3, RunIs
    <2> HIDE DEF r
    <2>5. (h \o a) \o r = h \o (a \o r)
      <3>1. \A s, t, u \in Run(C) : (s \o t) \o u = s \o (t \o u)
        BY RunIs
      <3> QED BY <1>1, <2>4, <3>1
    <2>6. FlagWord(<<n>>, v) = (h \o a) \o r
      BY <2>1 DEF FlagWord, h, a, e, w, r, Dashes
    <2>7. Naming(n, v) = a \o r
      BY <2>1 DEF Naming, a, e, w, r
    <2> QED BY <2>5, <2>6, <2>7 DEF h
  <1>4. v = <<>> \/ \E x \in Seq(C) : v = <<x>>
    BY DEF Values
  <1>5. ASSUME NEW x \in Seq(C), v = <<x>> PROVE x \in Run(C) /\ v # <<>> /\ v[1] = x
    BY <1>5 DEF Run
  <1> QED BY <1>2, <1>3, <1>4, <1>5

(* A flag, however its value is written, is a token.                        *)
LEMMA FlagIsToken ==
  ASSUME NEW C, Marks \subseteq C, NEW n \in C \ Special, NEW v \in Values(C)
  PROVE  FlagWord(<<n>>, v) \in Token(C)
  <1>1. "-" \in C /\ "=" \in C
    BY DEF Marks
  <1>2. {"-", "=", n} \cap {Back, Quote, Tab, Space} = {}
    BY DEF Special, Back, Quote, Tab, Space
  <1>3. <<"-">> \in Token(C) /\ <<"=">> \in Token(C) /\ <<n>> \in Token(C)
    BY <1>1, <1>2, PlainIsToken
  <1>4. Dashes \in Token(C)
    <2>1. <<"-">> \o <<"-">> = Dashes
      BY Beside DEF Dashes
    <2>2. <<"-">> \o <<"-">> \in Token(C)
      BY <1>3, TokensJoin
    <2> QED BY <2>1, <2>2
  <1>5. Naming(n, v) \in Token(C)
    <2>1. CASE v = <<>>
      BY <1>3, <2>1 DEF Naming
    <2>2. ASSUME NEW x \in Run(C), v # <<>>, v[1] = x PROVE Naming(n, v) \in Token(C)
      <3>1. Word(x) \in Token(C)
        BY WordIsToken
      <3> DEFINE e == <<"=">>
                 a == <<n>>
                 w == Word(x)
      <3>2. e \in Token(C) /\ a \in Token(C) /\ w \in Token(C) /\ Naming(n, v) = a \o (e \o w)
        BY <1>3, <2>2, <3>1 DEF Naming
      <3> HIDE DEF e, a, w
      <3>3. e \o w \in Token(C)
        BY <3>2, TokensJoin
      <3>4. a \o (e \o w) \in Token(C)
        BY <3>2, <3>3, TokensJoin
      <3> QED BY <3>2, <3>4
    <2> QED BY <2>1, <2>2, FlagIs
  <1>6. Dashes \o Naming(n, v) \in Token(C)
    BY <1>4, <1>5, TokensJoin
  <1> QED BY <1>6, FlagIs

(* A flag is recognised and read back as it was written.                    *)
LEMMA FlagIsRead ==
  ASSUME NEW C, Marks \subseteq C, NEW n \in C \ Special, NEW v \in Values(C)
  PROVE  LET token == FlagWord(<<n>>, v) IN
         IsFlag(token) /\ FlagOf(SubSeq(token, 3, Len(token))) = [name |-> <<n>>, value |-> v]
  <1> DEFINE r == Naming(n, v)
             token == FlagWord(<<n>>, v)
  <1>1. Dashes \in Run(C) /\ Len(Dashes) = 2 /\ Dashes[1] = "-" /\ Dashes[2] = "-"
    BY DEF Marks, Run, Dashes
  <1>2. r \in Run(C) /\ token = Dashes \o r
    <2>1. v = <<>> => r \in Run(C)
      BY RunIs DEF Naming
    <2>2. ASSUME NEW x \in Run(C), v # <<>>, v[1] = x PROVE r \in Run(C)
      <3> DEFINE e == <<"=">>
                 a == <<n>>
                 w == Word(x)
      <3>1. w \in Run(C)
        BY WordIsToken DEF Token
      <3>2. e \in Run(C) /\ a \in Run(C)
        BY DEF Run, Marks
      <3>3. r = a \o (e \o w)
        BY <2>2 DEF Naming
      <3> HIDE DEF e, a, w, r
      <3>4. e \o w \in Run(C)
        BY <3>1, <3>2, RunIs
      <3>5. a \o (e \o w) \in Run(C)
        BY <3>2, <3>4, RunIs
      <3> QED BY <3>3, <3>5
    <2> QED BY <2>1, <2>2, FlagIs
  <1>3. IsFlag(token)
    <2> HIDE DEF r
    <2> DEFINE w == Dashes \o r
    <2>1. /\ Len(w) = Len(Dashes) + Len(r) /\ Len(r) \in Nat
          /\ \A i \in 1..Len(Dashes) : w[i] = Dashes[i]
      BY <1>1, <1>2, Behind, ZenonT(60)
    <2> HIDE DEF w
    <2>2. Len(w) >= 2 /\ w[1] = "-" /\ w[2] = "-"
      BY <1>1, <2>1
    <2> QED BY <1>2, <2>2 DEF IsFlag, w
  <1>4. SubSeq(token, 3, Len(token)) = r
    <2> HIDE DEF r
    <2>1. SubSeq(Dashes \o r, Len(Dashes) + 1, Len(Dashes \o r)) = r
      BY <1>1, <1>2, Dropped
    <2>2. Len(Dashes) + 1 = 3
      BY <1>1
    <2> QED BY <1>2, <2>1, <2>2
  <1>5. n # "="
    BY DEF Special
  <1>6. r \in Seq(C)
    BY <1>2 DEF Run
  <1>7. FlagOf(r) = [name |-> <<n>>, value |-> v]
    <2>0. FlagOf(r) = IF EqualsAt(r) = 0 THEN [name |-> r, value |-> <<>>]
                      ELSE [name |-> SubSeq(r, 1, EqualsAt(r) - 1),
                            value |-> <<unescape_wire(strip_quotes(SubSeq(r, EqualsAt(r) + 1, Len(r))))>>]
      BY DEF FlagOf, EqualsAt
    <2>1. CASE v = <<>>
      <3>1. r = <<n>>
        BY <2>1 DEF Naming
      <3>2. Len(r) = 1 /\ r[1] = n
        BY <3>1
      <3> HIDE DEF r
      <3>3. EqualsAt(r) \in 0..1 /\ (EqualsAt(r) # 0 => r[EqualsAt(r)] = "=")
        BY <1>6, <3>2, FirstEquals
      <3>4. EqualsAt(r) = 0
        BY <1>5, <3>2, <3>3
      <3> QED BY <2>0, <2>1, <3>1, <3>4
    <2>2. ASSUME NEW x \in Run(C), v = <<x>>, v # <<>>, v[1] = x
          PROVE  FlagOf(r) = [name |-> <<n>>, value |-> v]
      <3> DEFINE e == <<"=">>
                 a == <<n>>
                 w == Word(x)
                 m == a \o e
      <3>1. w \in Run(C)
        BY WordIsToken DEF Token
      <3>2. e \in Run(C) /\ a \in Run(C) /\ m = <<n, "=">>
        BY Beside DEF Run, Marks
      <3>3. r = a \o (e \o w)
        BY <2>2 DEF Naming
      <3>4. m \in Run(C) /\ Len(m) = 2 /\ m[1] = n /\ m[2] = "="
        BY <3>2 DEF Run, Marks
      <3>5. r = m \o w
        <4> HIDE DEF e, a, w, r
        <4>1. \A s, t, u \in Run(C) : (s \o t) \o u = s \o (t \o u)
          BY RunIs
        <4> QED BY <3>1, <3>2, <3>3, <4>1
      <3> HIDE DEF e, a, w, m, r
      <3>6. /\ Len(r) = Len(m) + Len(w) /\ Len(w) \in Nat
            /\ \A i \in 1..Len(m) : r[i] = m[i]
        BY <3>1, <3>4, <3>5, Behind, ZenonT(60)
      <3>7. r[1] = n /\ r[2] = "=" /\ 1 \in 1..Len(r) /\ 2 \in 1..Len(r)
        BY <3>4, <3>6
      <3>8. EqualsAt(r) = 2
        <4>1. /\ EqualsAt(r) \in 0..Len(r)
              /\ EqualsAt(r) = 0 => \A i \in 1..Len(r) : r[i] # "="
              /\ EqualsAt(r) # 0 => r[EqualsAt(r)] = "="
              /\ \A i \in 1..Len(r) : i < EqualsAt(r) => r[i] # "="
          BY <1>6, FirstEquals
        <4>2. EqualsAt(r) # 0 /\ EqualsAt(r) # 1 /\ ~(2 < EqualsAt(r))
          BY <1>5, <3>7, <4>1
        <4> QED BY <3>6, <4>1, <4>2
      <3>9. SubSeq(r, 3, Len(r)) = w
        <4>1. SubSeq(m \o w, Len(m) + 1, Len(m \o w)) = w
          BY <3>1, <3>4, Dropped
        <4>2. Len(m) + 1 = 3
          BY <3>4
        <4> QED BY <3>5, <4>1, <4>2
      <3>10. SubSeq(r, 1, 1) = <<n>>
        <4> DEFINE p == SubSeq(r, 1, 1)
        <4>1. p \in Seq(C) /\ Len(p) = 1 /\ p[1] = n
          BY <1>6, <3>7
        <4> HIDE DEF p
        <4>2. p = <<p[1]>>
          BY <4>1
        <4> QED BY <4>1, <4>2 DEF p
      <3>11. unescape_wire(strip_quotes(w)) = x
        BY StripWord, UnescapeEscape DEF w, Run
      <3>12. 2 - 1 = 1 /\ 2 + 1 = 3 /\ 2 # 0
        OBVIOUS
      <3> QED BY <2>0, <2>2, <3>8, <3>9, <3>10, <3>11, <3>12
    <2> QED BY <2>1, <2>2, FlagIs
  <1> QED BY <1>3, <1>4, <1>7

-----------------------------------------------------------------------------
(* Lines: tokens behind tokens.                                             *)

(* Tokens, each behind a space.                                             *)
Spread(ws) == FlattenSeq([i \in DOMAIN ws |-> <<Space>> \o ws[i]])

(* One token more is a space and the token at the end of the line.          *)
LEMMA SpreadMore ==
  ASSUME NEW C, Marks \subseteq C
  PROVE  /\ Spread(<<>>) = <<>>
         /\ \A ws \in Seq(Run(C)) : Spread(ws) \in Run(C)
         /\ \A ws \in Seq(Run(C)), w \in Run(C) :
              Spread(Append(ws, w)) = Spread(ws) \o (<<Space>> \o w)
  <1> DEFINE each(ws) == [i \in DOMAIN ws |-> <<Space>> \o ws[i]]
  <1>1. \A w \in Run(C) : <<Space>> \o w \in Seq(C)
    BY RunIs DEF Run, Marks
  <1>2. ASSUME NEW ws \in Seq(Run(C)) PROVE each(ws) \in Seq(Seq(C))
    <2>1. Len(ws) \in Nat /\ DOMAIN ws = 1..Len(ws) /\ \A i \in 1..Len(ws) : ws[i] \in Run(C)
      OBVIOUS
    <2> QED BY <1>1, <2>1
  <1>3. Spread(<<>>) = <<>>
    <2> DEFINE e == <<>>
    <2>1. each(e) = e
      OBVIOUS
    <2>2. FlattenSeq(e) = e
      BY FlattenNothing
    <2> QED BY <2>1, <2>2 DEF Spread
  <1>4. \A ws \in Seq(Run(C)) : Spread(ws) = FlattenSeq(each(ws))
    BY DEF Spread
  <1>5. \A ws \in Seq(Run(C)) : Spread(ws) \in Run(C)
    <2> HIDE DEF each
    <2> QED BY <1>2, <1>4, FlattenMore DEF Run
  <1>6. ASSUME NEW ws \in Seq(Run(C)), NEW w \in Run(C)
        PROVE  Spread(Append(ws, w)) = Spread(ws) \o (<<Space>> \o w)
    <2> DEFINE z == Append(ws, w)
               x == each(ws)
               y == <<Space>> \o w
    <2>1. /\ z \in Seq(Run(C)) /\ Len(z) = Len(ws) + 1 /\ z[Len(ws) + 1] = w
          /\ \A i \in 1..Len(ws) : z[i] = ws[i]
      <3> DEFINE R == Run(C)
      <3> HIDE DEF R
      <3>1. ws \in Seq(R) /\ w \in R
        BY DEF R
      <3>2. /\ z \in Seq(R) /\ Len(z) = Len(ws) + 1 /\ z[Len(ws) + 1] = w
            /\ \A i \in 1..Len(ws) : z[i] = ws[i]
        BY <3>1
      <3> QED BY <3>2 DEF R
    <2>2. x \in Seq(Seq(C)) /\ y \in Seq(C) /\ each(z) \in Seq(Seq(C))
      <3>1. z \in Seq(Run(C))
        BY <2>1
      <3> HIDE DEF z, each
      <3> QED BY <1>1, <1>2, <3>1
    <2>3. Len(x) = Len(ws) /\ Len(each(z)) = Len(z)
          /\ (\A i \in 1..Len(ws) : x[i] = <<Space>> \o ws[i])
          /\ \A i \in 1..Len(z) : each(z)[i] = <<Space>> \o z[i]
      <3> HIDE DEF z
      <3> QED BY <2>1
    <2>4. each(z) = Append(x, y)
      <3> DEFINE a == each(z)
                 b == Append(x, y)
                 D == Seq(C)
      <3>0. x \in Seq(D) /\ y \in D /\ a \in Seq(D)
        BY <2>2
      <3> HIDE DEF D
      <3>1. b \in Seq(D) /\ Len(b) = Len(x) + 1 /\ b[Len(x) + 1] = y
            /\ \A i \in 1..Len(x) : b[i] = x[i]
        <4> HIDE DEF x, y
        <4> QED BY <3>0
      <3>2. Len(a) = Len(ws) + 1 /\ a[Len(ws) + 1] = y /\ \A i \in 1..Len(ws) : a[i] = x[i]
        BY <2>1, <2>3
      <3>3. Len(ws) \in Nat /\ Len(x) = Len(ws)
        BY <2>3
      <3> HIDE DEF a, b, x, y
      <3>4. ASSUME NEW i \in 1..Len(a) PROVE a[i] = b[i]
        <4>1. CASE i \in 1..Len(ws)
          BY <3>1, <3>2, <3>3, <4>1
        <4>2. CASE i = Len(ws) + 1
          BY <3>1, <3>2, <3>3, <4>2
        <4> QED BY <3>2, <3>3, <4>1, <4>2
      <3>5. Len(a) = Len(b)
        BY <3>1, <3>2, <3>3
      <3>6. a = b
        BY <3>0, <3>1, <3>4, <3>5, SameSequence
      <3> QED BY <3>6 DEF a, b
    <2> HIDE DEF x, y, z, each
    <2>5. FlattenSeq(Append(x, y)) = FlattenSeq(x) \o y
      BY <2>2, FlattenMore
    <2>6. FlattenSeq(x) = Spread(ws)
      BY <1>4 DEF x
    <2> QED BY <1>4, <2>1, <2>4, <2>5, <2>6 DEF y, z
  <1> QED BY <1>3, <1>5, <1>6

-----------------------------------------------------------------------------
(* The splitter has read some tokens, the last of them to its end.          *)
Reached(C, t, ts) == \E d \in Runs(C), o \in Run(C) :
                       t = Outside(d, o) /\ o # <<>> /\ Append(d, o) = ts

(* A splitter that reads one more token has read it too.                    *)
LEMMA TokenRead ==
  ASSUME NEW C, Marks \subseteq C, NEW t, NEW ts, Reached(C, t, ts), NEW w \in Token(C)
  PROVE  Reached(C, Scan(t, <<Space>> \o w), Append(ts, w))
  <1>1. PICK d \in Runs(C), o \in Run(C) : t = Outside(d, o) /\ o # <<>> /\ Append(d, o) = ts
    BY DEF Reached
  <1> DEFINE g == <<Space>>
             e == <<>>
  <1>2. g \in Run(C) /\ w \in Run(C) /\ e \in Run(C) /\ ts \in Runs(C)
    BY <1>1, RunIs DEF Marks, Token
  <1>3. Scan(t, g \o w) = Scan(Scan(t, g), w)
    <2> HIDE DEF g, e
    <2> QED BY <1>1, <1>2, OutsideScans
  <1>4. Scan(t, g) = Outside(ts, e)
    <2>1. t \in Splits(C) /\ Space \in C
      <3>1. d \in Seq(Seq(C)) /\ o \in Seq(C)
        BY DEF Run, Runs
      <3>2. t = [done |-> d, open |-> o, quoted |-> FALSE, escaped |-> FALSE]
        BY <1>1 DEF Outside, Midway
      <3> QED BY <3>1, <3>2 DEF Splits, Marks
    <2>2. Scan(t, g) = Scanned(t, Space)
      BY <2>1, SplitSteps
    <2>3. Scanned(t, Space) = Cut(t)
      BY <1>1 DEF Scanned, Outside, Midway
    <2>4. Cut(t) = Outside(ts, e)
      BY <1>1 DEF Cut, Outside, Midway
    <2> QED BY <2>2, <2>3, <2>4
  <1>5. Scan(Outside(ts, e), w) = Outside(ts, e \o w)
    <2> HIDE DEF e
    <2> QED BY <1>2 DEF Token, TakenWhole
  <1>6. e \o w = w
    BY <1>2 DEF Run
  <1>7. w # <<>>
    BY DEF Token
  <1> HIDE DEF g, e
  <1>8. Scan(t, g \o w) = Outside(ts, w)
    BY <1>3, <1>4, <1>5, <1>6
  <1> QED BY <1>2, <1>7, <1>8 DEF Reached, g

(* A splitter that reads some more tokens has read them too.                *)
LEMMA TokensRead ==
  ASSUME NEW C, Marks \subseteq C, NEW t, NEW ts, Reached(C, t, ts), NEW ws \in Seq(Token(C))
  PROVE  Reached(C, Scan(t, Spread(ws)), ts \o ws)
  <1> DEFINE K == Token(C)
             T == {x \in Seq(K) : Reached(C, Scan(t, Spread(x)), ts \o x)}
  <1>0. K \subseteq Run(C) /\ Seq(K) \subseteq Seq(Run(C))
    <2>1. K \subseteq Run(C)
      BY DEF Token
    <2> HIDE DEF K
    <2> QED BY <2>1
  <1>1. PICK d \in Runs(C), o \in Run(C) : t = Outside(d, o) /\ o # <<>> /\ Append(d, o) = ts
    BY DEF Reached
  <1>2. ts \in Runs(C)
    BY <1>1, RunIs
  <1>3. <<>> \in T
    <2>1. Scan(t, <<>>) = t
      <3>1. d \in Seq(Seq(C)) /\ o \in Seq(C)
        BY DEF Run, Runs
      <3>2. t \in Splits(C)
        BY <1>1, <3>1 DEF Outside, Midway, Splits
      <3> QED BY <3>2, SplitSteps
    <2>2. Spread(<<>>) = <<>>
      BY SpreadMore
    <2>3. ts \o <<>> = ts
      BY <1>2 DEF Runs
    <2>4. <<>> \in Seq(K)
      OBVIOUS
    <2>5. Reached(C, Scan(t, Spread(<<>>)), ts \o <<>>)
      BY <2>1, <2>2, <2>3
    <2> QED BY <2>4, <2>5, Zenon
  <1>4. \A x \in Seq(K), w \in K : x \in T => Append(x, w) \in T
    <2> SUFFICES ASSUME NEW x \in Seq(K), NEW w \in K, x \in T PROVE Append(x, w) \in T
      OBVIOUS
    <2> DEFINE z == Append(x, w)
               s == Spread(x)
               f == <<Space>> \o w
    <2>1. z \in Seq(K)
      <3> HIDE DEF K, T
      <3> QED OBVIOUS
    <2>2. x \in Seq(Run(C)) /\ w \in Run(C)
      BY <1>0
    <2>3. Spread(z) = s \o f /\ s \in Run(C)
      BY <2>2, SpreadMore
    <2>4. f \in Run(C)
      <3> DEFINE g == <<Space>>
      <3>1. g \in Run(C)
        BY RunIs DEF Marks
      <3> HIDE DEF g
      <3>2. g \o w \in Run(C)
        BY <2>2, <3>1, RunIs
      <3> QED BY <3>2 DEF g
    <2>5. Reached(C, Scan(t, s), ts \o x)
      OBVIOUS
    <2>6. Reached(C, Scan(Scan(t, s), f), Append(ts \o x, w))
      <3> HIDE DEF s
      <3> QED BY <2>5, TokenRead
    <2>7. Scan(t, s \o f) = Scan(Scan(t, s), f)
      <3> HIDE DEF s, f
      <3> QED BY <1>1, <2>3, <2>4, OutsideScans
    <2>8. Append(ts \o x, w) = ts \o z
      <3> DEFINE R == Run(C)
      <3>1. ts \in Seq(R) /\ x \in Seq(R) /\ w \in R
        BY <1>2, <2>2 DEF Run, Runs
      <3> HIDE DEF R
      <3> QED BY <3>1, SMTT(30)
    <2>9. Reached(C, Scan(t, Spread(z)), ts \o z)
      BY <2>3, <2>6, <2>7, <2>8
    <2> HIDE DEF z, K
    <2>10. z \in T
      BY <2>1, <2>9
    <2> QED BY <2>10 DEF z
  <1>5. ws \in T
    <2>1. ws \in Seq(K)
      OBVIOUS
    <2> HIDE DEF T, K
    <2> QED BY <1>3, <1>4, <2>1, SequencesGrow
  <1> QED BY <1>5

(* A line is cut into the tokens it was put together from.                  *)
LEMMA LineIsCut ==
  ASSUME NEW C, Marks \subseteq C, NEW p \in Token(C), NEW aw \in Seq(Token(C)),
         NEW fw \in Seq(Token(C))
  PROVE  raw_tokens(p \o Spread(aw) \o Spread(fw)) = <<p>> \o aw \o fw
  <1> DEFINE a == Spread(aw)
             f == Spread(fw)
             e == <<>>
  <1>0. Token(C) \subseteq Run(C)
    BY DEF Token
  <1>1. p \in Run(C) /\ a \in Run(C) /\ f \in Run(C)
    <2>1. aw \in Seq(Run(C)) /\ fw \in Seq(Run(C))
      BY <1>0
    <2> QED BY <1>0, <2>1, SpreadMore
  <1>2. e \in Run(C) /\ e \in Runs(C) /\ Unread = Outside(e, e)
    BY RunIs DEF Unread, Outside, Midway
  <1>3. Scan(Unread, p) = Outside(e, p) /\ p # <<>>
    <2>1. e \o p = p
      BY <1>1 DEF Run
    <2>2. Scan(Outside(e, e), p) = Outside(e, e \o p)
      <3> HIDE DEF e
      <3> QED BY <1>2 DEF Token, TakenWhole
    <2> QED BY <1>2, <2>1, <2>2 DEF Token
  <1>4. Append(e, p) = <<p>>
    OBVIOUS
  <1> HIDE DEF a, f, e
  <1>5. Reached(C, Scan(Unread, p), <<p>>)
    BY <1>1, <1>2, <1>3, <1>4 DEF Reached
  <1>6. Reached(C, Scan(Scan(Unread, p), a), <<p>> \o aw)
    BY <1>5, TokensRead DEF a
  <1>7. Reached(C, Scan(Scan(Scan(Unread, p), a), f), (<<p>> \o aw) \o fw)
    BY <1>6, TokensRead DEF f
  <1>8. p \o a \in Run(C)
    BY <1>1, RunIs
  <1>9. Scan(Unread, p \o a) = Scan(Scan(Unread, p), a)
    BY <1>1, <1>2, OutsideScans
  <1>10. Scan(Unread, (p \o a) \o f) = Scan(Scan(Unread, p \o a), f)
    BY <1>1, <1>2, <1>8, OutsideScans
  <1> DEFINE t == Scan(Unread, (p \o a) \o f)
             ts == (<<p>> \o aw) \o fw
  <1>11. Reached(C, t, ts)
    BY <1>7, <1>9, <1>10
  <1>12. raw_tokens((p \o a) \o f) = Cut(t).done
    BY DEF raw_tokens, Scan
  <1> HIDE DEF t, ts
  <1>13. Cut(t).done = ts
    BY <1>11 DEF Reached, Cut, Outside, Midway
  <1> QED BY <1>12, <1>13 DEF a, f, ts

(* A line that ends in no white space is not trimmed.                       *)
LEMMA TrimKeeps ==
  ASSUME NEW C, NEW s \in Seq(C), s # <<>>, Last(s) \notin White
  PROVE  trim(s) = s
  <1> DEFINE I == {i \in 1..Len(s) : s[i] \notin White}
             n == SelectLastInSeq(s, LAMBDA c : c \notin White)
  <1>1. n = IF I # {} THEN Max(I) ELSE 0
    BY DEF SelectLastInSeq
  <1>2. Len(s) \in Nat /\ Len(s) # 0 /\ Len(s) \in I
    BY DEF Last
  <1>3. Max(I) = Len(s)
    <2>1. I \in SUBSET (1..Len(s)) /\ \A i \in I : i <= Len(s)
      BY <1>2
    <2> HIDE DEF I
    <2> QED BY <1>2, <2>1, GreatestIs
  <1>4. n = Len(s)
    BY <1>1, <1>2, <1>3
  <1>5. trim(s) = SubSeq(s, 1, n)
    BY DEF trim
  <1>6. SubSeq(s, 1, Len(s)) = s
    OBVIOUS
  <1> QED BY <1>4, <1>5, <1>6

-----------------------------------------------------------------------------
(* A sequence, member by member.                                            *)
Mapped(f, s) == [i \in DOMAIN s |-> f[s[i]]]

(* A sequence mapped, and made longer, is made longer by what is mapped.    *)
LEMMA MappedMore ==
  ASSUME NEW K, NEW T, NEW f \in [K -> T]
  PROVE  /\ Mapped(f, <<>>) = <<>>
         /\ \A s \in Seq(K) : Mapped(f, s) \in Seq(T) /\ Len(Mapped(f, s)) = Len(s)
         /\ \A s \in Seq(K), x \in K : Mapped(f, Append(s, x)) = Append(Mapped(f, s), f[x])
  <1>1. Mapped(f, <<>>) = <<>>
    BY DEF Mapped
  <1>2. \A s \in Seq(K) : Mapped(f, s) \in Seq(T) /\ Len(Mapped(f, s)) = Len(s)
                          /\ \A i \in 1..Len(s) : Mapped(f, s)[i] = f[s[i]]
    BY DEF Mapped
  <1>3. ASSUME NEW s \in Seq(K), NEW x \in K
        PROVE  Mapped(f, Append(s, x)) = Append(Mapped(f, s), f[x])
    <2> DEFINE z == Append(s, x)
               a == Mapped(f, z)
               m == Mapped(f, s)
               b == Append(m, f[x])
    <2>1. /\ z \in Seq(K) /\ Len(z) = Len(s) + 1 /\ z[Len(s) + 1] = x
          /\ \A i \in 1..Len(s) : z[i] = s[i]
      OBVIOUS
    <2> HIDE DEF z
    <2>2. /\ a \in Seq(T) /\ Len(a) = Len(z) /\ \A i \in 1..Len(z) : a[i] = f[z[i]]
      BY <1>2, <2>1
    <2>3. /\ m \in Seq(T) /\ Len(m) = Len(s) /\ f[x] \in T
          /\ \A i \in 1..Len(s) : m[i] = f[s[i]]
      BY <1>2
    <2> HIDE DEF a, m
    <2>4. /\ b \in Seq(T) /\ Len(b) = Len(s) + 1 /\ b[Len(s) + 1] = f[x]
          /\ \A i \in 1..Len(s) : b[i] = f[s[i]]
      BY <2>3
    <2> HIDE DEF b
    <2>5. Len(s) \in Nat
      OBVIOUS
    <2>6. ASSUME NEW i \in 1..Len(a) PROVE a[i] = b[i]
      <3>1. CASE i \in 1..Len(s)
        BY <2>1, <2>2, <2>4, <2>5, <3>1
      <3>2. CASE i = Len(s) + 1
        BY <2>1, <2>2, <2>4, <2>5, <3>2
      <3> QED BY <2>1, <2>2, <2>5, <3>1, <3>2
    <2>7. a = b
      BY <2>1, <2>2, <2>4, <2>6, SameSequence
    <2> QED BY <2>7 DEF a, b, m, z
  <1> QED BY <1>1, <1>2, <1>3

-----------------------------------------------------------------------------
(* The arguments are read back one by one, and then the flags.              *)
Parsing(p, args, flags) == [primitive |-> p, args |-> args, flags |-> flags]

(* Arguments that are not taken for flags.                                  *)
Plain(C) == {a \in Run(C) : ~IsFlag(Word(a))}

(* An argument is read back as it was written,                              *)
LEMMA ArgumentParsed ==
  ASSUME NEW C, Marks \subseteq C, NEW p, NEW args, NEW flags, NEW a \in Plain(C)
  PROVE  Parsed(Parsing(p, args, flags), Word(a)) = Parsing(p, Append(args, a), flags)
  <1>1. a \in Seq(C) /\ ~IsFlag(Word(a))
    BY DEF Plain, Run
  <1>2. strip_quotes(Word(a)) = escape_wire(a)
    BY <1>1, StripWord
  <1>3. unescape_wire(escape_wire(a)) = a
    BY <1>1, UnescapeEscape
  <1> DEFINE w == Word(a)
  <1>4. ~IsFlag(w) /\ unescape_wire(strip_quotes(w)) = a
    BY <1>1, <1>2, <1>3
  <1> HIDE DEF w
  <1>5. Parsed(Parsing(p, args, flags), w) = Parsing(p, Append(args, a), flags)
    BY <1>4 DEF Parsed, Parsing
  <1> QED BY <1>5 DEF w

(* ... and so is a flag.                                                    *)
LEMMA FlagParsed ==
  ASSUME NEW C, Marks \subseteq C, NEW p, NEW args, NEW flags,
         NEW n \in C \ Special, NEW v \in Values(C)
  PROVE  Parsed(Parsing(p, args, flags), FlagWord(<<n>>, v))
           = Parsing(p, args, insert(flags, <<n>>, v))
  <1> DEFINE w == FlagWord(<<n>>, v)
             f == FlagOf(SubSeq(w, 3, Len(w)))
  <1>1. IsFlag(w) /\ f = [name |-> <<n>>, value |-> v]
    BY FlagIsRead
  <1>2. f.name = <<n>> /\ f.value = v
    BY <1>1
  <1>3. Parsed(Parsing(p, args, flags), w)
          = [Parsing(p, args, flags) EXCEPT !.flags = insert(@, f.name, f.value)]
    <2> HIDE DEF w
    <2> QED BY <1>1 DEF Parsed
  <1> HIDE DEF w, f
  <1>4. Parsed(Parsing(p, args, flags), w) = Parsing(p, args, insert(flags, <<n>>, v))
    BY <1>2, <1>3 DEF Parsing
  <1> QED BY <1>4 DEF w

Wording(C) == [a \in Plain(C) |-> Word(a)]

(* Every plain argument is written as a token.                              *)
LEMMA WordingType ==
  ASSUME NEW C, Marks \subseteq C
  PROVE  Wording(C) \in [Plain(C) -> Token(C)]
  <1>1. \A a \in Plain(C) : Word(a) \in Token(C)
    BY WordIsToken DEF Plain
  <1> QED BY <1>1 DEF Wording

(* The arguments are read back one by one.                                  *)
LEMMA ArgumentsRead ==
  ASSUME NEW C, Marks \subseteq C, NEW p \in C, NEW args \in Seq(Plain(C))
  PROVE  Parse(Parsing(p, <<>>, NoFlags), Mapped(Wording(C), args)) = Parsing(p, args, NoFlags)
  <1> DEFINE P == Plain(C)
             f == Wording(C)
             st == Parsing(p, <<>>, NoFlags)
             T == {s \in Seq(P) : Parse(st, Mapped(f, s)) = Parsing(p, s, NoFlags)}
  <1>1. st \in Parses(C)
    <2>1. NoFlags \in Maps(C)
      <3> DEFINE E == {}
      <3>1. NoFlags \in [E -> Values(C)] /\ E \in SUBSET Seq(C)
        BY DEF NoFlags
      <3> QED BY <3>1 DEF Maps
    <2>2. <<>> \in Seq(Seq(C))
      OBVIOUS
    <2> QED BY <2>1, <2>2 DEF Parsing, Parses
  <1>2. f \in [P -> Token(C)]
    BY WordingType
  <1>3. Token(C) \subseteq Seq(C) /\ Seq(Token(C)) \subseteq Seq(Seq(C))
    <2>1. Token(C) \subseteq Seq(C)
      BY DEF Token, Run
    <2> DEFINE K == Token(C)
               R == Seq(C)
    <2> HIDE DEF K, R
    <2>2. K \subseteq R => Seq(K) \subseteq Seq(R)
      OBVIOUS
    <2> QED BY <2>1, <2>2 DEF K, R
  <1>4. \A x \in P : f[x] = Word(x)
    BY DEF Wording
  <1> HIDE DEF st, f, P
  <1>5. Parse(st, <<>>) = st /\ \A s \in Seq(Seq(C)), w \in Seq(C) :
          Parse(st, Append(s, w)) = Parsed(Parse(st, s), w)
    BY <1>1, ParseSteps
  <1>6. /\ Mapped(f, <<>>) = <<>>
        /\ \A s \in Seq(P) : Mapped(f, s) \in Seq(Token(C))
        /\ \A s \in Seq(P), x \in P : Mapped(f, Append(s, x)) = Append(Mapped(f, s), f[x])
    BY <1>2, MappedMore, ZenonT(60)
  <1>7. <<>> \in T
    <2>1. Parse(st, Mapped(f, <<>>)) = Parsing(p, <<>>, NoFlags)
      BY <1>5, <1>6 DEF st
    <2>2. <<>> \in Seq(P)
      OBVIOUS
    <2> QED BY <2>1, <2>2, Zenon
  <1>8. \A s \in Seq(P), x \in P : s \in T => Append(s, x) \in T
    <2> SUFFICES ASSUME NEW s \in Seq(P), NEW x \in P, s \in T PROVE Append(s, x) \in T
      OBVIOUS
    <2> DEFINE z == Append(s, x)
               m == Mapped(f, s)
    <2>1. z \in Seq(P)
      OBVIOUS
    <2>2. Parse(st, m) = Parsing(p, s, NoFlags)
      OBVIOUS
    <2>3. m \in Seq(Seq(C)) /\ Word(x) \in Seq(C) /\ Mapped(f, z) = Append(m, Word(x))
      BY <1>2, <1>3, <1>4, <1>6
    <2>4. Parsed(Parsing(p, s, NoFlags), Word(x)) = Parsing(p, z, NoFlags)
      BY ArgumentParsed DEF P
    <2> HIDE DEF m
    <2>5. Parse(st, Mapped(f, z)) = Parsing(p, z, NoFlags)
      BY <1>5, <2>2, <2>3, <2>4
    <2> HIDE DEF z
    <2>6. z \in T
      BY <2>1, <2>5
    <2> QED BY <2>6 DEF z
  <1>9. args \in T
    <2>1. args \in Seq(P)
      BY DEF P
    <2> HIDE DEF T
    <2> QED BY <1>7, <1>8, <2>1, SequencesGrow
  <1> QED BY <1>9 DEF st, f

(* The names read are the ones written, with the values written last.       *)
Named(names) == {names[i] : i \in DOMAIN names}
Only(names, v) == [m \in Named(names) |-> v[m]]

(* One name more, with its value, is inserted.                              *)
LEMMA OnlyMore ==
  ASSUME NEW D, NEW v, NEW s \in Seq(D), NEW x \in D
  PROVE  /\ Only(<<>>, v) = NoFlags
         /\ insert(Only(s, v), x, v[x]) = Only(Append(s, x), v)
  <1>1. Only(<<>>, v) = NoFlags
    BY DEF Only, Named, NoFlags
  <1>2. Named(Append(s, x)) = Named(s) \cup {x}
    <2> DEFINE z == Append(s, x)
    <2>1. /\ DOMAIN z = 1..(Len(s) + 1) /\ z[Len(s) + 1] = x /\ DOMAIN s = 1..Len(s)
          /\ (\A i \in 1..Len(s) : z[i] = s[i]) /\ Len(s) \in Nat
      OBVIOUS
    <2> HIDE DEF z
    <2>2. \A i \in DOMAIN z : i \in DOMAIN s \/ i = Len(s) + 1
      BY <2>1
    <2>3. \A i \in DOMAIN s : i \in DOMAIN z
      BY <2>1
    <2>4. Len(s) + 1 \in DOMAIN z
      BY <2>1
    <2>5. Named(z) = Named(s) \cup {x}
      BY <2>1, <2>2, <2>3, <2>4 DEF Named
    <2> QED BY <2>5 DEF z
  <1>3. insert(Only(s, v), x, v[x]) = Only(Append(s, x), v)
    <2> DEFINE N == Named(s)
               o == Only(s, v)
    <2>1. DOMAIN o = N /\ \A m \in N : o[m] = v[m]
      BY DEF Only
    <2>2. Only(Append(s, x), v) = [m \in N \cup {x} |-> v[m]]
      BY <1>2 DEF Only
    <2> HIDE DEF N, o
    <2>3. insert(o, x, v[x]) = [m \in N \cup {x} |-> v[m]]
      BY <2>1 DEF insert
    <2> QED BY <2>2, <2>3 DEF o
  <1> QED BY <1>1, <1>3

(* The names of flags, and how each is written.                             *)
Names(F) == {<<n>> : n \in F}
Flagging(F, v) == [m \in Names(F) |-> FlagWord(m, v[m])]

(* Every flag is written as a token.                                        *)
LEMMA FlaggingType ==
  ASSUME NEW C, Marks \subseteq C, NEW F \in SUBSET (C \ Special),
         NEW v \in [Names(F) -> Values(C)]
  PROVE  Flagging(F, v) \in [Names(F) -> Token(C)]
  <1>1. ASSUME NEW m \in Names(F) PROVE FlagWord(m, v[m]) \in Token(C)
    <2>1. PICK n \in F : m = <<n>>
      BY DEF Names
    <2> DEFINE x == v[m]
    <2>2. x \in Values(C)
      OBVIOUS
    <2> HIDE DEF x
    <2>3. FlagWord(<<n>>, x) \in Token(C)
      BY <2>2, FlagIsToken
    <2> QED BY <2>1, <2>3 DEF x
  <1> QED BY <1>1 DEF Flagging

(* Each token adds what its flag says.                                      *)
Adds(p, args, P, v, f) ==
  \A x \in P : \A m : Parsed(Parsing(p, args, m), f[x]) = Parsing(p, args, insert(m, x, v[x]))

(* Tokens that each add a flag add all of theirs.                           *)
LEMMA OneByOne ==
  ASSUME NEW C, Marks \subseteq C, NEW p \in C, NEW args \in Runs(C),
         NEW P, NEW v, NEW f \in [P -> Token(C)], NEW names \in Seq(P),
         Adds(p, args, P, v, f)
  PROVE  Parse(Parsing(p, args, NoFlags), Mapped(f, names)) = Parsing(p, args, Only(names, v))
  <1> DEFINE st == Parsing(p, args, NoFlags)
             T == {s \in Seq(P) : Parse(st, Mapped(f, s)) = Parsing(p, args, Only(s, v))}
  <1>1. st \in Parses(C)
    <2>1. NoFlags \in Maps(C)
      <3> DEFINE E == {}
      <3>1. NoFlags \in [E -> Values(C)] /\ E \in SUBSET Seq(C)
        BY DEF NoFlags
      <3> QED BY <3>1 DEF Maps
    <2> QED BY <2>1 DEF Parsing, Parses, Runs
  <1>3. Token(C) \subseteq Seq(C) /\ Seq(Token(C)) \subseteq Seq(Seq(C))
    <2>1. Token(C) \subseteq Seq(C)
      BY DEF Token, Run
    <2> DEFINE K == Token(C)
               R == Seq(C)
    <2> HIDE DEF K, R
    <2>2. K \subseteq R => Seq(K) \subseteq Seq(R)
      OBVIOUS
    <2> QED BY <2>1, <2>2 DEF K, R
  <1> HIDE DEF st
  <1>5. Parse(st, <<>>) = st /\ \A s \in Seq(Seq(C)), w \in Seq(C) :
          Parse(st, Append(s, w)) = Parsed(Parse(st, s), w)
    BY <1>1, ParseSteps
  <1>6. /\ Mapped(f, <<>>) = <<>>
        /\ \A s \in Seq(P) : Mapped(f, s) \in Seq(Token(C))
        /\ \A s \in Seq(P), x \in P : Mapped(f, Append(s, x)) = Append(Mapped(f, s), f[x])
    BY MappedMore, ZenonT(60)
  <1>7. <<>> \in T
    <2>1. Only(<<>>, v) = NoFlags
      BY DEF Only, Named, NoFlags
    <2>2. Parse(st, Mapped(f, <<>>)) = Parsing(p, args, Only(<<>>, v))
      BY <1>5, <1>6, <2>1 DEF st
    <2>3. <<>> \in Seq(P)
      OBVIOUS
    <2> QED BY <2>2, <2>3, Zenon
  <1>8. \A s \in Seq(P), x \in P : s \in T => Append(s, x) \in T
    <2> SUFFICES ASSUME NEW s \in Seq(P), NEW x \in P, s \in T PROVE Append(s, x) \in T
      OBVIOUS
    <2> DEFINE z == Append(s, x)
               m == Mapped(f, s)
               o == Only(s, v)
    <2>1. z \in Seq(P)
      OBVIOUS
    <2>2. Parse(st, m) = Parsing(p, args, o)
      OBVIOUS
    <2>3. m \in Seq(Seq(C)) /\ f[x] \in Seq(C) /\ Mapped(f, z) = Append(m, f[x])
      BY <1>3, <1>6
    <2>4. insert(o, x, v[x]) = Only(z, v)
      BY OnlyMore
    <2>5. Parsed(Parsing(p, args, o), f[x]) = Parsing(p, args, insert(o, x, v[x]))
      BY DEF Adds
    <2> HIDE DEF m, o
    <2>6. Parse(st, Mapped(f, z)) = Parsing(p, args, Only(z, v))
      BY <1>5, <2>2, <2>3, <2>4, <2>5
    <2> HIDE DEF z
    <2>7. z \in T
      BY <2>1, <2>6
    <2> QED BY <2>7 DEF z
  <1>9. names \in T
    <2> HIDE DEF T
    <2> QED BY <1>7, <1>8, SequencesGrow
  <1> QED BY <1>9 DEF st

(* The flags are read back one by one.                                      *)
LEMMA FlagsRead ==
  ASSUME NEW C, Marks \subseteq C, NEW p \in C, NEW args \in Runs(C),
         NEW F \in SUBSET (C \ Special), NEW v \in [Names(F) -> Values(C)],
         NEW names \in Seq(Names(F))
  PROVE  Parse(Parsing(p, args, NoFlags), Mapped(Flagging(F, v), names))
           = Parsing(p, args, Only(names, v))
  <1> DEFINE P == Names(F)
             f == Flagging(F, v)
  <1>1. f \in [P -> Token(C)]
    BY FlaggingType
  <1>2. ASSUME NEW x \in P, NEW m
        PROVE  Parsed(Parsing(p, args, m), f[x]) = Parsing(p, args, insert(m, x, v[x]))
    <2>1. PICK n \in F : x = <<n>>
      BY DEF Names
    <2>2. f[x] = FlagWord(x, v[x])
      BY DEF Flagging
    <2> DEFINE y == v[x]
    <2>3. y \in Values(C)
      OBVIOUS
    <2> HIDE DEF y
    <2>4. Parsed(Parsing(p, args, m), FlagWord(<<n>>, y)) = Parsing(p, args, insert(m, <<n>>, y))
      BY <2>3, FlagParsed
    <2> QED BY <2>1, <2>2, <2>4 DEF y
  <1>3. names \in Seq(P)
    OBVIOUS
  <1> HIDE DEF f, P
  <1>4. Adds(p, args, P, v, f)
    BY <1>2 DEF Adds
  <1>5. Parse(Parsing(p, args, NoFlags), Mapped(f, names)) = Parsing(p, args, Only(names, v))
    BY <1>1, <1>3, <1>4, OneByOne
  <1> QED BY <1>5 DEF f

(* The names in an order of the map's own: each of them, and no other.      *)
LEMMA AllNamed ==
  ASSUME NEW D, IsFiniteSet(D)
  PROVE  SetToSeq(D) \in Seq(D) /\ Named(SetToSeq(D)) = D
  <1> DEFINE k == Cardinality(D)
             g == SetToSeq(D)
  <1>1. k \in Nat /\ ExistsBijection(1..k, D)
    BY FS_CardinalityType
  <1>2. PICK f \in [1..k -> D] : IsInjective(f)
    BY <1>1 DEF ExistsBijection, Bijection, Injection, IsInjective
  <1>3. g \in [1..k -> D] /\ IsInjective(g)
    BY <1>2 DEF SetToSeq
  <1>4. IsFiniteSet(1..k) /\ Cardinality(1..k) = k
    BY <1>1, FS_Interval
  <1> HIDE DEF g
  <1>5. g \in Injection(1..k, D)
    BY <1>3 DEF Injection, IsInjective
  <1>6. g \in Surjection(1..k, D)
    BY <1>4, <1>5, FS_Injection
  <1>7. g \in Seq(D) /\ DOMAIN g = 1..k
    BY <1>1, <1>3
  <1>8. Named(g) = D
    BY <1>3, <1>6 DEF Surjection, Named
  <1> QED BY <1>7, <1>8 DEF g

-----------------------------------------------------------------------------
(* A request has finitely many flags, all with a name.                      *)
LEMMA NamesFinite ==
  ASSUME NEW F, IsFiniteSet(F)
  PROVE  IsFiniteSet(Names(F)) /\ <<>> \notin Names(F)
  <1> DEFINE f == [n \in F |-> <<n>>]
  <1>1. f \in Surjection(F, Names(F))
    BY DEF Surjection, Names
  <1> HIDE DEF f
  <1>2. IsFiniteSet(Names(F))
    BY <1>1, FS_Surjection
  <1>3. <<>> \notin Names(F)
    BY DEF Names
  <1> QED BY <1>2, <1>3

(* A request is written as its tokens, all but the first behind a space.    *)
LEMMA RequestWritten ==
  ASSUME NEW C, NEW p, NEW args \in Seq(Plain(C)), NEW F, NEW v \in [Names(F) -> Values(C)],
         SetToSeq(Names(F)) \in Seq(Names(F))
  PROVE  encode_request(Parsing(p, args, v))
           = <<p>> \o Spread(Mapped(Wording(C), args))
                   \o Spread(Mapped(Flagging(F, v), SetToSeq(Names(F))))
  <1> DEFINE D == Names(F)
             names == SetToSeq(D)
             q == Parsing(p, args, v)
             aw == Mapped(Wording(C), args)
             fw == Mapped(Flagging(F, v), names)
  <1>1. q.primitive = p /\ q.args = args /\ q.flags = v /\ DOMAIN v = D
    BY DEF Parsing
  <1>2. DOMAIN aw = DOMAIN args /\ \A i \in DOMAIN args : aw[i] = Word(args[i])
    BY DEF Mapped, Wording
  <1>3. DOMAIN fw = DOMAIN names /\ \A i \in DOMAIN names : fw[i] = FlagWord(names[i], v[names[i]])
    <2>1. names \in Seq(D)
      OBVIOUS
    <2> HIDE DEF names
    <2>2. \A i \in DOMAIN names : names[i] \in D
      BY <2>1
    <2> QED BY <2>2 DEF Mapped, Flagging
  <1> HIDE DEF names, q, aw, fw
  <1>4. encode_request(q) =
          <<p>> \o FlattenSeq([i \in DOMAIN args |-> <<Space>> \o Word(args[i])])
                \o FlattenSeq([i \in DOMAIN names |-> <<Space>> \o FlagWord(names[i], v[names[i]])])
    BY <1>1, Zenon DEF encode_request, names
  <1>5. [i \in DOMAIN args |-> <<Space>> \o Word(args[i])] = [i \in DOMAIN aw |-> <<Space>> \o aw[i]]
    BY <1>2, Zenon
  <1>6. [i \in DOMAIN names |-> <<Space>> \o FlagWord(names[i], v[names[i]])]
          = [i \in DOMAIN fw |-> <<Space>> \o fw[i]]
    BY <1>3, Zenon
  <1> QED BY <1>4, <1>5, <1>6, Zenon DEF Spread, names, q, aw, fw

(* The first token and the others.                                          *)
LEMMA TokensTaken ==
  ASSUME NEW C, NEW h, NEW a \in Seq(Run(C)), NEW b \in Seq(Run(C))
  PROVE  LET tokens == <<h>> \o a \o b
         IN tokens # <<>> /\ Head(tokens) = h /\ Tail(tokens) = a \o b
  <1> DEFINE R == Run(C) \cup {h}
             g == <<h>>
             c == a \o b
             tokens == (g \o a) \o b
  <1>1. a \in Seq(R) /\ b \in Seq(R) /\ g \in Seq(R) /\ Len(g) = 1 /\ g[1] = h
    OBVIOUS
  <1> HIDE DEF R, g
  <1>2. tokens = g \o c /\ c \in Seq(R)
    BY <1>1
  <1> HIDE DEF c
  <1> DEFINE t == g \o c
             x == Tail(t)
  <1>3. t \in Seq(R) /\ Len(t) = Len(c) + 1 /\ Len(c) \in Nat /\ t[1] = h
        /\ \A i \in 1..Len(c) : t[i + 1] = c[i]
    <2>1. g \in Run(R) /\ c \in Run(R)
      BY <1>1, <1>2 DEF Run
    <2>2. /\ t \in Run(R) /\ Len(t) = Len(g) + Len(c) /\ Len(c) \in Nat
          /\ \A i \in 1..Len(g) : t[i] = g[i]
          /\ \A i \in 1..Len(c) : t[Len(g) + i] = c[i]
      BY <2>1, Behind
    <2> HIDE DEF t
    <2>3. t \in Seq(R)
      BY <2>2 DEF Run
    <2>4. Len(t) = Len(c) + 1 /\ t[1] = h /\ \A i \in 1..Len(c) : t[1 + i] = c[i]
      BY <1>1, <2>2
    <2>5. \A i \in 1..Len(c) : 1 + i = i + 1
      BY <2>2
    <2> QED BY <2>2, <2>3, <2>4, <2>5
  <1> HIDE DEF t, tokens
  <1>4. x \in Seq(R) /\ Len(x) = Len(c) /\ \A i \in 1..Len(c) : x[i] = c[i]
    BY <1>3
  <1>5. t # <<>> /\ Head(t) = h
    BY <1>3
  <1> HIDE DEF x
  <1>6. x = c
    BY <1>2, <1>3, <1>4, SameSequence
  <1> QED BY <1>2, <1>5, <1>6 DEF t, tokens, x, c, g

(* What was written is what is read.                                        *)
LEMMA RoundTrip ==
  ASSUME NEW C, Marks \subseteq C, NEW p \in C \ Special, p \in Primitives,
         NEW args \in Seq(Plain(C)), NEW F \in SUBSET (C \ Special), IsFiniteSet(F),
         NEW v \in [Names(F) -> Values(C)],
         Last(encode_request(Parsing(p, args, v))) \notin White
  PROVE  parse_request(encode_request(Parsing(p, args, v))) = Parsing(p, args, v)
  <1> DEFINE D == Names(F)
             names == SetToSeq(D)
             aw == Mapped(Wording(C), args)
             fw == Mapped(Flagging(F, v), names)
             line == encode_request(Parsing(p, args, v))
             K == Token(C)
  <1>1. IsFiniteSet(D) /\ <<>> \notin D
    BY NamesFinite
  <1>2. names \in Seq(D) /\ Named(names) = D
    BY <1>1, AllNamed
  <1>3. aw \in Seq(K)
    <2> DEFINE P == Plain(C)
               f == Wording(C)
    <2>1. f \in [P -> K] /\ args \in Seq(P)
      BY WordingType
    <2> HIDE DEF K, f, P
    <2> QED BY <2>1, MappedMore DEF f
  <1>4. fw \in Seq(K)
    <2> DEFINE f == Flagging(F, v)
    <2>1. f \in [D -> K]
      BY FlaggingType
    <2> HIDE DEF K, f, D
    <2>2. Mapped(f, names) \in Seq(K)
      BY <1>2, <2>1, MappedMore
    <2> QED BY <2>2 DEF f
  <1>5. line = <<p>> \o Spread(aw) \o Spread(fw)
    BY <1>2, RequestWritten, SMTT(30)
  <1>6. <<p>> \in K
    BY PlainIsToken DEF Special
  <1>7. K \subseteq Run(C) /\ Seq(K) \subseteq Seq(Run(C))
    <2>1. K \subseteq Run(C)
      BY DEF Token
    <2> DEFINE R == Run(C)
    <2> HIDE DEF K, R
    <2>2. K \subseteq R => Seq(K) \subseteq Seq(R)
      OBVIOUS
    <2> QED BY <2>1, <2>2 DEF R
  <1> DEFINE tokens == <<p>> \o aw \o fw
             h == <<p>>
             a == Spread(aw)
             f == Spread(fw)
  <1> HIDE DEF line, aw, fw, names, D
  <1>8. raw_tokens(line) = <<<<p>>>> \o aw \o fw
    <2>1. h \in Token(C) /\ aw \in Seq(Token(C)) /\ fw \in Seq(Token(C))
      BY <1>3, <1>4, <1>6
    <2> HIDE DEF h
    <2>2. raw_tokens(h \o Spread(aw) \o Spread(fw)) = <<h>> \o aw \o fw
      BY <2>1, LineIsCut
    <2> QED BY <1>5, <2>2 DEF h
  <1>9. line \in Run(C) /\ line # <<>>
    <2>1. h \in Run(C) /\ aw \in Seq(Run(C)) /\ fw \in Seq(Run(C)) /\ h # <<>>
      BY <1>3, <1>4, <1>6, <1>7
    <2>2. a \in Run(C) /\ f \in Run(C)
      BY <2>1, SpreadMore
    <2>3. line = (h \o a) \o f
      BY <1>5
    <2> HIDE DEF h, a, f
    <2>4. h \o a \in Run(C) /\ h \o a # <<>>
      BY <2>1, <2>2, RunIs
    <2> QED BY <2>2, <2>3, <2>4, RunIs
  <1>10. trim(line) = line
    <2>1. Last(line) \notin White
      BY DEF line
    <2> QED BY <1>9, <2>1, TrimKeeps DEF Run
  <1> DEFINE ts == raw_tokens(trim(line))
  <1>11. ts # <<>> /\ Head(ts) = <<p>> /\ Tail(ts) = aw \o fw
    <2>1. aw \in Seq(Run(C)) /\ fw \in Seq(Run(C))
      BY <1>3, <1>4, <1>7
    <2>2. ts = <<h>> \o aw \o fw
      BY <1>8, <1>10
    <2> HIDE DEF h, ts
    <2> QED BY <2>1, <2>2, TokensTaken DEF h
  <1>12. Parse(Parsing(p, <<>>, NoFlags), aw \o fw) = Parsing(p, args, v)
    <2> DEFINE st == Parsing(p, <<>>, NoFlags)
    <2>1. st \in Parses(C)
      <3>1. NoFlags \in Maps(C)
        <4> DEFINE E == {}
        <4>1. NoFlags \in [E -> Values(C)] /\ E \in SUBSET Seq(C)
          BY DEF NoFlags
        <4> QED BY <4>1 DEF Maps
      <3>2. <<>> \in Seq(Seq(C))
        OBVIOUS
      <3> QED BY <3>1, <3>2 DEF Parsing, Parses
    <2>2. Parse(st, aw) = Parsing(p, args, NoFlags)
      BY ArgumentsRead DEF aw
    <2>3. Parse(Parsing(p, args, NoFlags), fw) = Parsing(p, args, Only(names, v))
      <3>1. args \in Runs(C)
        <4> DEFINE P == Plain(C)
                   R == Seq(C)
        <4>1. args \in Seq(P) /\ P \subseteq R
          BY DEF Plain, Run
        <4> HIDE DEF P, R
        <4>2. args \in Seq(R)
          BY <4>1
        <4> QED BY <4>2 DEF R, Runs
      <3>2. names \in Seq(Names(F))
        BY <1>2 DEF D
      <3> QED BY <3>1, <3>2, FlagsRead DEF fw
    <2>4. aw \in Runs(C) /\ fw \in Runs(C)
      BY <1>3, <1>4, <1>7 DEF Run, Runs
    <2> HIDE DEF st
    <2>5. \A x, y \in Runs(C) : Parse(st, x \o y) = Parse(Parse(st, x), y)
      BY <2>1, ParseSteps DEF Runs
    <2>6. Parse(st, aw \o fw) = Parse(Parse(st, aw), fw)
      BY <2>4, <2>5
    <2>7. Only(names, v) = v
      <3>1. v = [m \in D |-> v[m]]
        BY DEF D
      <3> QED BY <1>2, <3>1, Zenon DEF Only
    <2> QED BY <2>2, <2>3, <2>6, <2>7 DEF st
  <1>13. parse_request(line) =
           IF ts = <<>> \/ \A r \in Primitives : Head(ts) # <<r>> THEN Malformed
           ELSE LET q == Parse([primitive |-> Head(ts)[1], args |-> <<>>, flags |-> NoFlags], Tail(ts))
                IN IF <<>> \in DOMAIN q.flags THEN Malformed ELSE q
    BY Zenon DEF parse_request, Parse
  <1> HIDE DEF ts
  <1>14. parse_request(line) =
           LET q == Parse([primitive |-> Head(ts)[1], args |-> <<>>, flags |-> NoFlags], Tail(ts))
           IN IF <<>> \in DOMAIN q.flags THEN Malformed ELSE q
    <2>1. ~(ts = <<>> \/ \A r \in Primitives : Head(ts) # <<r>>)
      BY <1>11
    <2> QED BY <1>13, <2>1, Zenon
  <1>15. [primitive |-> Head(ts)[1], args |-> <<>>, flags |-> NoFlags] = Parsing(p, <<>>, NoFlags)
    <2>1. Head(ts)[1] = p
      BY <1>11
    <2> QED BY <2>1 DEF Parsing
  <1> DEFINE q == Parsing(p, args, v)
  <1>16. parse_request(line) = IF <<>> \in DOMAIN q.flags THEN Malformed ELSE q
    BY <1>11, <1>12, <1>14, <1>15, Zenon
  <1>17. <<>> \notin DOMAIN q.flags
    <2>1. q.flags = v /\ DOMAIN v = D
      BY DEF Parsing, D
    <2> QED BY <1>1, <2>1
  <1> QED BY <1>16, <1>17 DEF line

-----------------------------------------------------------------------------
(* Every request arrives as it was sent.                                    *)

(* The characters of the requests commands write.                           *)
Chars == Marks \cup Alphabet \cup Words \cup FlagNames \cup Known \cup {"v"}

(* The names of primitives and flags are no characters the codec tells      *)
(* apart.                                                                   *)
LEMMA CharsAre ==
  /\ Marks \subseteq Chars /\ Typing \subseteq Run(Chars) /\ Words \subseteq Chars
  /\ \A p \in Known : p \in Chars \ Special /\ p \in Primitives
  /\ FlagNames \subseteq Chars \ Special /\ "v" \in Chars
  <1>1. Marks \subseteq Chars /\ Words \subseteq Chars /\ FlagNames \subseteq Chars /\ "v" \in Chars
        /\ Known \subseteq Chars
    BY DEF Chars
  <1>2. Typing \subseteq Run(Chars)
    <2>1. Alphabet \cup {"n"} \subseteq Chars
      BY DEF Chars, Marks
    <2> DEFINE A == Alphabet \cup {"n"}
    <2> HIDE DEF A
    <2>2. A \subseteq Chars => Seq(A) \subseteq Seq(Chars)
      OBVIOUS
    <2> QED BY <2>1, <2>2 DEF A, Typing, Run
  <1>3. \A p \in Known : p \notin Special /\ p \in Primitives
    BY KnownAssumption, PrimitivesAssumption
  <1>4. FlagNames \cap Special = {}
    BY DEF FlagNames, Special, Space, Tab, Newline, Wide, Quote, Back
  <1> QED BY <1>1, <1>2, <1>3, <1>4

(* Six things are finitely many,                                            *)
LEMMA SixFinite ==
  ASSUME NEW a, NEW b, NEW c, NEW d, NEW e, NEW f
  PROVE  IsFiniteSet({a, b, c, d, e, f})
  <1> DEFINE x == {a}
             y == x \cup {b}
             z == y \cup {c}
             u == z \cup {d}
             v == u \cup {e}
             w == v \cup {f}
  <1>1. IsFiniteSet(x)
    BY FS_Singleton
  <1> HIDE DEF x
  <1>2. IsFiniteSet(y)
    BY <1>1, FS_AddElement
  <1> HIDE DEF y
  <1>3. IsFiniteSet(z)
    BY <1>2, FS_AddElement
  <1> HIDE DEF z
  <1>4. IsFiniteSet(u)
    BY <1>3, FS_AddElement
  <1> HIDE DEF u
  <1>5. IsFiniteSet(v)
    BY <1>4, FS_AddElement
  <1> HIDE DEF v
  <1>6. IsFiniteSet(w)
    BY <1>5, FS_AddElement
  <1>7. w = {a, b, c, d, e, f}
    BY DEF x, y, z, u, v
  <1> QED BY <1>6, <1>7

(* ... and so are the flags of a request.                                   *)
LEMMA FlagNamesFinite ==
  ASSUME NEW F \in SUBSET FlagNames
  PROVE  IsFiniteSet(F)
  <1> DEFINE a == {"session", "policy", "all", "idle-for", "full", "token"}
             b == {"mode", "group", "timeout", "page", "since", "limit"}
             c == {"full-page", "list", "timeout-ms", "dest", "id", "dpr"}
             d == {"unsafe-log", "secret", "fps", "width", "retina", "retina"}
  <1>1. IsFiniteSet(a) /\ IsFiniteSet(b) /\ IsFiniteSet(c) /\ IsFiniteSet(d)
    BY SixFinite
  <1>2. FlagNames = (a \cup b) \cup (c \cup d)
    BY DEF FlagNames
  <1> HIDE DEF a, b, c, d
  <1>3. IsFiniteSet(a \cup b) /\ IsFiniteSet(c \cup d)
    BY <1>1, FS_Union
  <1>4. IsFiniteSet((a \cup b) \cup (c \cup d))
    BY <1>3, FS_Union
  <1> QED BY <1>2, <1>4, FS_Subset

(* The values written behind a flag.                                        *)
LEMMA FlagTextType ==
  ASSUME NEW text \in Run(Chars), NEW name
  PROVE  FlagText(name, text) \in Values(Chars)
  <1>1. \A s \in Run(Chars) : <<s>> \in Values(Chars)
    BY DEF Values, Run
  <1>2. <<>> \in Values(Chars)
    BY DEF Values
  <1>3. <<<<"v">>>> \in Values(Chars)
    <2>1. <<"v">> \in Run(Chars)
      BY CharsAre, RunIs
    <2> QED BY <1>1, <2>1
  <1> QED BY <1>1, <1>2, <1>3 DEF FlagText

(* A sendable request a command wrote is read as it was sent.               *)
LEMMA SendableArrives ==
  ASSUME NEW q \in CommandRequests, NEW text \in Typing, Sendable(Written(q, text))
  PROVE  parse_request(encode_request(Written(q, text))) = Written(q, text)
  <1> DEFINE C == Chars
             w == Written(q, text)
             F == q.flags
             v == [name \in Names(F) |-> FlagText(name[1], text)]
             args == w.args
  <1>1. Worded(q)
    BY CommandsGood DEF Good
  <1>2. q.primitive \in Known /\ q.args \in Seq(Words) /\ F \in SUBSET FlagNames
    BY <1>1 DEF Worded
  <1>3. w = Parsing(q.primitive, args, v)
    BY DEF Written, Parsing, Names
  <1>4. text \in Run(C)
    BY CharsAre
  <1>5. args \in Seq(Plain(C))
    <2>1. args = [i \in DOMAIN q.args |-> IF q.args[i] = "text" THEN text ELSE <<q.args[i]>>]
      BY DEF Written
    <2>2. \A a \in Words : <<a>> \in Run(C)
      BY CharsAre, RunIs
    <2>3. \A i \in DOMAIN q.args : args[i] \in Run(C)
      BY <1>2, <1>4, <2>1, <2>2
    <2>4. \A i \in DOMAIN args : ~IsFlag(Word(args[i]))
      BY DEF Sendable
    <2>5. DOMAIN args = DOMAIN q.args /\ DOMAIN q.args = 1..Len(q.args) /\ Len(q.args) \in Nat
      BY <1>2, <2>1
    <2>6. \A i \in 1..Len(q.args) : args[i] \in Plain(C)
      BY <2>3, <2>4, <2>5 DEF Plain
    <2>7. args = [i \in 1..Len(q.args) |-> args[i]]
      BY <2>1, <2>5
    <2> HIDE DEF args
    <2> DEFINE P == Plain(C)
    <2>8. \A i \in 1..Len(q.args) : args[i] \in P
      BY <2>6
    <2> HIDE DEF P
    <2>9. args \in Seq(P)
      BY <2>5, <2>7, <2>8
    <2> QED BY <2>9 DEF P
  <1>6. v \in [Names(F) -> Values(C)]
    BY <1>4, FlagTextType
  <1>7. IsFiniteSet(F) /\ F \in SUBSET (C \ Special)
    BY <1>2, FlagNamesFinite, CharsAre
  <1>8. Marks \subseteq C /\ q.primitive \in C \ Special /\ q.primitive \in Primitives
    BY <1>2, CharsAre
  <1>9. Last(encode_request(w)) \notin White
    BY DEF Sendable
  <1> HIDE DEF w, v, args, C, F
  <1>10. parse_request(encode_request(w)) = w
    <2>1. Last(encode_request(Parsing(q.primitive, args, v))) \notin White
      BY <1>3, <1>9
    <2>2. parse_request(encode_request(Parsing(q.primitive, args, v))) = Parsing(q.primitive, args, v)
      BY <1>5, <1>6, <1>7, <1>8, <2>1, RoundTrip
    <2> QED BY <1>3, <2>2
  <1> QED BY <1>10 DEF w

(* What the daemon read is the line the client wrote.                       *)
Heard == phase = "served" => got = parse_request(encode_request(asked))

(* Every step keeps what the daemon read the line the client wrote.         *)
LEMMA HeardNext == Heard /\ [ConnectionNext]_connectionVars => Heard'
  <1> SUFFICES ASSUME Heard, [ConnectionNext]_connectionVars PROVE Heard'
    OBVIOUS
  <1>1. ASSUME NEW q, NEW text, Send(q, text) PROVE Heard'
    BY <1>1 DEF Send, Heard
  <1>2. CASE Serve
    <2>1. got' = parse_request(encode_request(asked)) /\ asked' = asked
      BY <1>2 DEF Serve, Arrives
    <2> QED BY <2>1, Zenon DEF Heard
  <1>3. CASE Receive \/ GoesOn \/ Disconnect \/ Lose \/ Restart
    BY <1>3 DEF Receive, GoesOn, Disconnect, Lose, Restart, Forgotten, Heard
  <1>4. CASE UNCHANGED connectionVars
    BY <1>4 DEF connectionVars, Heard
  <1> QED BY <1>1, <1>2, <1>3, <1>4 DEF ConnectionNext

(* What Request::encode wrote, Request::parse reads, whatever callers type, *)
(* unless an argument is taken for a flag or the line is trimmed.           *)
THEOREM ArrivesAsSentTheorem == ConnectionSpec => []ArrivesAsSent
  <1> DEFINE IInv == Asks /\ Heard
  <1>1. ConnectionInit => IInv
    BY DEF ConnectionInit, Asks, Heard
  <1>2. IInv /\ [ConnectionNext]_connectionVars => IInv'
    BY AsksNext, HeardNext
  <1>3. IInv => ArrivesAsSent
    BY SendableArrives DEF Asks, Heard, ArrivesAsSent
  <1> HIDE DEF IInv
  <1> QED BY <1>1, <1>2, <1>3, PTL DEF ConnectionSpec
=============================================================================
