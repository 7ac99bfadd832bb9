----------------------------- MODULE KeysProofs -----------------------------
(***************************************************************************)
(* What checkMacro() makes of a recorded macro of any length, and what     *)
(* follows for the macros that the service stores and runs.                *)
(*                                                                         *)
(* The loops of the code are recursive functions in GKeysMacro and         *)
(* ServiceKeys.  What they compute is proved by induction over the number  *)
(* of steps, which is applied to the set of numbers for which a fact holds *)
(* (Induction).                                                            *)
(***************************************************************************)
EXTENDS ServiceKeys, FiniteSetTheorems, SequenceTheorems, WellFoundedInduction, TLAPS

-----------------------------------------------------------------------------
(* Numbers and sets of indexes.                                            *)

LEMMA Least ==
    ASSUME NEW S \in SUBSET Nat, S # {}
    PROVE  \E n \in S : \A m \in S : n <= m
  <1>1. PICK n \in S : \A m \in S : ~(<<m, n>> \in OpToRel(<, Nat))
    BY NatLessThanWellFounded, WFMin
  <1>2. \A m \in S : ~(m < n)
    BY <1>1 DEF OpToRel
  <1> QED
    BY <1>2

(* Induction up to a limit, over the set of numbers of which a fact holds. *)
LEMMA Induction ==
    ASSUME NEW n \in Nat, NEW P, 0 \in P, \A i \in 1 .. n : i - 1 \in P => i \in P
    PROVE  \A i \in 0 .. n : i \in P
  <1> DEFINE F == {i \in 0 .. n : i \notin P}
  <1> SUFFICES ASSUME F # {} PROVE FALSE
    OBVIOUS
  <1>0. F \in SUBSET Nat
    OBVIOUS
  <1>1. PICK i \in F : \A j \in F : i <= j
    BY <1>0, Least
  <1>2. i \in 1 .. n /\ i - 1 \in 0 .. n /\ i - 1 \notin F
    BY <1>1
  <1> QED
    BY <1>1, <1>2

LEMMA Numbers ==
    ASSUME NEW n \in Nat, NEW S \in SUBSET (1 .. n)
    PROVE  IsFiniteSet(S) /\ Cardinality(S) \in Nat /\ Cardinality(S) <= n /\ S \in SUBSET Nat
  <1>1. IsFiniteSet(1 .. n) /\ Cardinality(1 .. n) = n
    BY FS_Interval
  <1>2. IsFiniteSet(S) /\ Cardinality(S) <= n
    BY <1>1, FS_Subset
  <1> QED
    BY <1>2, FS_CardinalityType

LEMMA DisjointUnion ==
    ASSUME NEW S, NEW T, IsFiniteSet(S), IsFiniteSet(T), S \cap T = {}
    PROVE  IsFiniteSet(S \cup T) /\ Cardinality(S \cup T) = Cardinality(S) + Cardinality(T)
  <1>1. IsFiniteSet(S \cup T) /\ Cardinality(S \cup T) = Cardinality(S) + Cardinality(T) - Cardinality(S \cap T)
    BY FS_Union
  <1>2. Cardinality(S \cap T) = 0
    BY FS_EmptySet
  <1>3. Cardinality(S) \in Nat /\ Cardinality(T) \in Nat
    BY FS_CardinalityType
  <1> QED
    BY <1>1, <1>2, <1>3

LEMMA IntervalSize ==
    ASSUME NEW l \in Nat, NEW n \in Nat
    PROVE  IsFiniteSet(l + 1 .. l + n) /\ Cardinality(l + 1 .. l + n) = n
  <1>1. l + 1 \in Int /\ l + n \in Int
    OBVIOUS
  <1>2. /\ IsFiniteSet(l + 1 .. l + n)
        /\ Cardinality(l + 1 .. l + n) = IF l + 1 > l + n THEN 0 ELSE (l + n) - (l + 1) + 1
    BY <1>1, FS_Interval
  <1> QED
    BY <1>2

UpTo(S, i) == {j \in S : j <= i}

LEMMA RankIncreases ==
    ASSUME NEW S \in SUBSET Nat, IsFiniteSet(S), NEW i \in S, NEW k \in S, i < k
    PROVE  Cardinality(UpTo(S, i)) < Cardinality(UpTo(S, k))
  <1>0. /\ i \in Nat /\ k \in Nat /\ ~(k <= i) /\ k <= k
        /\ \A j \in S : j <= i => j <= k
    OBVIOUS
  <1>1. /\ UpTo(S, k) \in SUBSET S /\ UpTo(S, i) \in SUBSET UpTo(S, k)
        /\ k \in UpTo(S, k) /\ k \notin UpTo(S, i)
    BY <1>0 DEF UpTo
  <1>2. IsFiniteSet(UpTo(S, k)) /\ IsFiniteSet(UpTo(S, i))
    BY <1>1, FS_Subset
  <1>3. /\ Cardinality(UpTo(S, i)) <= Cardinality(UpTo(S, k))
        /\ Cardinality(UpTo(S, i)) # Cardinality(UpTo(S, k))
    BY <1>1, <1>2, FS_Subset
  <1> QED
    BY <1>2, <1>3, FS_CardinalityType

LEMMA RankInRange ==
    ASSUME NEW S \in SUBSET Nat, IsFiniteSet(S), NEW i \in S
    PROVE  Cardinality(UpTo(S, i)) \in 1 .. Cardinality(S)
  <1>1. UpTo(S, i) \in SUBSET S /\ i \in UpTo(S, i)
    BY DEF UpTo
  <1>2. IsFiniteSet(UpTo(S, i)) /\ Cardinality(UpTo(S, i)) <= Cardinality(S)
    BY <1>1, FS_Subset
  <1>3. Cardinality(UpTo(S, i)) # 0
    BY <1>1, <1>2, FS_EmptySet
  <1> QED
    BY <1>2, <1>3, FS_CardinalityType

(* Every number is the rank of an element.                                 *)
LEMMA RankReached ==
    ASSUME NEW S \in SUBSET Nat, IsFiniteSet(S), NEW n \in 1 .. Cardinality(S)
    PROVE  \E i \in S : Cardinality(UpTo(S, i)) = n
  <1> DEFINE rank == [i \in S |-> Cardinality(UpTo(S, i))]
             T == 1 .. Cardinality(S)
  <1>1. rank \in [S -> T]
    BY RankInRange
  <1>2. \A i, k \in S : rank[i] = rank[k] => i = k
    <2> SUFFICES ASSUME NEW i \in S, NEW k \in S, i < k PROVE rank[i] # rank[k]
      OBVIOUS
    <2> QED
      BY RankIncreases, <1>1
  <1>3. rank \in Injection(S, T)
    BY <1>1, <1>2 DEF Injection, IsInjective
  <1>4. IsFiniteSet(T) /\ Cardinality(T) = Cardinality(S)
    BY FS_Interval, FS_CardinalityType
  <1>5. rank \in Surjection(S, T)
    BY <1>3, <1>4, FS_Injection
  <1> QED
    BY <1>5 DEF Surjection

LEMMA AscendingFacts ==
    ASSUME NEW S \in SUBSET Nat, IsFiniteSet(S)
    PROVE  /\ Cardinality(S) \in Nat
           /\ Ascending(S) \in [1 .. Cardinality(S) -> S]
           /\ Ascending(S) \in Seq(S) /\ Len(Ascending(S)) = Cardinality(S)
           /\ \A n \in 1 .. Cardinality(S) : Cardinality(UpTo(S, Ascending(S)[n])) = n
           /\ \A n, m \in 1 .. Cardinality(S) : n < m => Ascending(S)[n] < Ascending(S)[m]
           /\ \A i \in S : \E n \in 1 .. Cardinality(S) : Ascending(S)[n] = i
  <1> DEFINE a == Ascending(S)
             N == Cardinality(S)
  <1>1. N \in Nat
    BY FS_CardinalityType
  <1>2. \A n \in 1 .. N : a[n] \in S /\ Cardinality(UpTo(S, a[n])) = n
    BY RankReached DEF Ascending, UpTo
  <1>3. a \in [1 .. N -> S]
    BY <1>2 DEF Ascending
  <1>4. a \in Seq(S) /\ Len(a) = N
    BY <1>1, <1>3, SeqDef
  <1> HIDE DEF a, N
  <1>5. \A n, m \in 1 .. N : n < m => a[n] < a[m]
    <2> SUFFICES ASSUME NEW n \in 1 .. N, NEW m \in 1 .. N, n < m, ~(a[n] < a[m]) PROVE FALSE
      OBVIOUS
    <2>0. a[n] \in S /\ a[m] \in S /\ n \in Nat /\ m \in Nat
      BY <1>1, <1>2
    <2>3. a[n] \in Nat /\ a[m] \in Nat
      BY <2>0
    <2>4. a[m] = a[n] \/ a[m] < a[n]
      BY <2>3
    <2>1. CASE a[m] = a[n]
      BY <2>0, <2>1, <1>2
    <2>2. CASE a[m] < a[n]
      <3>1. Cardinality(UpTo(S, a[m])) < Cardinality(UpTo(S, a[n]))
        BY <2>0, <2>2, RankIncreases
      <3> QED
        BY <2>0, <3>1, <1>2
    <2> QED
      BY <2>1, <2>2, <2>4
  <1>6. \A i \in S : \E n \in 1 .. N : a[n] = i
    <2> SUFFICES ASSUME NEW i \in S PROVE \E n \in 1 .. N : a[n] = i
      OBVIOUS
    <2> DEFINE n == Cardinality(UpTo(S, i))
    <2>1. n \in 1 .. N
      BY RankInRange DEF N
    <2> HIDE DEF n
    <2>2. a[n] \in S /\ Cardinality(UpTo(S, a[n])) = n
      BY <2>1, <1>2
    <2>3. ~(n < n)
      BY <1>1, <2>1
    <2>4. ~(a[n] < i) /\ ~(i < a[n])
      BY <2>2, <2>3, RankIncreases DEF n
    <2>5. a[n] \in Nat /\ i \in Nat
      BY <2>2
    <2>6. a[n] = i
      BY <2>4, <2>5
    <2> QED
      BY <2>1, <2>6
  <1> QED
    BY <1>1, <1>2, <1>3, <1>4, <1>5, <1>6 DEF a, N

(* A part of a set has as many places in its ascending order as elements.  *)
LEMMA Places ==
    ASSUME NEW S \in SUBSET Nat, IsFiniteSet(S), NEW Q \in SUBSET S
    PROVE  Cardinality({n \in 1 .. Cardinality(S) : Ascending(S)[n] \in Q}) = Cardinality(Q)
  <1> DEFINE a == Ascending(S)
             K == {n \in 1 .. Cardinality(S) : a[n] \in Q}
             g == [n \in K |-> a[n]]
  <1>1. \A n, m \in 1 .. Cardinality(S) : a[n] = a[m] => n = m
    BY AscendingFacts
  <1>2. g \in [K -> Q] /\ \A n, m \in K : g[n] = g[m] => n = m
    BY <1>1
  <1>3. \A i \in Q : \E n \in K : g[n] = i
    BY AscendingFacts
  <1>4. g \in Bijection(K, Q)
    BY <1>2, <1>3 DEF Bijection, Injection, Surjection, IsInjective
  <1>5. IsFiniteSet(K)
    BY AscendingFacts, Numbers
  <1> HIDE DEF g
  <1>6. ExistsBijection(K, Q)
    BY <1>4 DEF ExistsBijection
  <1> QED
    BY <1>5, <1>6, FS_Bijection

LEMMA AscendingNumbers ==
    ASSUME NEW n \in Nat
    PROVE  Ascending(1 .. n) = [i \in 1 .. n |-> i]
  <1> DEFINE S == 1 .. n
  <1>1. S \in SUBSET Nat /\ IsFiniteSet(S) /\ Cardinality(S) = n
    BY FS_Interval
  <1>2. \A i \in S : UpTo(S, i) = 1 .. i /\ Cardinality(1 .. i) = i
    BY FS_Interval DEF UpTo
  <1>3. \A i \in S : Ascending(S)[i] \in S /\ Cardinality(UpTo(S, Ascending(S)[i])) = i
    BY <1>1, AscendingFacts
  <1>4. \A i \in S : Ascending(S)[i] = i
    BY <1>2, <1>3
  <1> QED
    BY <1>1, <1>4, AscendingFacts
(* A loop of n steps is a function of the steps done.                      *)
IsLoop(f, n, base, step) == f[0] = base /\ \A i \in 1 .. n : f[i] = step[<<f[i - 1], i>>]

LEMMA Loop ==
    ASSUME NEW n \in Nat, NEW X, NEW base \in X, NEW step \in [X \X (1 .. n) -> X]
    PROVE  \E f \in [0 .. n -> X] : IsLoop(f, n, base, step)
  <1> DEFINE P == {k \in 0 .. n : \E f \in [0 .. k -> X] : IsLoop(f, k, base, step)}
  <1> USE DEF IsLoop
  <1>1. 0 \in P
    <2> DEFINE g == [i \in 0 .. 0 |-> base]
    <2>1. g \in [0 .. 0 -> X] /\ IsLoop(g, 0, base, step)
      OBVIOUS
    <2> HIDE DEF g
    <2> QED
      BY <2>1
  <1>2. \A k \in 1 .. n : k - 1 \in P => k \in P
    <2> SUFFICES ASSUME NEW k \in 1 .. n, k - 1 \in P PROVE k \in P
      OBVIOUS
    <2>1. PICK f \in [0 .. k - 1 -> X] : IsLoop(f, k - 1, base, step)
      OBVIOUS
    <2> DEFINE g == [i \in 0 .. k |-> IF i = k THEN step[<<f[k - 1], k>>] ELSE f[i]]
    <2>2. step[<<f[k - 1], k>>] \in X
      OBVIOUS
    <2>3. g \in [0 .. k -> X]
      BY <2>2
    <2>4. g[0] = base
      BY <2>1
    <2>5. \A i \in 1 .. k : g[i] = step[<<g[i - 1], i>>]
      <3> SUFFICES ASSUME NEW i \in 1 .. k PROVE g[i] = step[<<g[i - 1], i>>]
        OBVIOUS
      <3>1. g[i - 1] = f[i - 1]
        OBVIOUS
      <3>2. CASE i = k
        <4>1. g[k] = step[<<f[k - 1], k>>]
          OBVIOUS
        <4> QED
          BY <3>1, <3>2, <4>1
      <3>3. CASE i # k
        BY <2>1, <3>1, <3>3
      <3> QED
        BY <3>2, <3>3
    <2> HIDE DEF g
    <2> QED
      BY <2>3, <2>4, <2>5
  <1> HIDE DEF P
  <1>3. n \in P
    BY <1>1, <1>2, Induction
  <1> QED
    BY <1>3 DEF P

-----------------------------------------------------------------------------
(* Recording.                                                              *)

Macro == {m \in Seq(Event) : Len(m) <= MaxSize}

LEMMA RecordedFits ==
    ASSUME NEW m \in Macro, NEW e \in Event
    PROVE  Recorded(m, e) \in Macro
  BY SizesAssumption, AppendProperties DEF Recorded, Macro

(* The events of a report that was recorded. *)
ReportEvents(old, new) ==
    ModifierEvents(old.modifiers, new.modifiers) \o KeyEvents(old.keys, new.keys)

LEMMA FlattenType ==
    ASSUME NEW S, NEW seqs \in Seq(Seq(S))
    PROVE  FlattenSeq(seqs) \in Seq(S)
  <1> DEFINE n == Len(seqs)
             Def(f) == [i \in 1 .. n |-> IF i = 1 THEN seqs[i] ELSE f[i - 1] \o seqs[i]]
             flatten == CHOOSE f : f = Def(f)
             step == [x \in Seq(S) \X (1 .. n) |-> IF x[2] = 1 THEN seqs[1] ELSE x[1] \o seqs[x[2]]]
  <1>1. CASE n = 0
    BY <1>1, EmptySeq DEF FlattenSeq
  <1>2. CASE n # 0
    <2>1. FlattenSeq(seqs) = flatten[n]
      BY <1>2 DEF FlattenSeq
    <2>2. n \in Nat
      BY LenProperties
    <2>3. \A i \in 1 .. n : seqs[i] \in Seq(S)
      BY LenProperties
    <2>4. \A x \in Seq(S) \X (1 .. n) : step[x] \in Seq(S)
      BY <2>3, ConcatProperties
    <2>5. step \in [Seq(S) \X (1 .. n) -> Seq(S)]
      BY <2>4
    <2>6. <<>> \in Seq(S)
      BY EmptySeq
    <2> HIDE DEF n, step
    <2>7. PICK f \in [0 .. n -> Seq(S)] : IsLoop(f, n, <<>>, step)
      BY <2>2, <2>5, <2>6, Loop
    <2> DEFINE g == [i \in 1 .. n |-> f[i]]
    <2>8. g = Def(g)
      <3> SUFFICES ASSUME NEW i \in 1 .. n
                   PROVE  g[i] = IF i = 1 THEN seqs[i] ELSE g[i - 1] \o seqs[i]
        OBVIOUS
      <3>1. f[i] = step[<<f[i - 1], i>>] /\ f[i - 1] \in Seq(S)
        BY <2>2, <2>7 DEF IsLoop
      <3>2. CASE i = 1
        BY <3>1, <3>2 DEF step
      <3>3. CASE i # 1
        <4>1. <<f[i - 1], i>> \in Seq(S) \X (1 .. n)
          BY <3>1
        <4>2. step[<<f[i - 1], i>>] = f[i - 1] \o seqs[i]
          BY <3>3, <4>1 DEF step
        <4>3. i - 1 \in 1 .. n
          BY <2>2, <3>3
        <4> QED
          BY <3>1, <3>3, <4>2, <4>3
      <3> QED
        BY <3>2, <3>3
    <2> HIDE DEF g
    <2>9. flatten = Def(flatten)
      BY <2>8
    <2> HIDE DEF flatten
    <2> DEFINE P == {i \in 0 .. n : i = 0 \/ flatten[i] \in Seq(S)}
    <2>10. ASSUME NEW i \in 1 .. n, i - 1 \in P PROVE i \in P
      <3>1. flatten[i] = IF i = 1 THEN seqs[i] ELSE flatten[i - 1] \o seqs[i]
        BY <2>9
      <3>2. CASE i = 1
        BY <2>3, <3>1, <3>2
      <3>3. CASE i # 1
        <4>1. flatten[i - 1] \in Seq(S) /\ seqs[i] \in Seq(S)
          BY <2>2, <2>3, <2>10, <3>3
        <4>2. flatten[i - 1] \o seqs[i] \in Seq(S)
          BY <4>1, ConcatProperties
        <4>3. flatten[i] \in Seq(S)
          BY <3>1, <3>3, <4>2
        <4> QED
          BY <4>3
      <3> QED
        BY <3>2, <3>3
    <2>11. 0 \in P
      BY <2>2
    <2> HIDE DEF P
    <2>12. \A i \in 0 .. n : i \in P
      BY <2>2, <2>10, <2>11, Induction
    <2>13. n \in P
      BY <2>2, <2>12
    <2> QED
      BY <1>2, <2>1, <2>13 DEF P, n
  <1> QED
    BY <1>1, <1>2

LEMMA EventsTyped ==
    ASSUME NEW old \in Report, NEW new \in Report
    PROVE  ReportEvents(old, new) \in Seq(Event)
  <1>1. ModifierEvents(old.modifiers, new.modifiers) \in Seq(Event)
    <2> DEFINE diff == IF old.modifiers > new.modifiers THEN old.modifiers - new.modifiers
                       ELSE new.modifiers - old.modifiers
               S == {i \in Modifier : (diff \div 2 ^ (i - 1)) % 2 = 1}
               a == Ascending(S)
               down == new.modifiers > old.modifiers
               e == [i \in DOMAIN a |-> [key |-> a[i], press |-> down]]
    <2>1. S \in SUBSET (1 .. NumModifiers) /\ NumModifiers \in Nat
      BY SizesAssumption DEF Modifier
    <2>2. a \in Seq(S)
      BY <2>1, Numbers, AscendingFacts
    <2>3. down \in BOOLEAN
      OBVIOUS
    <2>4. S \subseteq Modifier
      OBVIOUS
    <2>5. ModifierEvents(old.modifiers, new.modifiers) = e
      BY DEF ModifierEvents
    <2> HIDE DEF a, down, S
    <2>6. /\ DOMAIN a = 1 .. Len(a) /\ Len(a) \in Nat
          /\ \A i \in DOMAIN a : a[i] \in Modifier
      BY <2>2, <2>4, LenProperties
    <2>7. \A i \in 1 .. Len(a) : e[i] \in Event
      BY <2>3, <2>6 DEF Event
    <2>8. e \in [1 .. Len(a) -> Event]
      BY <2>6, <2>7
    <2> QED
      BY <2>5, <2>6, <2>8, SeqDef
  <1>2. KeyEvents(old.keys, new.keys) \in Seq(Event)
    <2> DEFINE seqs == [i \in 1 .. NumSlots |->
                          LET slot == NumSlots + 1 - i IN SlotEvent(old.keys[slot], new.keys[slot])]
    <2>1. \A slot \in 1 .. NumSlots : SlotEvent(old.keys[slot], new.keys[slot]) \in Seq(Event)
      <3> SUFFICES ASSUME NEW k \in Key \cup {None}, NEW l \in Key \cup {None}
                   PROVE  SlotEvent(k, l) \in Seq(Event)
        BY DEF Report, Slots
      <3>1. \A key \in Key, press \in BOOLEAN : <<[key |-> key, press |-> press]>> \in Seq(Event)
        BY DEF Event
      <3>2. <<>> \in Seq(Event)
        BY EmptySeq
      <3>3. CASE k = None /\ l # k
        BY <3>1, <3>3 DEF SlotEvent
      <3>4. CASE l = None /\ l # k
        BY <3>1, <3>4 DEF SlotEvent
      <3>5. CASE k = l \/ (k # None /\ l # None)
        BY <3>2, <3>5 DEF SlotEvent
      <3> QED
        BY <3>3, <3>4, <3>5
    <2>2. NumSlots \in Nat
      BY SizesAssumption
    <2>3. \A i \in 1 .. NumSlots : seqs[i] \in Seq(Event)
      BY <2>1, <2>2
    <2>4. seqs \in [1 .. NumSlots -> Seq(Event)]
      BY <2>3
    <2>5. seqs \in Seq(Seq(Event))
      BY <2>2, <2>4, SeqDef
    <2> QED
      BY <2>5, FlattenType DEF KeyEvents
  <1> QED
    BY <1>1, <1>2, ConcatProperties DEF ReportEvents

LEMMA FillFits ==
    ASSUME NEW m \in Macro, NEW old \in Report, NEW new \in Report
    PROVE  Fill(m, old, new) \in Macro
  <1> DEFINE events == ReportEvents(old, new)
             n == Len(events)
             Def(f) == [i \in 0 .. n |-> IF i = 0 THEN m ELSE Recorded(f[i - 1], events[i])]
             after == CHOOSE f : f = Def(f)
             step == [x \in Macro \X (1 .. n) |-> Recorded(x[1], events[x[2]])]
  <1>1. Fill(m, old, new) = after[n]
    BY DEF Fill, ReportEvents
  <1>0. n \in Nat
    BY EventsTyped, LenProperties
  <1>2. \A i \in 1 .. n : events[i] \in Event
    BY EventsTyped, LenProperties
  <1>3. step \in [Macro \X (1 .. n) -> Macro]
    BY <1>2, RecordedFits
  <1> HIDE DEF n, step
  <1>4. PICK f \in [0 .. n -> Macro] : IsLoop(f, n, m, step)
    BY <1>0, <1>3, Loop
  <1>5. f = Def(f)
    <2> SUFFICES ASSUME NEW i \in 0 .. n
                 PROVE  f[i] = IF i = 0 THEN m ELSE Recorded(f[i - 1], events[i])
      OBVIOUS
    <2>1. CASE i = 0
      BY <1>4, <2>1 DEF IsLoop
    <2>2. CASE i # 0
      <3>1. i \in 1 .. n /\ i - 1 \in 0 .. n
        BY <1>0, <2>2
      <3>2. f[i] = step[<<f[i - 1], i>>] /\ <<f[i - 1], i>> \in Macro \X (1 .. n)
        BY <1>4, <3>1 DEF IsLoop
      <3> QED
        BY <2>2, <3>2 DEF step
    <2> QED
      BY <2>1, <2>2
  <1>6. after = Def(after)
    BY <1>5
  <1> HIDE DEF after
  <1> DEFINE P == {i \in 0 .. n : after[i] \in Macro}
  <1>7. 0 \in P
    BY <1>0, <1>6
  <1>8. \A i \in 1 .. n : i - 1 \in P => i \in P
    BY <1>0, <1>2, <1>6, RecordedFits
  <1> HIDE DEF P
  <1>9. n \in P
    BY <1>0, <1>7, <1>8, Induction
  <1> QED
    BY <1>1, <1>9 DEF P
-----------------------------------------------------------------------------
(* checkMacro(): which events are paired.                                  *)

Keys == Key \cup Modifier

(* The events among those with an index in S, and how many are of a key.   *)
PressesIn(macro, S) == {i \in S : macro[i].press}
ReleasesIn(macro, S) == {i \in S : ~macro[i].press}
OfKey(macro, S, key) == {i \in S : macro[i].key = key}
Pressed(macro, S, key) == Cardinality(OfKey(macro, PressesIn(macro, S), key))
Released(macro, S, key) == Cardinality(OfKey(macro, ReleasesIn(macro, S), key))
Before(S, n) == {i \in S : i < n}
MissingOf(m, key) == {j \in DOMAIN m.missing : m.missing[j] = key}

Matching(macro) ==
    [missing : Seq(Keys), redundant : SUBSET (DOMAIN macro), paired : SUBSET (DOMAIN macro)]

(* A release is redundant or paired; only presses seen so far are paired.  *)
Sorted(macro, i, m) ==
    /\ m \in Matching(macro)
    /\ m.redundant \cap m.paired = {}
    /\ Releases(macro) = m.redundant \cup ReleasesIn(macro, m.paired)
    /\ PressesIn(macro, m.paired) \subseteq 1 .. i

(* Every pair is a press and a later release of its key.                   *)
Balanced(macro, m) ==
    /\ Cardinality(ReleasesIn(macro, m.paired)) = Cardinality(PressesIn(macro, m.paired))
    /\ \A key \in Keys :
           /\ Released(macro, m.paired, key) = Pressed(macro, m.paired, key)
           /\ \A n \in Nat : Released(macro, UpTo(m.paired, n), key)
                                <= Pressed(macro, UpTo(m.paired, n), key)

(* A press seen so far is paired or its release is missing.                *)
Accounted(macro, i, m) ==
    /\ Cardinality(PressesIn(macro, 1 .. i))
         = Cardinality(PressesIn(macro, m.paired)) + Len(m.missing)
    /\ \A key \in Keys :
           Pressed(macro, 1 .. i, key)
             = Pressed(macro, m.paired, key) + Cardinality(MissingOf(m, key))

(* What precedes a redundant release has been paired with what precedes it *)
(* too, since a press takes the first release that may end it.             *)
Greedy(macro, i, m) ==
    \A r \in m.redundant :
        Pressed(macro, Before(1 .. i, r), macro[r].key)
          <= Released(macro, Before(m.paired, r), macro[r].key)

MatchInv(macro, i, m) ==
    Sorted(macro, i, m) /\ Balanced(macro, m) /\ Accounted(macro, i, m) /\ Greedy(macro, i, m)

LEMMA EventType ==
    ASSUME NEW macro \in Seq(Event), NEW i \in DOMAIN macro
    PROVE  macro[i] \in Event /\ macro[i].key \in Keys /\ macro[i].press \in BOOLEAN
  <1>1. macro[i] \in Event
    BY LenProperties
  <1> QED
    BY <1>1 DEF Event, Keys

LEMMA AddOne ==
    ASSUME NEW n \in Nat, NEW S \in SUBSET (1 .. n), NEW x, x \notin S
    PROVE  Cardinality(S \cup {x}) = Cardinality(S) + 1
  BY Numbers, FS_AddElement

(* The three things that may happen to an event. *)
SkipsRelease(macro, i, m, next) == ~macro[i].press /\ next = m
MissesRelease(macro, i, m, next) ==
    /\ macro[i].press
    /\ \A r \in m.redundant : macro[r].key = macro[i].key => r <= i
    /\ next = [m EXCEPT !.missing = Append(@, macro[i].key)]
Pairs(macro, i, m, next, e) ==
    /\ macro[i].press
    /\ e \in m.redundant /\ macro[e].key = macro[i].key /\ i < e
    /\ \A r \in m.redundant : macro[r].key = macro[i].key /\ i < r => e <= r
    /\ next = [m EXCEPT !.redundant = @ \ {e}, !.paired = @ \cup {i, e}]

LEMMA MatchCases ==
    ASSUME NEW macro \in Seq(Event), NEW i \in 1 .. Len(macro), NEW m \in Matching(macro)
    PROVE  \/ SkipsRelease(macro, i, m, Match(macro, m, i))
           \/ MissesRelease(macro, i, m, Match(macro, m, i))
           \/ \E e \in DOMAIN macro : Pairs(macro, i, m, Match(macro, m, i), e)
  <1> DEFINE ends == ReleasesOf(macro, m.redundant, i)
             e == Min(ends)
  <1>1. DOMAIN macro = 1 .. Len(macro) /\ Len(macro) \in Nat /\ m.redundant \subseteq DOMAIN macro
    BY LenProperties DEF Matching
  <1>2. ends \in SUBSET Nat /\ ends \subseteq m.redundant
    BY <1>1 DEF ReleasesOf
  <1>3. CASE ~macro[i].press
    BY <1>3 DEF Match, SkipsRelease
  <1>4. CASE macro[i].press /\ ends = {}
    <2>1. \A r \in m.redundant : macro[r].key = macro[i].key => ~(i < r)
      BY <1>4 DEF ReleasesOf
    <2>2. \A r \in m.redundant : macro[r].key = macro[i].key => r <= i
      BY <1>1, <2>1
    <2> QED
      BY <1>4, <2>2 DEF Match, MissesRelease
  <1>5. CASE macro[i].press /\ ends # {}
    <2>1. e \in ends /\ \A r \in ends : e <= r
      BY <1>2, <1>5, Least DEF Min
    <2>2. Match(macro, m, i) = [m EXCEPT !.redundant = @ \ {e}, !.paired = @ \cup {i, e}]
      BY <1>5 DEF Match
    <2> HIDE DEF e
    <2>3. Pairs(macro, i, m, Match(macro, m, i), e)
      BY <1>5, <2>1, <2>2 DEF Pairs, ReleasesOf
    <2> QED
      BY <1>1, <1>2, <2>1, <2>3
  <1> QED
    BY <1>3, <1>4, <1>5

(* Counting the events of a part of a macro. *)
LEMMA Counts ==
    ASSUME NEW macro \in Seq(Event), NEW S \in SUBSET (DOMAIN macro)
    PROVE  /\ IsFiniteSet(S) /\ S \in SUBSET Nat
           /\ IsFiniteSet(PressesIn(macro, S)) /\ Cardinality(PressesIn(macro, S)) \in Nat
           /\ IsFiniteSet(ReleasesIn(macro, S)) /\ Cardinality(ReleasesIn(macro, S)) \in Nat
           /\ \A key : /\ Pressed(macro, S, key) \in Nat
                       /\ Released(macro, S, key) \in Nat
           /\ \A key : \A T \in SUBSET S : /\ Pressed(macro, T, key) <= Pressed(macro, S, key)
                                          /\ Released(macro, T, key) <= Released(macro, S, key)
  <1>1. DOMAIN macro = 1 .. Len(macro) /\ Len(macro) \in Nat
    BY LenProperties
  <1>2. IsFiniteSet(S) /\ S \in SUBSET Nat
    BY <1>1, Numbers
  <1>3. PressesIn(macro, S) \in SUBSET S /\ ReleasesIn(macro, S) \in SUBSET S
    BY DEF PressesIn, ReleasesIn
  <1>4. /\ IsFiniteSet(PressesIn(macro, S)) /\ Cardinality(PressesIn(macro, S)) \in Nat
        /\ IsFiniteSet(ReleasesIn(macro, S)) /\ Cardinality(ReleasesIn(macro, S)) \in Nat
    BY <1>2, <1>3, FS_Subset, FS_CardinalityType
  <1>5. ASSUME NEW key, NEW T \in SUBSET S
        PROVE  /\ Pressed(macro, S, key) \in Nat /\ Pressed(macro, T, key) <= Pressed(macro, S, key)
               /\ Released(macro, S, key) \in Nat /\ Released(macro, T, key) <= Released(macro, S, key)
    <2>1. /\ OfKey(macro, PressesIn(macro, S), key) \in SUBSET S
          /\ OfKey(macro, PressesIn(macro, T), key) \in SUBSET OfKey(macro, PressesIn(macro, S), key)
          /\ OfKey(macro, ReleasesIn(macro, S), key) \in SUBSET S
          /\ OfKey(macro, ReleasesIn(macro, T), key) \in SUBSET OfKey(macro, ReleasesIn(macro, S), key)
      BY DEF OfKey, PressesIn, ReleasesIn
    <2>2. /\ IsFiniteSet(OfKey(macro, PressesIn(macro, S), key))
          /\ IsFiniteSet(OfKey(macro, ReleasesIn(macro, S), key))
      BY <1>2, <2>1, FS_Subset
    <2> QED
      BY <2>1, <2>2, FS_Subset, FS_CardinalityType DEF Pressed, Released
  <1>6. S \in SUBSET S
    OBVIOUS
  <1> QED
    BY <1>2, <1>4, <1>5, <1>6

LEMMA AddPress ==
    ASSUME NEW macro \in Seq(Event), NEW S \in SUBSET (DOMAIN macro),
           NEW x \in DOMAIN macro, x \notin S, macro[x].press
    PROVE  /\ Cardinality(PressesIn(macro, S \cup {x})) = Cardinality(PressesIn(macro, S)) + 1
           /\ Cardinality(ReleasesIn(macro, S \cup {x})) = Cardinality(ReleasesIn(macro, S))
           /\ Pressed(macro, S \cup {x}, macro[x].key) = Pressed(macro, S, macro[x].key) + 1
           /\ \A key : key # macro[x].key => Pressed(macro, S \cup {x}, key) = Pressed(macro, S, key)
           /\ \A key : Released(macro, S \cup {x}, key) = Released(macro, S, key)
  <1>1. DOMAIN macro = 1 .. Len(macro) /\ Len(macro) \in Nat
    BY LenProperties
  <1> DEFINE p == PressesIn(macro, S)
             k == macro[x].key
  <1>2. /\ p \in SUBSET (1 .. Len(macro)) /\ x \notin p
        /\ OfKey(macro, p, k) \in SUBSET (1 .. Len(macro)) /\ x \notin OfKey(macro, p, k)
    BY <1>1 DEF PressesIn, OfKey
  <1>3. PressesIn(macro, S \cup {x}) = p \cup {x} /\ ReleasesIn(macro, S \cup {x}) = ReleasesIn(macro, S)
    BY DEF PressesIn, ReleasesIn
  <1>4. /\ OfKey(macro, p \cup {x}, k) = OfKey(macro, p, k) \cup {x}
        /\ \A key : key # k => OfKey(macro, p \cup {x}, key) = OfKey(macro, p, key)
    BY DEF OfKey
  <1> HIDE DEF p, k
  <1>5. /\ Cardinality(p \cup {x}) = Cardinality(p) + 1
        /\ Cardinality(OfKey(macro, p \cup {x}, k)) = Cardinality(OfKey(macro, p, k)) + 1
    BY <1>1, <1>2, <1>4, AddOne
  <1> QED
    BY <1>3, <1>4, <1>5 DEF Pressed, Released, p, k

LEMMA AddRelease ==
    ASSUME NEW macro \in Seq(Event), NEW S \in SUBSET (DOMAIN macro),
           NEW x \in DOMAIN macro, x \notin S, ~macro[x].press
    PROVE  /\ Cardinality(ReleasesIn(macro, S \cup {x})) = Cardinality(ReleasesIn(macro, S)) + 1
           /\ Cardinality(PressesIn(macro, S \cup {x})) = Cardinality(PressesIn(macro, S))
           /\ Released(macro, S \cup {x}, macro[x].key) = Released(macro, S, macro[x].key) + 1
           /\ \A key : key # macro[x].key => Released(macro, S \cup {x}, key) = Released(macro, S, key)
           /\ \A key : Pressed(macro, S \cup {x}, key) = Pressed(macro, S, key)
  <1>1. DOMAIN macro = 1 .. Len(macro) /\ Len(macro) \in Nat
    BY LenProperties
  <1> DEFINE p == ReleasesIn(macro, S)
             k == macro[x].key
  <1>2. /\ p \in SUBSET (1 .. Len(macro)) /\ x \notin p
        /\ OfKey(macro, p, k) \in SUBSET (1 .. Len(macro)) /\ x \notin OfKey(macro, p, k)
    BY <1>1 DEF ReleasesIn, OfKey
  <1>3. ReleasesIn(macro, S \cup {x}) = p \cup {x} /\ PressesIn(macro, S \cup {x}) = PressesIn(macro, S)
    BY DEF PressesIn, ReleasesIn
  <1>4. /\ OfKey(macro, p \cup {x}, k) = OfKey(macro, p, k) \cup {x}
        /\ \A key : key # k => OfKey(macro, p \cup {x}, key) = OfKey(macro, p, key)
    BY DEF OfKey
  <1> HIDE DEF p, k
  <1>5. /\ Cardinality(p \cup {x}) = Cardinality(p) + 1
        /\ Cardinality(OfKey(macro, p \cup {x}, k)) = Cardinality(OfKey(macro, p, k)) + 1
    BY <1>1, <1>2, <1>4, AddOne
  <1> QED
    BY <1>3, <1>4, <1>5 DEF Pressed, Released, p, k

LEMMA MatchSkip ==
    ASSUME NEW macro \in Seq(Event), NEW i \in 1 .. Len(macro), NEW m, MatchInv(macro, i - 1, m),
           ~macro[i].press
    PROVE  MatchInv(macro, i, m)
  <1>1. DOMAIN macro = 1 .. Len(macro) /\ Len(macro) \in Nat
    BY LenProperties
  <1>2. 1 .. i - 1 \in SUBSET (DOMAIN macro) /\ i \in DOMAIN macro /\ i \notin 1 .. i - 1
        /\ 1 .. i = (1 .. i - 1) \cup {i}
    BY <1>1
  <1> DEFINE up == 1 .. i - 1
  <1>3. /\ Cardinality(PressesIn(macro, 1 .. i)) = Cardinality(PressesIn(macro, up))
        /\ \A key : Pressed(macro, 1 .. i, key) = Pressed(macro, up, key)
    <2>2. up \in SUBSET (DOMAIN macro) /\ i \in DOMAIN macro /\ i \notin up /\ 1 .. i = up \cup {i}
      BY <1>2
    <2> HIDE DEF up
    <2>3. /\ Cardinality(PressesIn(macro, up \cup {i})) = Cardinality(PressesIn(macro, up))
          /\ \A key : Pressed(macro, up \cup {i}, key) = Pressed(macro, up, key)
      BY <2>2, AddRelease
    <2> QED
      BY <2>2, <2>3
  <1>4. Sorted(macro, i, m)
    BY <1>1 DEF MatchInv, Sorted
  <1>5. Accounted(macro, i, m)
    BY <1>3 DEF MatchInv, Accounted
  <1>6. \A n \in Nat : \A key : Pressed(macro, Before(1 .. i, n), key) = Pressed(macro, Before(1 .. i - 1, n), key)
    <2> SUFFICES ASSUME NEW n \in Nat, NEW key
                 PROVE  PressesIn(macro, Before(1 .. i, n)) = PressesIn(macro, Before(1 .. i - 1, n))
      BY DEF Pressed
    <2>1. \A j \in Before(1 .. i, n) : j \notin Before(1 .. i - 1, n) => j = i
      BY <1>2 DEF Before
    <2>2. Before(1 .. i - 1, n) \subseteq Before(1 .. i, n)
      BY <1>2 DEF Before
    <2> QED
      BY <2>1, <2>2 DEF PressesIn
  <1>7. m.redundant \subseteq Nat
    BY <1>1 DEF MatchInv, Sorted, Matching
  <1>8. Greedy(macro, i, m)
    BY <1>6, <1>7 DEF MatchInv, Greedy
  <1> QED
    BY <1>4, <1>5, <1>8 DEF MatchInv

LEMMA MatchMiss ==
    ASSUME NEW macro \in Seq(Event), NEW i \in 1 .. Len(macro), NEW m, MatchInv(macro, i - 1, m),
           NEW next, MissesRelease(macro, i, m, next)
    PROVE  MatchInv(macro, i, next)
  <1>1. DOMAIN macro = 1 .. Len(macro) /\ Len(macro) \in Nat
    BY LenProperties
  <1>2. 1 .. i - 1 \in SUBSET (DOMAIN macro) /\ i \in DOMAIN macro /\ i \notin 1 .. i - 1
        /\ 1 .. i = (1 .. i - 1) \cup {i}
    BY <1>1
  <1> DEFINE k == macro[i].key
  <1>3. macro[i].press /\ k \in Keys
    BY <1>1, EventType DEF MissesRelease
  <1> HIDE DEF k
  <1>4. m \in Matching(macro)
    BY DEF MatchInv, Sorted
  <1>5. next = [missing |-> Append(m.missing, k), redundant |-> m.redundant, paired |-> m.paired]
    BY <1>4 DEF MissesRelease, Matching, k
  <1>6. /\ next.missing = Append(m.missing, k) /\ next.redundant = m.redundant
        /\ next.paired = m.paired
    BY <1>5
  <1>7. m.missing \in Seq(Keys) /\ m.redundant \subseteq DOMAIN macro /\ m.paired \in SUBSET (DOMAIN macro)
    BY <1>4 DEF Matching
  <1>8. /\ next.missing \in Seq(Keys) /\ Len(next.missing) = Len(m.missing) + 1
        /\ Len(m.missing) \in Nat
        /\ DOMAIN next.missing = 1 .. Len(m.missing) + 1 /\ DOMAIN m.missing = 1 .. Len(m.missing)
        /\ \A j \in 1 .. Len(m.missing) : next.missing[j] = m.missing[j]
        /\ next.missing[Len(m.missing) + 1] = k
    BY <1>3, <1>6, <1>7, AppendProperties, LenProperties
  <1>9. Sorted(macro, i, next)
    BY <1>1, <1>5, <1>7, <1>8 DEF MatchInv, Sorted, Matching
  <1>10. Balanced(macro, next)
    BY <1>6 DEF MatchInv, Balanced
  <1>11. \A key \in Keys : Cardinality(MissingOf(next, key))
            = Cardinality(MissingOf(m, key)) + (IF key = k THEN 1 ELSE 0)
    <2> SUFFICES ASSUME NEW key \in Keys
                 PROVE  Cardinality(MissingOf(next, key))
                          = Cardinality(MissingOf(m, key)) + (IF key = k THEN 1 ELSE 0)
      OBVIOUS
    <2> DEFINE l == Len(m.missing) + 1
    <2>1. MissingOf(m, key) \in SUBSET (1 .. Len(m.missing)) /\ l \notin MissingOf(m, key)
      BY <1>8 DEF MissingOf
    <2>4. Cardinality(MissingOf(m, key)) \in Nat
      BY <1>8, <2>1, Numbers
    <2>2. CASE key = k
      <3>1. MissingOf(next, key) = MissingOf(m, key) \cup {l}
        BY <1>8, <2>2 DEF MissingOf
      <3> QED
        BY <1>8, <2>1, <2>2, <3>1, AddOne
    <2>3. CASE key # k
      <3>1. MissingOf(next, key) = MissingOf(m, key)
        BY <1>8, <2>3 DEF MissingOf
      <3> QED
        BY <2>3, <2>4, <3>1
    <2> QED
      BY <2>2, <2>3
  <1>12. \A key \in Keys : /\ Cardinality(MissingOf(m, key)) \in Nat
                           /\ Pressed(macro, m.paired, key) \in Nat
    <2>1. \A key \in Keys : MissingOf(m, key) \in SUBSET (1 .. Len(m.missing))
      BY <1>8 DEF MissingOf
    <2>2. \A key \in Keys : Cardinality(MissingOf(m, key)) \in Nat
      BY <1>8, <2>1, Numbers
    <2> QED
      BY <1>7, <2>2, Counts
  <1>13. Accounted(macro, i, next)
    <2> DEFINE up == 1 .. i - 1
    <2>1. /\ Cardinality(PressesIn(macro, 1 .. i)) = Cardinality(PressesIn(macro, up)) + 1
          /\ \A key \in Keys : Pressed(macro, 1 .. i, key)
                = IF key = k THEN Pressed(macro, up, key) + 1 ELSE Pressed(macro, up, key)
      <3>1. up \in SUBSET (DOMAIN macro) /\ i \in DOMAIN macro /\ i \notin up /\ 1 .. i = up \cup {i}
        BY <1>2
      <3>2. macro[i].press /\ macro[i].key = k
        BY <1>3 DEF k
      <3> HIDE DEF up
      <3>3. /\ Cardinality(PressesIn(macro, up \cup {i})) = Cardinality(PressesIn(macro, up)) + 1
            /\ \A key \in Keys : Pressed(macro, up \cup {i}, key)
                  = IF key = k THEN Pressed(macro, up, key) + 1 ELSE Pressed(macro, up, key)
        BY <3>1, <3>2, AddPress
      <3> QED
        BY <3>1, <3>3
    <2>2. Cardinality(PressesIn(macro, m.paired)) \in Nat
      BY <1>7, Counts
    <2>3. Cardinality(PressesIn(macro, 1 .. i)) = Cardinality(PressesIn(macro, next.paired)) + Len(next.missing)
      BY <1>6, <1>8, <2>1, <2>2 DEF MatchInv, Accounted
    <2>4. ASSUME NEW key \in Keys
          PROVE  Pressed(macro, 1 .. i, key)
                   = Pressed(macro, next.paired, key) + Cardinality(MissingOf(next, key))
      <3>1. Pressed(macro, up, key)
              = Pressed(macro, m.paired, key) + Cardinality(MissingOf(m, key))
        BY DEF MatchInv, Accounted
      <3>2. /\ Pressed(macro, m.paired, key) \in Nat
            /\ Cardinality(MissingOf(m, key)) \in Nat
            /\ next.paired = m.paired
        BY <1>6, <1>12
      <3>3. Cardinality(MissingOf(next, key)) = Cardinality(MissingOf(m, key)) + (IF key = k THEN 1 ELSE 0)
        BY <1>11
      <3>4. Pressed(macro, 1 .. i, key)
              = IF key = k THEN Pressed(macro, up, key) + 1 ELSE Pressed(macro, up, key)
        BY <2>1
      <3> HIDE DEF up
      <3>5. CASE key = k
        BY <3>1, <3>2, <3>3, <3>4, <3>5
      <3>6. CASE key # k
        BY <3>1, <3>2, <3>3, <3>4, <3>6
      <3> QED
        BY <3>5, <3>6
    <2> QED
      BY <2>3, <2>4 DEF Accounted
  <1>14. Greedy(macro, i, next)
    <2> SUFFICES ASSUME NEW r \in m.redundant
                 PROVE  Pressed(macro, Before(1 .. i, r), macro[r].key)
                          = Pressed(macro, Before(1 .. i - 1, r), macro[r].key)
      BY <1>6 DEF MatchInv, Greedy
    <2>1. r \in Nat
      BY <1>1, <1>7
    <2>2. CASE macro[r].key = k
      <3>1. Before(1 .. i, r) = Before(1 .. i - 1, r)
        BY <1>2, <2>1, <2>2 DEF MissesRelease, k, Before
      <3> QED
        BY <3>1
    <2>3. CASE macro[r].key # k
      <3>1. OfKey(macro, PressesIn(macro, Before(1 .. i, r)), macro[r].key)
              = OfKey(macro, PressesIn(macro, Before(1 .. i - 1, r)), macro[r].key)
        BY <1>2, <1>3, <2>3 DEF OfKey, PressesIn, Before, k
      <3> QED
        BY <3>1 DEF Pressed
    <2> QED
      BY <2>2, <2>3
  <1> QED
    BY <1>9, <1>10, <1>13, <1>14 DEF MatchInv

LEMMA MatchPair ==
    ASSUME NEW macro \in Seq(Event), NEW i \in 1 .. Len(macro), NEW m, MatchInv(macro, i - 1, m),
           NEW next, NEW e \in DOMAIN macro, Pairs(macro, i, m, next, e)
    PROVE  MatchInv(macro, i, next)
  <1> DEFINE up == 1 .. i - 1
             k == macro[i].key
             S == m.paired
             T == S \cup {i}
             U == T \cup {e}
  <1>1. DOMAIN macro = 1 .. Len(macro) /\ Len(macro) \in Nat /\ e \in Nat /\ i \in Nat
    BY LenProperties
  <1>2. /\ up \in SUBSET (DOMAIN macro) /\ i \in DOMAIN macro /\ i \notin up /\ 1 .. i = up \cup {i}
        /\ \A j \in up : j < i
    BY <1>1
  <1>3. m \in Matching(macro)
    BY DEF MatchInv, Sorted
  <1>4. next = [missing |-> m.missing, redundant |-> m.redundant \ {e}, paired |-> S \cup {i, e}]
    BY <1>3 DEF Pairs, Matching
  <1>5. /\ next.missing = m.missing /\ next.redundant = m.redundant \ {e} /\ next.paired = U
    BY <1>4
  <1>6. m.missing \in Seq(Keys) /\ m.redundant \subseteq DOMAIN macro /\ S \in SUBSET (DOMAIN macro)
    BY <1>3 DEF Matching
  <1>7. /\ macro[i].press /\ ~macro[e].press /\ macro[e].key = k /\ e \in m.redundant /\ i < e
        /\ k \in Keys
    BY <1>2, EventType DEF MatchInv, Sorted, Pairs, Releases
  <1>8. /\ i \notin S /\ e \notin T /\ e \notin S /\ e # i
        /\ S \in SUBSET (DOMAIN macro) /\ T \in SUBSET (DOMAIN macro) /\ U \in SUBSET (DOMAIN macro)
    BY <1>1, <1>2, <1>6, <1>7 DEF MatchInv, Sorted, PressesIn
  <1>9. Sorted(macro, i, next)
    <2>1. next \in Matching(macro)
      BY <1>4, <1>5, <1>6, <1>8 DEF Matching
    <2>2. next.redundant \cap next.paired = {}
      BY <1>5, <1>7 DEF MatchInv, Sorted, Releases
    <2>3. Releases(macro) = next.redundant \cup ReleasesIn(macro, next.paired)
      BY <1>5, <1>7 DEF MatchInv, Sorted, ReleasesIn
    <2>4. PressesIn(macro, next.paired) \subseteq 1 .. i
      BY <1>2, <1>5, <1>7 DEF MatchInv, Sorted, PressesIn
    <2> QED
      BY <2>1, <2>2, <2>3, <2>4 DEF Sorted
  <1> HIDE DEF up, k, S, T, U
  (* Adding the pair to a part of what was paired, or its press alone. *)
  <1>10. ASSUME NEW Q \in SUBSET (DOMAIN macro), i \notin Q
         PROVE  /\ Cardinality(PressesIn(macro, Q \cup {i})) = Cardinality(PressesIn(macro, Q)) + 1
                /\ Cardinality(ReleasesIn(macro, Q \cup {i})) = Cardinality(ReleasesIn(macro, Q))
                /\ Pressed(macro, Q \cup {i}, k) = Pressed(macro, Q, k) + 1
                /\ \A key : key # k => Pressed(macro, Q \cup {i}, key) = Pressed(macro, Q, key)
                /\ \A key : Released(macro, Q \cup {i}, key) = Released(macro, Q, key)
    <2>1. i \in DOMAIN macro /\ macro[i].press /\ macro[i].key = k
      BY <1>2, <1>7 DEF k
    <2> QED
      BY <1>10, <2>1, AddPress
  <1>11. ASSUME NEW Q \in SUBSET T
         PROVE  /\ Cardinality(ReleasesIn(macro, Q \cup {e})) = Cardinality(ReleasesIn(macro, Q)) + 1
                /\ Cardinality(PressesIn(macro, Q \cup {e})) = Cardinality(PressesIn(macro, Q))
                /\ Released(macro, Q \cup {e}, k) = Released(macro, Q, k) + 1
                /\ \A key : key # k => Released(macro, Q \cup {e}, key) = Released(macro, Q, key)
                /\ \A key : Pressed(macro, Q \cup {e}, key) = Pressed(macro, Q, key)
    <2>1. Q \in SUBSET (DOMAIN macro) /\ e \notin Q
      BY <1>8
    <2>2. e \in DOMAIN macro /\ ~macro[e].press /\ macro[e].key = k
      BY <1>7
    <2> QED
      BY <2>1, <2>2, AddRelease
  <1>12. i \notin S /\ S \in SUBSET (DOMAIN macro) /\ T \in SUBSET T /\ S \cup {i} = T /\ T \cup {e} = U
    BY <1>8 DEF T, U
  <1>13. /\ Cardinality(PressesIn(macro, U)) = Cardinality(PressesIn(macro, S)) + 1
         /\ Cardinality(ReleasesIn(macro, U)) = Cardinality(ReleasesIn(macro, S)) + 1
         /\ Pressed(macro, U, k) = Pressed(macro, S, k) + 1
         /\ Released(macro, U, k) = Released(macro, S, k) + 1
         /\ \A key : key # k => /\ Pressed(macro, U, key) = Pressed(macro, S, key)
                               /\ Released(macro, U, key) = Released(macro, S, key)
    BY <1>10, <1>11, <1>12
  <1>14. Balanced(macro, next)
    <2>1. Cardinality(ReleasesIn(macro, U)) = Cardinality(PressesIn(macro, U))
      BY <1>13 DEF MatchInv, Balanced, S
    <2>2. ASSUME NEW key \in Keys PROVE Released(macro, U, key) = Pressed(macro, U, key)
      BY <1>13 DEF MatchInv, Balanced, S
    <2>3. ASSUME NEW key \in Keys, NEW n \in Nat
          PROVE  Released(macro, UpTo(U, n), key) <= Pressed(macro, UpTo(U, n), key)
      <3> DEFINE Q == UpTo(S, n)
      <3>1. Released(macro, Q, key) <= Pressed(macro, Q, key)
        BY DEF MatchInv, Balanced, S
      <3>2. Q \in SUBSET S /\ Q \in SUBSET T /\ Q \in SUBSET (DOMAIN macro) /\ i \notin Q
        BY <1>8 DEF UpTo, T
      <3>3. Released(macro, Q, key) \in Nat /\ Pressed(macro, Q, key) \in Nat
        BY <3>2, Counts
      <3> HIDE DEF Q
      <3>4. CASE n < i
        <4>1. UpTo(U, n) = Q
          BY <1>1, <1>7, <3>4 DEF U, T, UpTo, Q
        <4> QED
          BY <3>1, <4>1
      <3>5. CASE i <= n /\ n < e
        <4>1. UpTo(U, n) = Q \cup {i}
          BY <1>1, <1>7, <3>5 DEF U, T, UpTo, Q
        <4>2. /\ Released(macro, Q \cup {i}, key) = Released(macro, Q, key)
              /\ \/ Pressed(macro, Q \cup {i}, key) = Pressed(macro, Q, key)
                 \/ Pressed(macro, Q \cup {i}, key) = Pressed(macro, Q, key) + 1
          BY <1>10, <3>2
        <4> QED
          BY <3>1, <3>3, <4>1, <4>2
      <3>6. CASE e <= n
        <4>1. UpTo(U, n) = (Q \cup {i}) \cup {e}
          BY <1>1, <1>7, <3>6 DEF U, T, UpTo, Q
        <4>2. Q \cup {i} \in SUBSET T
          BY <3>2 DEF T
        <4>3. /\ Pressed(macro, UpTo(U, n), key) = Pressed(macro, Q \cup {i}, key)
              /\ Released(macro, Q \cup {i}, key) = Released(macro, Q, key)
          BY <1>10, <1>11, <3>2, <4>1, <4>2
        <4>4. CASE key = k
          <5>1. /\ Released(macro, UpTo(U, n), key) = Released(macro, Q \cup {i}, key) + 1
                /\ Pressed(macro, Q \cup {i}, key) = Pressed(macro, Q, key) + 1
            BY <1>10, <1>11, <3>2, <4>1, <4>2, <4>4
          <5> QED
            BY <3>1, <3>3, <4>3, <5>1
        <4>5. CASE key # k
          <5>1. /\ Released(macro, UpTo(U, n), key) = Released(macro, Q \cup {i}, key)
                /\ Pressed(macro, Q \cup {i}, key) = Pressed(macro, Q, key)
            BY <1>10, <1>11, <3>2, <4>1, <4>2, <4>5
          <5> QED
            BY <3>1, <3>3, <4>3, <5>1
        <4> QED
          BY <4>4, <4>5
      <3> QED
        BY <1>1, <3>4, <3>5, <3>6
    <2> QED
      BY <1>5, <2>1, <2>2, <2>3 DEF Balanced
  <1>15. /\ Cardinality(PressesIn(macro, 1 .. i)) = Cardinality(PressesIn(macro, up)) + 1
         /\ Pressed(macro, 1 .. i, k) = Pressed(macro, up, k) + 1
         /\ \A key : key # k => Pressed(macro, 1 .. i, key) = Pressed(macro, up, key)
    BY <1>2, <1>10
  <1>16. Accounted(macro, i, next)
    <2>1. /\ Cardinality(PressesIn(macro, up)) = Cardinality(PressesIn(macro, S)) + Len(m.missing)
          /\ \A key \in Keys : Pressed(macro, up, key) = Pressed(macro, S, key) + Cardinality(MissingOf(m, key))
      BY DEF MatchInv, Accounted, up, S
    <2>2. Cardinality(PressesIn(macro, S)) \in Nat /\ Len(m.missing) \in Nat
      BY <1>6, <1>8, Counts, LenProperties
    <2>3. \A key \in Keys : Pressed(macro, S, key) \in Nat /\ Cardinality(MissingOf(m, key)) \in Nat
      <3>1. \A key \in Keys : MissingOf(m, key) \in SUBSET (1 .. Len(m.missing))
        BY <1>6, LenProperties DEF MissingOf
      <3>2. \A key \in Keys : Cardinality(MissingOf(m, key)) \in Nat
        BY <2>2, <3>1, Numbers
      <3> QED
        BY <1>8, <3>2, Counts
    <2>4. \A key : MissingOf(next, key) = MissingOf(m, key)
      BY <1>5 DEF MissingOf
    <2>5. Cardinality(PressesIn(macro, 1 .. i)) = Cardinality(PressesIn(macro, next.paired)) + Len(next.missing)
      BY <1>5, <1>13, <1>15, <2>1, <2>2
    <2>6. ASSUME NEW key \in Keys
          PROVE  Pressed(macro, 1 .. i, key) = Pressed(macro, next.paired, key) + Cardinality(MissingOf(next, key))
      <3>1. CASE key = k
        BY <1>5, <1>13, <1>15, <2>1, <2>3, <2>4, <3>1
      <3>2. CASE key # k
        BY <1>5, <1>13, <1>15, <2>1, <2>3, <2>4, <3>2
      <3> QED
        BY <3>1, <3>2
    <2> QED
      BY <2>5, <2>6 DEF Accounted
  <1>17. Greedy(macro, i, next)
    <2> SUFFICES ASSUME NEW r \in m.redundant, r # e
                 PROVE  Pressed(macro, Before(1 .. i, r), macro[r].key)
                          <= Released(macro, Before(U, r), macro[r].key)
      BY <1>5 DEF Greedy
    <2> DEFINE key == macro[r].key
    <2>1. r \in Nat /\ r \in DOMAIN macro
      BY <1>1, <1>6
    <2>2. Pressed(macro, Before(up, r), key) <= Released(macro, Before(S, r), key)
      BY DEF MatchInv, Greedy, up, S
    <2>3. Before(S, r) \in SUBSET S /\ Before(S, r) \in SUBSET T /\ Before(up, r) \in SUBSET (DOMAIN macro)
      BY <1>2 DEF Before, T
    <2>4. Before(U, r) \in SUBSET (DOMAIN macro) /\ Before(S, r) \in SUBSET (DOMAIN macro)
          /\ Before(S, r) \in SUBSET Before(U, r)
      BY <1>8, <2>3 DEF Before, U, T
    <2>5. /\ Pressed(macro, Before(up, r), key) \in Nat
          /\ Released(macro, Before(S, r), key) \in Nat /\ Released(macro, Before(U, r), key) \in Nat
          /\ Released(macro, Before(S, r), key) <= Released(macro, Before(U, r), key)
      BY <2>3, <2>4, Counts
    <2>6. CASE ~(i < r)
      <3>1. Before(1 .. i, r) = Before(up, r)
        BY <1>2, <2>6 DEF Before
      <3> QED
        BY <2>2, <2>5, <3>1
    <2>7. CASE i < r /\ key # k
      <3>1. Before(1 .. i, r) = Before(up, r) \cup {i}
        BY <1>2, <2>7 DEF Before
      <3>2. i \notin Before(up, r)
        BY <1>2 DEF Before
      <3>3. Pressed(macro, Before(1 .. i, r), key) = Pressed(macro, Before(up, r), key)
        BY <1>10, <2>3, <2>7, <3>1, <3>2
      <3> QED
        BY <2>2, <2>5, <3>3
    <2>8. CASE i < r /\ key = k
      <3>1. Before(1 .. i, r) = Before(up, r) \cup {i}
        BY <1>2, <2>8 DEF Before
      <3>2. i \notin Before(up, r)
        BY <1>2 DEF Before
      <3>3. Pressed(macro, Before(1 .. i, r), key) = Pressed(macro, Before(up, r), key) + 1
        BY <1>10, <2>3, <2>8, <3>1, <3>2
      <3>4. e < r
        BY <1>1, <2>1, <2>8 DEF Pairs, k
      <3>5. Before(S, r) \cup {e} \in SUBSET Before(U, r)
        BY <3>4 DEF Before, U, T
      <3>6. Released(macro, Before(S, r) \cup {e}, key) = Released(macro, Before(S, r), key) + 1
        BY <1>11, <2>3, <2>8
      <3>7. Released(macro, Before(S, r) \cup {e}, key) <= Released(macro, Before(U, r), key)
        BY <2>4, <3>5, Counts
      <3> QED
        BY <2>2, <2>5, <3>3, <3>6, <3>7
    <2> QED
      BY <2>6, <2>7, <2>8
  <1> QED
    BY <1>9, <1>14, <1>16, <1>17 DEF MatchInv

LEMMA MatchType ==
    ASSUME NEW macro \in Seq(Event), NEW i \in 1 .. Len(macro), NEW m \in Matching(macro)
    PROVE  Match(macro, m, i) \in Matching(macro)
  <1> DEFINE next == Match(macro, m, i)
  <1>1. m.missing \in Seq(Keys) /\ m.redundant \subseteq DOMAIN macro /\ m.paired \subseteq DOMAIN macro
    BY DEF Matching
  <1>2. i \in DOMAIN macro /\ macro[i].key \in Keys
    BY LenProperties, EventType
  <1> HIDE DEF next
  <1>3. CASE SkipsRelease(macro, i, m, next)
    BY <1>3 DEF SkipsRelease, next
  <1>4. CASE MissesRelease(macro, i, m, next)
    <2>1. next = [missing |-> Append(m.missing, macro[i].key), redundant |-> m.redundant, paired |-> m.paired]
      BY <1>4 DEF MissesRelease, Matching
    <2>2. Append(m.missing, macro[i].key) \in Seq(Keys)
      BY <1>1, <1>2, AppendProperties
    <2> QED
      BY <1>1, <2>1, <2>2 DEF Matching, next
  <1>5. ASSUME NEW e \in DOMAIN macro, Pairs(macro, i, m, next, e)
        PROVE  next \in Matching(macro)
    <2>1. next = [missing |-> m.missing, redundant |-> m.redundant \ {e}, paired |-> m.paired \cup {i, e}]
      BY <1>5 DEF Pairs, Matching
    <2> QED
      BY <1>1, <1>2, <2>1 DEF Matching
  <1> QED
    BY <1>3, <1>4, <1>5, MatchCases DEF next

LEMMA MatchStep ==
    ASSUME NEW macro \in Seq(Event), NEW i \in 1 .. Len(macro), NEW m, MatchInv(macro, i - 1, m)
    PROVE  MatchInv(macro, i, Match(macro, m, i))
  <1>1. m \in Matching(macro)
    BY DEF MatchInv, Sorted
  <1>2. CASE SkipsRelease(macro, i, m, Match(macro, m, i))
    BY <1>2, MatchSkip DEF SkipsRelease
  <1>3. CASE MissesRelease(macro, i, m, Match(macro, m, i))
    BY <1>3, MatchMiss
  <1>4. CASE \E e \in DOMAIN macro : Pairs(macro, i, m, Match(macro, m, i), e)
    BY <1>4, MatchPair
  <1> QED
    BY <1>1, <1>2, <1>3, <1>4, MatchCases

Unmatched(macro) == [missing |-> <<>>, redundant |-> Releases(macro), paired |-> {}]

LEMMA MatchBase ==
    ASSUME NEW macro \in Seq(Event)
    PROVE  MatchInv(macro, 0, Unmatched(macro))
  <1> DEFINE m == Unmatched(macro)
  <1>1. m.missing = <<>> /\ m.redundant = Releases(macro) /\ m.paired = {}
    BY DEF Unmatched
  <1>2. m \in Matching(macro)
    BY EmptySeq DEF Unmatched, Matching, Releases
  <1> HIDE DEF m
  <1>3. /\ PressesIn(macro, {}) = {} /\ ReleasesIn(macro, {}) = {}
        /\ \A n : UpTo({}, n) = {} /\ Before({}, n) = {}
    BY DEF PressesIn, ReleasesIn, UpTo, Before
  <1>4. \A key : Pressed(macro, {}, key) = 0 /\ Released(macro, {}, key) = 0
    <2>1. \A key : OfKey(macro, {}, key) = {}
      BY DEF OfKey
    <2> QED
      BY <1>3, <2>1, FS_EmptySet DEF Pressed, Released
  <1>5. \A key : MissingOf(m, key) = {}
    BY <1>1 DEF MissingOf
  <1>0. /\ PressesIn(macro, 1 .. 0) = {} /\ Cardinality({}) = 0
        /\ \A key : Pressed(macro, 1 .. 0, key) = 0
        /\ \A key, n : Pressed(macro, Before(1 .. 0, n), key) = 0
    <2>1. /\ PressesIn(macro, 1 .. 0) = {}
          /\ \A key : OfKey(macro, PressesIn(macro, 1 .. 0), key) = {}
          /\ \A key, n : OfKey(macro, PressesIn(macro, Before(1 .. 0, n)), key) = {}
      BY DEF PressesIn, OfKey, Before
    <2> QED
      BY <2>1, FS_EmptySet DEF Pressed
  <1>6. Sorted(macro, 0, m)
    BY <1>1, <1>2, <1>3 DEF Sorted
  <1>7. Balanced(macro, m)
    <2>1. ASSUME NEW key, NEW n
          PROVE  Released(macro, UpTo({}, n), key) <= Pressed(macro, UpTo({}, n), key)
      <3>1. UpTo({}, n) = {}
        BY <1>3
      <3>2. Released(macro, UpTo({}, n), key) = 0 /\ Pressed(macro, UpTo({}, n), key) = 0
        BY <1>4, <3>1
      <3> QED
        BY <3>2
    <2> QED
      BY <1>1, <1>3, <1>4, <2>1 DEF Balanced
  <1>8. Accounted(macro, 0, m)
    <2>1. Len(m.missing) = 0
      BY <1>1
    <2>2. Cardinality(PressesIn(macro, 1 .. 0)) = Cardinality(PressesIn(macro, m.paired)) + Len(m.missing)
      <3>1. Cardinality(PressesIn(macro, m.paired)) = 0 /\ Cardinality(PressesIn(macro, 1 .. 0)) = 0
        BY <1>0, <1>1, <1>3
      <3> QED
        BY <2>1, <3>1
    <2>3. ASSUME NEW key \in Keys
          PROVE  Pressed(macro, 1 .. 0, key) = Pressed(macro, m.paired, key) + Cardinality(MissingOf(m, key))
      <3>1. Pressed(macro, m.paired, key) = 0 /\ Pressed(macro, 1 .. 0, key) = 0
        BY <1>0, <1>1, <1>4
      <3>2. Cardinality(MissingOf(m, key)) = 0
        BY <1>0, <1>5
      <3> QED
        BY <3>1, <3>2
    <2> QED
      BY <2>2, <2>3 DEF Accounted
  <1>9. Greedy(macro, 0, m)
    <2>1. ASSUME NEW key, NEW n
          PROVE  Pressed(macro, Before(1 .. 0, n), key) <= Released(macro, Before({}, n), key)
      <3>1. Before({}, n) = {}
        BY <1>3
      <3>2. Pressed(macro, Before(1 .. 0, n), key) = 0 /\ Released(macro, Before({}, n), key) = 0
        BY <1>0, <1>4, <3>1
      <3> QED
        BY <3>2
    <2> QED
      BY <1>1, <2>1 DEF Greedy
  <1> QED
    BY <1>6, <1>7, <1>8, <1>9 DEF MatchInv, m

LEMMA MatchedInv ==
    ASSUME NEW macro \in Seq(Event)
    PROVE  MatchInv(macro, Len(macro), Matched(macro))
  <1> DEFINE n == Len(macro)
             X == Matching(macro)
             base == Unmatched(macro)
             Def(f) == [i \in 0 .. n |-> IF i = 0 THEN base ELSE Match(macro, f[i - 1], i)]
             after == CHOOSE f : f = Def(f)
             step == [x \in X \X (1 .. n) |-> Match(macro, x[1], x[2])]
  <1>1. Matched(macro) = after[n]
    BY DEF Matched, Unmatched
  <1>2. n \in Nat
    BY LenProperties
  <1>3. step \in [X \X (1 .. n) -> X]
    BY MatchType
  <1>4. base \in X
    BY MatchBase DEF MatchInv, Sorted
  <1> HIDE DEF n, step, X, base
  <1>5. PICK f \in [0 .. n -> X] : IsLoop(f, n, base, step)
    BY <1>2, <1>3, <1>4, Loop
  <1>6. f = Def(f)
    <2> SUFFICES ASSUME NEW i \in 0 .. n
                 PROVE  f[i] = IF i = 0 THEN base ELSE Match(macro, f[i - 1], i)
      OBVIOUS
    <2>1. CASE i = 0
      BY <1>5, <2>1 DEF IsLoop
    <2>2. CASE i # 0
      <3>1. i \in 1 .. n /\ i - 1 \in 0 .. n
        BY <1>2, <2>2
      <3>2. f[i] = step[<<f[i - 1], i>>] /\ <<f[i - 1], i>> \in X \X (1 .. n)
        BY <1>5, <3>1 DEF IsLoop
      <3> QED
        BY <2>2, <3>2 DEF step
    <2> QED
      BY <2>1, <2>2
  <1>7. after = Def(after)
    BY <1>6
  <1> HIDE DEF after
  <1> DEFINE P == {i \in 0 .. n : MatchInv(macro, i, after[i])}
  <1>8. 0 \in P
    BY <1>2, <1>7, MatchBase DEF base
  <1>9. \A i \in 1 .. n : i - 1 \in P => i \in P
    BY <1>2, <1>7, MatchStep DEF n
  <1> HIDE DEF P
  <1>10. \A i \in 0 .. n : i \in P
    BY <1>2, <1>8, <1>9, Induction
  <1>11. n \in P
    BY <1>2, <1>10
  <1> QED
    BY <1>1, <1>11 DEF P, n

-----------------------------------------------------------------------------
(* checkMacro(): what the erasure of events leaves.                        *)

Kept(macro, indexes) == DOMAIN macro \ indexes

LEMMA ErasedType ==
    ASSUME NEW a \in Seq(Event), NEW R
    PROVE  /\ Kept(a, R) \in SUBSET (DOMAIN a) /\ Kept(a, R) \in SUBSET Nat /\ IsFiniteSet(Kept(a, R))
           /\ Cardinality(Kept(a, R)) \in Nat /\ Cardinality(Kept(a, R)) <= Len(a)
           /\ Erased(a, R) \in Seq(Event)
           /\ Len(Erased(a, R)) = Cardinality(Kept(a, R))
           /\ DOMAIN Erased(a, R) = 1 .. Cardinality(Kept(a, R))
           /\ \A n \in 1 .. Cardinality(Kept(a, R)) :
                    /\ Ascending(Kept(a, R))[n] \in Kept(a, R)
                    /\ Erased(a, R)[n] = a[Ascending(Kept(a, R))[n]]
  <1> DEFINE K == Kept(a, R)
             A == Ascending(K)
             N == Cardinality(K)
  <1>1. DOMAIN a = 1 .. Len(a) /\ Len(a) \in Nat /\ \A i \in DOMAIN a : a[i] \in Event
    BY LenProperties
  <1>2. K \in SUBSET (1 .. Len(a))
    BY <1>1 DEF Kept
  <1>3. K \in SUBSET Nat /\ IsFiniteSet(K) /\ N \in Nat /\ N <= Len(a)
    BY <1>1, <1>2, Numbers
  <1>4. A \in [1 .. N -> K]
    BY <1>3, AscendingFacts
  <1>5. Erased(a, R) = [n \in DOMAIN A |-> a[A[n]]]
    BY DEF Erased, Kept
  <1> HIDE DEF A, K, N
  <1>6. \A n \in 1 .. N : A[n] \in K /\ A[n] \in DOMAIN a
    BY <1>1, <1>2, <1>4
  <1>7. DOMAIN A = 1 .. N
    BY <1>4
  <1>8. Erased(a, R) \in [1 .. N -> Event] /\ \A n \in 1 .. N : Erased(a, R)[n] = a[A[n]]
    BY <1>1, <1>5, <1>6, <1>7
  <1>9. Erased(a, R) \in Seq(Event) /\ Len(Erased(a, R)) = N
    BY <1>3, <1>8, SeqDef, LenProperties
  <1> QED
    BY <1>1, <1>2, <1>3, <1>6, <1>8, <1>9 DEF A, K, N

(* How often a key is pressed and released up to an event that is left.    *)
LEMMA ErasedPrefix ==
    ASSUME NEW a \in Seq(Event), NEW R, NEW n \in DOMAIN Erased(a, R), NEW key
    PROVE  /\ Pressed(Erased(a, R), 1 .. n, key)
                = Pressed(a, UpTo(Kept(a, R), Ascending(Kept(a, R))[n]), key)
           /\ Released(Erased(a, R), 1 .. n, key)
                = Released(a, UpTo(Kept(a, R), Ascending(Kept(a, R))[n]), key)
  <1> DEFINE K == Kept(a, R)
             A == Ascending(K)
             N == Cardinality(K)
             b == Erased(a, R)
             part == UpTo(K, A[n])
             ps == OfKey(a, PressesIn(a, part), key)
             rs == OfKey(a, ReleasesIn(a, part), key)
  <1>1. /\ K \in SUBSET Nat /\ IsFiniteSet(K) /\ N \in Nat
        /\ n \in 1 .. N
        /\ \A m \in 1 .. N : A[m] \in K /\ b[m] = a[A[m]]
    BY ErasedType
  <1>2. \A m, l \in 1 .. N : m < l => A[m] < A[l]
    BY <1>1, AscendingFacts
  <1> HIDE DEF A, K, N, b
  <1>4. 1 .. n \subseteq 1 .. N /\ N \in Nat /\ n \in 1 .. N /\ \A m \in 1 .. N : m \in 1 .. n <=> m <= n
    BY <1>1
  <1>3. \A m \in 1 .. N : A[m] <= A[n] <=> m <= n
    <2> SUFFICES ASSUME NEW m \in 1 .. N PROVE A[m] <= A[n] <=> m <= n
      OBVIOUS
    <2>0. A[m] \in K /\ A[n] \in K
      BY <1>1
    <2>5. \A k \in K : k \in Nat
      BY <1>1
    <2>1. A[m] \in Nat /\ A[n] \in Nat /\ m \in Nat /\ n \in Nat
      BY <1>4, <2>0, <2>5
    <2>2. CASE m < n
      BY <1>1, <1>2, <2>1, <2>2
    <2>3. CASE m = n
      BY <2>1, <2>3
    <2>4. CASE n < m
      BY <1>1, <1>2, <2>1, <2>4
    <2> QED
      BY <2>1, <2>2, <2>3, <2>4
  <1>5. OfKey(b, PressesIn(b, 1 .. n), key) = {m \in 1 .. N : A[m] \in ps}
    BY <1>1, <1>3, <1>4 DEF OfKey, PressesIn, UpTo
  <1>6. OfKey(b, ReleasesIn(b, 1 .. n), key) = {m \in 1 .. N : A[m] \in rs}
    BY <1>1, <1>3, <1>4 DEF OfKey, ReleasesIn, UpTo
  <1>7. ps \in SUBSET K /\ rs \in SUBSET K
    BY DEF OfKey, PressesIn, ReleasesIn, UpTo
  <1> HIDE DEF ps, rs
  <1>8. /\ Cardinality({m \in 1 .. N : A[m] \in ps}) = Cardinality(ps)
        /\ Cardinality({m \in 1 .. N : A[m] \in rs}) = Cardinality(rs)
    BY <1>1, <1>7, Places DEF N, A
  <1> QED
    BY <1>5, <1>6, <1>8 DEF Pressed, Released, ps, rs, b, A, K

LEMMA ErasedTotal ==
    ASSUME NEW a \in Seq(Event), NEW R
    PROVE  /\ \A key : /\ Pressed(Erased(a, R), DOMAIN Erased(a, R), key) = Pressed(a, Kept(a, R), key)
                       /\ Released(Erased(a, R), DOMAIN Erased(a, R), key) = Released(a, Kept(a, R), key)
           /\ Cardinality(PressesIn(Erased(a, R), DOMAIN Erased(a, R)))
                = Cardinality(PressesIn(a, Kept(a, R)))
  <1> DEFINE K == Kept(a, R)
             A == Ascending(K)
             N == Cardinality(K)
             b == Erased(a, R)
  <1>1. /\ K \in SUBSET Nat /\ IsFiniteSet(K) /\ N \in Nat
        /\ DOMAIN b = 1 .. N
        /\ \A m \in 1 .. N : A[m] \in K /\ b[m] = a[A[m]]
    BY ErasedType
  <1> HIDE DEF A, K, N, b
  <1>2. \A Q \in SUBSET K : Cardinality({m \in 1 .. N : A[m] \in Q}) = Cardinality(Q)
    BY <1>1, Places DEF N, A
  <1>3. PressesIn(b, DOMAIN b) = {m \in 1 .. N : A[m] \in PressesIn(a, K)} /\ PressesIn(a, K) \in SUBSET K
    BY <1>1 DEF PressesIn
  <1>4. ASSUME NEW key
        PROVE  /\ OfKey(b, PressesIn(b, DOMAIN b), key) = {m \in 1 .. N : A[m] \in OfKey(a, PressesIn(a, K), key)}
               /\ OfKey(b, ReleasesIn(b, DOMAIN b), key) = {m \in 1 .. N : A[m] \in OfKey(a, ReleasesIn(a, K), key)}
               /\ OfKey(a, PressesIn(a, K), key) \in SUBSET K /\ OfKey(a, ReleasesIn(a, K), key) \in SUBSET K
    BY <1>1 DEF PressesIn, ReleasesIn, OfKey
  <1>5. ASSUME NEW key
        PROVE  /\ Pressed(b, DOMAIN b, key) = Pressed(a, K, key)
               /\ Released(b, DOMAIN b, key) = Released(a, K, key)
    BY <1>2, <1>4 DEF Pressed, Released
  <1> QED
    BY <1>2, <1>3, <1>5 DEF b, K

LEMMA RankUnique ==
    ASSUME NEW S \in SUBSET Nat, IsFiniteSet(S), NEW i \in S, NEW k \in S,
           Cardinality(UpTo(S, i)) = Cardinality(UpTo(S, k))
    PROVE  i = k
  <1>1. i \in Nat /\ k \in Nat
    OBVIOUS
  <1>2. Cardinality(UpTo(S, k)) \in Nat
    <2>1. UpTo(S, k) \in SUBSET S
      BY DEF UpTo
    <2> QED
      BY <2>1, FS_Subset, FS_CardinalityType
  <1>3. ~(i < k) /\ ~(k < i)
    BY <1>2, RankIncreases
  <1> QED
    BY <1>1, <1>3

(* The keys that are pressed, in their order, stay when no press is erased. *)
LEMMA ErasedPresses ==
    ASSUME NEW a \in Seq(Event), NEW R, \A r \in R \cap DOMAIN a : ~a[r].press
    PROVE  /\ NumPresses(Erased(a, R)) = NumPresses(a)
           /\ PressedKeys(Erased(a, R)) = PressedKeys(a)
  <1> DEFINE K == Kept(a, R)
             A == Ascending(K)
             N == Cardinality(K)
             b == Erased(a, R)
             P == PressesIn(a, DOMAIN a)
             Q == PressesIn(b, DOMAIN b)
  <1>1. /\ K \in SUBSET Nat /\ IsFiniteSet(K) /\ N \in Nat
        /\ DOMAIN b = 1 .. N
        /\ \A m \in 1 .. N : A[m] \in K /\ b[m] = a[A[m]]
    BY ErasedType
  <1>2. P \in SUBSET K
    BY DEF PressesIn, Kept
  <1>3. \A m, l \in 1 .. N : m < l => A[m] < A[l]
    BY <1>1, AscendingFacts
  <1>4. K \in SUBSET DOMAIN a
    BY DEF Kept
  <1>5. /\ NumPresses(a) = Len(Ascending(P)) /\ NumPresses(b) = Len(Ascending(Q))
        /\ PressedKeys(a) = [i \in 1 .. NumPresses(a) |-> a[Ascending(P)[i]].key]
        /\ PressedKeys(b) = [i \in 1 .. NumPresses(b) |-> b[Ascending(Q)[i]].key]
    BY DEF NumPresses, PressedKeys, Presses, PressesIn
  <1> HIDE DEF A, K, N, b
  <1>6. Q = {m \in 1 .. N : A[m] \in P}
    BY <1>1, <1>4 DEF PressesIn
  <1> HIDE DEF P, Q
  <1>7. P \in SUBSET Nat /\ IsFiniteSet(P) /\ Q \in SUBSET Nat /\ IsFiniteSet(Q)
    BY <1>1, <1>2, <1>6, FS_Subset, Numbers
  <1>8. Cardinality(Q) = Cardinality(P)
    BY <1>1, <1>2, <1>6, Places DEF N, A
  <1>9. NumPresses(a) = Cardinality(P) /\ NumPresses(b) = Cardinality(P)
    BY <1>5, <1>7, <1>8, AscendingFacts
  <1>10. ASSUME NEW i \in 1 .. Cardinality(P)
         PROVE  b[Ascending(Q)[i]].key = a[Ascending(P)[i]].key
    <2> DEFINE q == Ascending(Q)[i]
               p == Ascending(P)[i]
    <2>1. q \in Q /\ Cardinality(UpTo(Q, q)) = i /\ p \in P /\ Cardinality(UpTo(P, p)) = i
      BY <1>7, <1>8, AscendingFacts
    <2> HIDE DEF q, p
    <2>2. q \in 1 .. N /\ A[q] \in P /\ A[q] \in K
      BY <1>1, <1>6, <2>1
    <2>3. \A m \in 1 .. N : A[m] <= A[q] <=> m <= q
      <3> SUFFICES ASSUME NEW m \in 1 .. N PROVE A[m] <= A[q] <=> m <= q
        OBVIOUS
      <3>1. A[m] \in K
        BY <1>1
      <3>0. N \in Nat /\ \A k \in K : k \in Nat
        BY <1>1
      <3>2. A[m] \in Nat /\ A[q] \in Nat /\ m \in Nat /\ q \in Nat
        BY <2>2, <3>0, <3>1
      <3>3. m < q \/ m = q \/ q < m
        BY <3>2
      <3> QED
        BY <1>3, <2>2, <3>2, <3>3
    <2>4. UpTo(Q, q) = {m \in 1 .. N : A[m] \in UpTo(P, A[q])}
      BY <1>6, <2>3 DEF UpTo
    <2>5. UpTo(P, A[q]) \in SUBSET K
      BY <1>2 DEF UpTo
    <2>6. Cardinality({m \in 1 .. N : A[m] \in UpTo(P, A[q])}) = Cardinality(UpTo(P, A[q]))
      BY <1>1, <2>5, Places DEF N, A
    <2>7. A[q] = p
      <3>1. Cardinality(UpTo(P, A[q])) = Cardinality(UpTo(P, p))
        BY <2>1, <2>4, <2>6
      <3> QED
        BY <1>7, <2>1, <2>2, <3>1, RankUnique
    <2> QED
      BY <1>1, <2>2, <2>7 DEF q, p
  <1>11. PressedKeys(b) = PressedKeys(a)
    BY <1>5, <1>9, <1>10
  <1> QED
    BY <1>9, <1>11 DEF b

-----------------------------------------------------------------------------
(* checkMacro(): the releases are fixed.                                   *)

ReleaseOf(key) == [key |-> key, press |-> FALSE]
Added(macro, missing) == macro \o [i \in DOMAIN missing |-> ReleaseOf(missing[i])]

(* Places of added releases. *)
LEMMA Shifted ==
    ASSUME NEW n \in Nat, NEW S \in SUBSET (1 .. n), NEW l \in Nat
    PROVE  LET T == {x \in l + 1 .. l + n : x - l \in S}
           IN  IsFiniteSet(T) /\ Cardinality(T) = Cardinality(S)
  <1> DEFINE T == {x \in l + 1 .. l + n : x - l \in S}
             f == [x \in T |-> x - l]
  <1>1. f \in [T -> S] /\ \A x, y \in T : f[x] = f[y] => x = y
    OBVIOUS
  <1>2. \A s \in S : \E x \in T : f[x] = s
    <2> SUFFICES ASSUME NEW s \in S PROVE \E x \in T : f[x] = s
      OBVIOUS
    <2>1. s + l \in T /\ (s + l) - l = s
      OBVIOUS
    <2>2. f[s + l] = s
      BY <2>1
    <2> QED
      BY <2>1, <2>2
  <1>3. f \in Bijection(T, S)
    BY <1>1, <1>2 DEF Bijection, Injection, Surjection, IsInjective
  <1>4. IsFiniteSet(S) /\ IsFiniteSet(T)
    <2>1. T \in SUBSET (1 .. l + n) /\ l + n \in Nat
      OBVIOUS
    <2> HIDE DEF T
    <2> QED
      BY <2>1, Numbers
  <1> HIDE DEF f
  <1>5. ExistsBijection(T, S)
    BY <1>3 DEF ExistsBijection
  <1> HIDE DEF T
  <1>6. Cardinality(T) = Cardinality(S)
    BY <1>4, <1>5, FS_Bijection
  <1> QED
    BY <1>4, <1>6 DEF T

LEMMA AddedType ==
    ASSUME NEW macro \in Seq(Event), NEW missing \in Seq(Keys)
    PROVE  /\ Added(macro, missing) \in Seq(Event)
           /\ Len(Added(macro, missing)) = Len(macro) + Len(missing)
           /\ Len(macro) \in Nat /\ Len(missing) \in Nat
           /\ DOMAIN Added(macro, missing) = 1 .. Len(macro) + Len(missing)
           /\ DOMAIN macro = 1 .. Len(macro)
           /\ \A i \in DOMAIN macro : Added(macro, missing)[i] = macro[i]
           /\ \A i \in Len(macro) + 1 .. Len(macro) + Len(missing) :
                 Added(macro, missing)[i] = ReleaseOf(missing[i - Len(macro)])
  <1> DEFINE t == [i \in DOMAIN missing |-> ReleaseOf(missing[i])]
  <1>1. /\ DOMAIN missing = 1 .. Len(missing) /\ Len(missing) \in Nat
        /\ DOMAIN macro = 1 .. Len(macro) /\ Len(macro) \in Nat
        /\ \A i \in 1 .. Len(missing) : missing[i] \in Keys
    BY LenProperties
  <1>2. \A i \in 1 .. Len(missing) : ReleaseOf(missing[i]) \in Event
    BY <1>1 DEF ReleaseOf, Event, Keys
  <1>3. t \in [1 .. Len(missing) -> Event]
    BY <1>1, <1>2
  <1>4. t \in Seq(Event) /\ Len(t) = Len(missing)
    BY <1>1, <1>3, SeqDef, LenProperties
  <1>5. Added(macro, missing) = macro \o t
    BY DEF Added
  <1>6. \A i \in 1 .. Len(missing) : t[i] = ReleaseOf(missing[i])
    BY <1>1
  <1> HIDE DEF t
  <1>7. /\ macro \o t \in Seq(Event) /\ Len(macro \o t) = Len(macro) + Len(t)
        /\ \A i \in 1 .. Len(macro) + Len(t) :
              (macro \o t)[i] = IF i <= Len(macro) THEN macro[i] ELSE t[i - Len(macro)]
    BY <1>4, ConcatProperties
  <1>8. \A i \in DOMAIN macro : (macro \o t)[i] = macro[i]
    BY <1>1, <1>4, <1>7
  <1>9. \A i \in Len(macro) + 1 .. Len(macro) + Len(missing) : (macro \o t)[i] = ReleaseOf(missing[i - Len(macro)])
    BY <1>1, <1>4, <1>6, <1>7
  <1> QED
    BY <1>1, <1>4, <1>5, <1>7, <1>8, <1>9, LenProperties

(* What is left: the presses, the paired releases and the added ones.      *)
LEMMA FixParts ==
    ASSUME NEW macro \in Seq(Event), NEW m, MatchInv(macro, Len(macro), m)
    PROVE  LET added == Added(macro, m.missing)
               K == Kept(added, m.redundant)
           IN  /\ added \in Seq(Event)
               /\ \A r \in m.redundant \cap DOMAIN added : ~added[r].press
               /\ PressesIn(added, DOMAIN added) = PressesIn(macro, DOMAIN macro)
               /\ \A i \in DOMAIN macro : added[i] = macro[i]
               /\ Cardinality(K) = 2 * Cardinality(PressesIn(macro, DOMAIN macro))
               /\ \A key \in Keys : Released(added, K, key) = Pressed(added, K, key)
               /\ \A key \in Keys, x \in K :
                     Released(added, UpTo(K, x), key) <= Pressed(added, UpTo(K, x), key)
  <1> DEFINE added == Added(macro, m.missing)
             K == Kept(added, m.redundant)
             S == m.paired
             l == Len(macro)
             n == Len(m.missing)
             T == l + 1 .. l + n
             P == PressesIn(macro, DOMAIN macro)
             R == ReleasesIn(macro, S)
  <1>1. /\ m.missing \in Seq(Keys) /\ m.redundant \in SUBSET (DOMAIN macro) /\ S \in SUBSET (DOMAIN macro)
        /\ m.redundant \cap S = {} /\ Releases(macro) = m.redundant \cup R
    BY DEF MatchInv, Sorted, Matching
  <1>2. /\ added \in Seq(Event) /\ l \in Nat /\ n \in Nat
        /\ DOMAIN added = 1 .. l + n /\ DOMAIN macro = 1 .. l
        /\ \A i \in DOMAIN macro : added[i] = macro[i]
        /\ \A i \in T : added[i] = ReleaseOf(m.missing[i - l])
    BY <1>1, AddedType
  <1>3. \A i \in T : ~added[i].press /\ added[i].key = m.missing[i - l]
    <2> SUFFICES ASSUME NEW i \in T PROVE ~added[i].press /\ added[i].key = m.missing[i - l]
      OBVIOUS
    <2>1. added[i] = [key |-> m.missing[i - l], press |-> FALSE]
      BY <1>2 DEF ReleaseOf
    <2> HIDE DEF added, l
    <2> QED
      BY <2>1
  <1>4. DOMAIN added = DOMAIN macro \cup T /\ DOMAIN macro \cap T = {}
    BY <1>2
  <1> HIDE DEF added, T, l, n
  <1>5. \A r \in m.redundant \cap DOMAIN added : ~added[r].press
    BY <1>1, <1>2 DEF Releases
  <1>6. K = P \cup R \cup T /\ R \subseteq DOMAIN macro /\ P \subseteq DOMAIN macro /\ P \cap R = {}
    BY <1>1, <1>4 DEF Kept, Releases, PressesIn, ReleasesIn
  <1> HIDE DEF K
  <1>7. PressesIn(added, DOMAIN added) = P /\ PressesIn(added, K) = P
    BY <1>2, <1>3, <1>4, <1>6 DEF PressesIn, ReleasesIn
  <1>8. ReleasesIn(added, K) = R \cup T
    BY <1>2, <1>3, <1>4, <1>6 DEF PressesIn, ReleasesIn
  <1>9. IsFiniteSet(T) /\ Cardinality(T) = n
    BY <1>2, IntervalSize DEF T
  <1>10. /\ IsFiniteSet(P) /\ IsFiniteSet(R) /\ Cardinality(P) \in Nat /\ Cardinality(R) \in Nat
         /\ Cardinality(PressesIn(macro, S)) \in Nat
    BY <1>1, Counts
  <1>11. Cardinality(P) = Cardinality(R) + n
    BY <1>2 DEF MatchInv, Balanced, Accounted, l, n
  <1>12. Cardinality(K) = 2 * Cardinality(P)
    <2>1. (P \cup R) \cap T = {}
      BY <1>4, <1>6
    <2>2. IsFiniteSet(P \cup R) /\ Cardinality(P \cup R) = Cardinality(P) + Cardinality(R)
      BY <1>6, <1>10, DisjointUnion
    <2>3. Cardinality((P \cup R) \cup T) = Cardinality(P \cup R) + Cardinality(T)
      BY <1>9, <2>1, <2>2, DisjointUnion
    <2> HIDE DEF P, R
    <2> QED
      BY <1>2, <1>6, <1>9, <1>10, <1>11, <2>2, <2>3
  <1>13. \A key \in Keys : Released(added, K, key) = Pressed(added, K, key)
    <2> SUFFICES ASSUME NEW key \in Keys PROVE Released(added, K, key) = Pressed(added, K, key)
      OBVIOUS
    <2> DEFINE Z == {x \in T : x - l \in MissingOf(m, key)}
    <2>1. Pressed(added, K, key) = Pressed(macro, 1 .. l, key)
      <3>1. OfKey(added, P, key) = OfKey(macro, P, key)
        BY <1>2, <1>6 DEF OfKey
      <3> QED
        BY <1>2, <1>7, <3>1 DEF Pressed
    <2>2. OfKey(added, R \cup T, key) = OfKey(macro, R, key) \cup Z
      <3>1. \A x \in T : x - l \in DOMAIN m.missing
        BY <1>1, <1>2, LenProperties DEF T, n
      <3> QED
        BY <1>2, <1>3, <1>6, <3>1 DEF OfKey, MissingOf
    <2>3. MissingOf(m, key) \in SUBSET (1 .. n)
      BY <1>1, LenProperties DEF MissingOf, n
    <2>4. IsFiniteSet(Z) /\ Cardinality(Z) = Cardinality(MissingOf(m, key))
      BY <1>2, <2>3, Shifted DEF T
    <2> HIDE DEF Z
    <2>5. OfKey(macro, R, key) \cap Z = {}
      BY <1>4, <1>6 DEF OfKey, Z
    <2>6. OfKey(macro, R, key) \subseteq R
      BY DEF OfKey
    <2>7. IsFiniteSet(OfKey(macro, R, key))
      BY <1>10, <2>6, FS_Subset
    <2>8. Cardinality(OfKey(macro, R, key) \cup Z) = Cardinality(OfKey(macro, R, key)) + Cardinality(Z)
      BY <2>4, <2>5, <2>7, DisjointUnion
    <2>9. Released(added, K, key) = Released(macro, S, key) + Cardinality(MissingOf(m, key))
      BY <1>8, <2>2, <2>4, <2>8 DEF Released
    <2>10. /\ Pressed(macro, 1 .. l, key) = Pressed(macro, S, key) + Cardinality(MissingOf(m, key))
           /\ Released(macro, S, key) = Pressed(macro, S, key)
      BY DEF MatchInv, Balanced, Accounted, l
    <2> QED
      BY <2>1, <2>9, <2>10
  <1>14. ASSUME NEW key \in Keys, NEW x \in K
         PROVE  Released(added, UpTo(K, x), key) <= Pressed(added, UpTo(K, x), key)
    <2> DEFINE U == UpTo(K, x)
    <2>1. x \in Nat
      <3>1. x \in DOMAIN added
        BY <1>4, <1>6
      <3> QED
        BY <1>2, <3>1
    <2>2. K \in SUBSET (DOMAIN added) /\ U \in SUBSET K /\ U \in SUBSET (DOMAIN added)
      BY <1>4, <1>6 DEF UpTo
    <2>3. /\ Released(added, U, key) \in Nat /\ Pressed(added, U, key) \in Nat
          /\ Released(added, K, key) \in Nat /\ Pressed(added, K, key) \in Nat
          /\ Released(added, U, key) <= Released(added, K, key)
      BY <1>2, <2>2, Counts
    <2>4. CASE x \in T
      <3>1. P \subseteq U
        BY <1>2, <1>6, <2>4 DEF UpTo, T
      <3>2. PressesIn(added, U) = PressesIn(added, K)
        BY <1>7, <2>2, <3>1 DEF PressesIn
      <3>3. Pressed(added, U, key) = Pressed(added, K, key)
        BY <3>2 DEF Pressed
      <3> QED
        BY <1>13, <2>3, <3>3
    <2>5. CASE x \notin T
      <3> DEFINE V == UpTo(S, x)
      <3>1. x \in DOMAIN macro /\ \A t \in T : ~(t <= x)
        BY <1>2, <1>4, <1>6, <2>5 DEF T
      <3>2. Released(macro, V, key) <= Pressed(macro, V, key)
        BY <2>1 DEF MatchInv, Balanced
      <3>3. V \in SUBSET (DOMAIN macro) /\ V \in SUBSET (DOMAIN added)
        BY <1>1, <1>4 DEF UpTo
      <3>4. OfKey(added, ReleasesIn(added, U), key) = OfKey(macro, ReleasesIn(macro, V), key)
        BY <1>2, <1>6, <3>1 DEF OfKey, ReleasesIn, PressesIn, UpTo
      <3>5. OfKey(macro, PressesIn(macro, V), key) \subseteq OfKey(added, PressesIn(added, U), key)
        BY <1>1, <1>2, <1>6 DEF OfKey, PressesIn, UpTo
      <3>6. OfKey(added, PressesIn(added, U), key) \in SUBSET K /\ IsFiniteSet(K)
        BY <1>2, <2>2, Counts DEF OfKey, PressesIn
      <3> HIDE DEF U, V
      <3>7. Pressed(macro, V, key) <= Pressed(added, U, key)
        BY <3>5, <3>6, FS_Subset DEF Pressed
      <3>8. Released(added, U, key) = Released(macro, V, key)
        BY <3>4 DEF Released
      <3>9. Pressed(macro, V, key) \in Nat /\ Released(macro, V, key) \in Nat
        BY <3>3, Counts
      <3> QED
        BY <2>3, <3>2, <3>7, <3>8, <3>9 DEF U
    <2> QED
      BY <2>4, <2>5
  <1> QED
    BY <1>2, <1>5, <1>7, <1>12, <1>13, <1>14 DEF added, K

LEMMA EventsAreCounted ==
    ASSUME NEW a \in Seq(Event), NEW n \in 0 .. Len(a), NEW key
    PROVE  /\ NumEvents(a, key, TRUE, n) = Pressed(a, 1 .. n, key)
           /\ NumEvents(a, key, FALSE, n) = Released(a, 1 .. n, key)
  <1>1. \A i \in 1 .. n : i \in DOMAIN a
    BY LenProperties
  <1>2. ASSUME NEW i \in 1 .. n
        PROVE  /\ a[i] = [key |-> key, press |-> TRUE] <=> a[i].key = key /\ a[i].press
               /\ a[i] = [key |-> key, press |-> FALSE] <=> a[i].key = key /\ ~a[i].press
    <2> DEFINE e == a[i]
    <2>1. e \in [key : Key \cup Modifier, press : BOOLEAN]
      BY <1>1, EventType DEF Event
    <2> HIDE DEF e
    <2>2. PICK k \in Key \cup Modifier, p \in BOOLEAN : e = [key |-> k, press |-> p]
      BY <2>1
    <2>3. e.key = k /\ e.press = p
      BY <2>2
    <2>4. CASE p
      <3>1. p = TRUE
        BY <2>4
      <3>2. e = [key |-> k, press |-> TRUE] /\ e.key = k /\ e.press
        BY <2>2, <2>3, <3>1
      <3>3. e # [key |-> key, press |-> FALSE]
        BY <3>2
      <3>4. e = [key |-> key, press |-> TRUE] => e.key = key
        OBVIOUS
      <3> QED
        BY <3>2, <3>3, <3>4 DEF e
    <2>5. CASE ~p
      <3>1. p = FALSE
        BY <2>5
      <3>2. e = [key |-> k, press |-> FALSE] /\ e.key = k /\ ~e.press
        BY <2>2, <2>3, <3>1
      <3>3. e # [key |-> key, press |-> TRUE]
        BY <3>2
      <3>4. e = [key |-> key, press |-> FALSE] => e.key = key
        OBVIOUS
      <3> QED
        BY <3>2, <3>3, <3>4 DEF e
    <2> QED
      BY <2>4, <2>5
  <1>3. {i \in 1 .. n : a[i] = [key |-> key, press |-> TRUE]} = OfKey(a, PressesIn(a, 1 .. n), key)
    BY <1>2 DEF OfKey, PressesIn
  <1>4. {i \in 1 .. n : a[i] = [key |-> key, press |-> FALSE]} = OfKey(a, ReleasesIn(a, 1 .. n), key)
    BY <1>2 DEF OfKey, ReleasesIn
  <1> QED
    BY <1>3, <1>4 DEF NumEvents, Pressed, Released

LEMMA PlayableCounts ==
    ASSUME NEW a \in Seq(Event)
    PROVE  Playable(a) <=>
             \A key \in Keys :
                /\ \A n \in DOMAIN a : Released(a, 1 .. n, key) <= Pressed(a, 1 .. n, key)
                /\ Released(a, DOMAIN a, key) = Pressed(a, DOMAIN a, key)
  <1>1. DOMAIN a = 1 .. Len(a) /\ Len(a) \in Nat
    BY LenProperties
  <1>2. \A n \in DOMAIN a : n \in 0 .. Len(a)
    BY <1>1
  <1>3. \A key : \A n \in DOMAIN a : /\ NumEvents(a, key, FALSE, n) = Released(a, 1 .. n, key)
                                     /\ NumEvents(a, key, TRUE, n) = Pressed(a, 1 .. n, key)
    BY <1>2, EventsAreCounted
  <1>4. ASSUME NEW key
        PROVE  /\ NumEvents(a, key, FALSE, Len(a)) = Released(a, DOMAIN a, key)
               /\ NumEvents(a, key, TRUE, Len(a)) = Pressed(a, DOMAIN a, key)
    <2> DEFINE n == Len(a)
    <2>1. n \in 0 .. Len(a) /\ DOMAIN a = 1 .. n
      BY <1>1
    <2> HIDE DEF n
    <2>2. NumEvents(a, key, FALSE, n) = Released(a, 1 .. n, key) /\ NumEvents(a, key, TRUE, n) = Pressed(a, 1 .. n, key)
      BY <2>1, EventsAreCounted
    <2> QED
      BY <2>1, <2>2 DEF n
  <1> QED
    BY <1>3, <1>4 DEF Playable, Keys

LEMMA NumPressesCounts ==
    ASSUME NEW a \in Seq(Event)
    PROVE  NumPresses(a) = Cardinality(PressesIn(a, DOMAIN a)) /\ NumPresses(a) \in Nat
  <1>1. DOMAIN a \in SUBSET (DOMAIN a)
    OBVIOUS
  <1>2. IsFiniteSet(DOMAIN a) /\ DOMAIN a \in SUBSET Nat /\ IsFiniteSet(PressesIn(a, DOMAIN a))
    BY <1>1, Counts
  <1>3. PressesIn(a, DOMAIN a) \in SUBSET Nat /\ PressesIn(a, DOMAIN a) = {i \in DOMAIN a : a[i].press}
    BY <1>2 DEF PressesIn
  <1>4. Cardinality(PressesIn(a, DOMAIN a)) \in Nat
    BY <1>2, FS_CardinalityType
  <1>5. Presses(a) = Ascending(PressesIn(a, DOMAIN a))
    BY DEF Presses, PressesIn
  <1>6. Len(Ascending(PressesIn(a, DOMAIN a))) = Cardinality(PressesIn(a, DOMAIN a))
    BY <1>2, <1>3, AscendingFacts
  <1> QED
    BY <1>4, <1>5, <1>6 DEF NumPresses

(* fixMacroReleaseEvents() makes any macro playable: every press and its   *)
(* release are left, and nothing else.                                     *)
LEMMA FixReleasesWorks ==
    ASSUME NEW macro \in Seq(Event)
    PROVE  /\ FixReleases(macro) \in Seq(Event)
           /\ Len(FixReleases(macro)) = 2 * NumPresses(macro)
           /\ Playable(FixReleases(macro))
           /\ NumPresses(FixReleases(macro)) = NumPresses(macro)
           /\ PressedKeys(FixReleases(macro)) = PressedKeys(macro)
  <1> DEFINE m == Matched(macro)
             added == Added(macro, m.missing)
             K == Kept(added, m.redundant)
             f == Erased(added, m.redundant)
  <1>1. FixReleases(macro) = f
    BY DEF FixReleases, Added, ReleaseOf
  <1>2. MatchInv(macro, Len(macro), m)
    BY MatchedInv
  <1> HIDE DEF m
  <1>3. /\ added \in Seq(Event)
        /\ \A r \in m.redundant \cap DOMAIN added : ~added[r].press
        /\ PressesIn(added, DOMAIN added) = PressesIn(macro, DOMAIN macro)
        /\ \A i \in DOMAIN macro : added[i] = macro[i]
        /\ Cardinality(K) = 2 * Cardinality(PressesIn(macro, DOMAIN macro))
        /\ \A key \in Keys : Released(added, K, key) = Pressed(added, K, key)
        /\ \A key \in Keys, x \in K :
              Released(added, UpTo(K, x), key) <= Pressed(added, UpTo(K, x), key)
    BY <1>2, FixParts
  <1> HIDE DEF added
  <1>4. f \in Seq(Event) /\ Len(f) = Cardinality(K) /\ DOMAIN f = 1 .. Cardinality(K)
        /\ \A n \in DOMAIN f : Ascending(K)[n] \in K
    BY <1>3, ErasedType
  <1>5. Len(f) = 2 * NumPresses(macro)
    BY <1>3, <1>4, NumPressesCounts
  <1>6. Playable(f)
    <2>1. \A key \in Keys : Released(f, DOMAIN f, key) = Pressed(f, DOMAIN f, key)
      BY <1>3, ErasedTotal
    <2>2. ASSUME NEW key \in Keys, NEW n \in DOMAIN f
          PROVE  Released(f, 1 .. n, key) <= Pressed(f, 1 .. n, key)
      BY <1>3, <1>4, ErasedPrefix
    <2> HIDE DEF f
    <2> QED
      BY <1>4, <2>1, <2>2, PlayableCounts
  <1>7. NumPresses(f) = NumPresses(added) /\ PressedKeys(f) = PressedKeys(added)
    BY <1>3, ErasedPresses
  <1>8. NumPresses(added) = NumPresses(macro) /\ PressedKeys(added) = PressedKeys(macro)
    <2>1. Presses(added) = Presses(macro)
      BY <1>3 DEF Presses, PressesIn
    <2>2. NumPresses(added) = NumPresses(macro)
      BY <2>1 DEF NumPresses
    <2>3. \A i \in 1 .. NumPresses(macro) : Presses(macro)[i] \in DOMAIN macro
      <3> DEFINE P == PressesIn(macro, DOMAIN macro)
      <3>1. P \in SUBSET (DOMAIN macro) /\ Presses(macro) = Ascending(P) /\ DOMAIN macro \in SUBSET (DOMAIN macro)
        BY DEF PressesIn, Presses
      <3>2. P \in SUBSET Nat /\ IsFiniteSet(P)
        BY <3>1, Counts
      <3>3. NumPresses(macro) = Cardinality(P)
        BY NumPressesCounts
      <3> HIDE DEF P
      <3> QED
        BY <3>1, <3>2, <3>3, AscendingFacts
    <2>4. \A i \in 1 .. NumPresses(macro) : added[Presses(macro)[i]].key = macro[Presses(macro)[i]].key
      BY <1>3, <2>3
    <2> QED
      BY <2>1, <2>2, <2>4 DEF PressedKeys
  <1> HIDE DEF f
  <1> QED
    BY <1>1, <1>4, <1>5, <1>6, <1>7, <1>8

(* A macro that can be played has nothing to fix. *)
LEMMA FixReleasesKeeps ==
    ASSUME NEW macro \in Seq(Event), Playable(macro)
    PROVE  FixReleases(macro) = macro
  <1> DEFINE m == Matched(macro)
             l == Len(macro)
  <1>1. MatchInv(macro, l, m)
    BY MatchedInv
  <1>2. DOMAIN macro = 1 .. l /\ l \in Nat
    BY LenProperties
  <1>3. FixReleases(macro) = Erased(Added(macro, m.missing), m.redundant)
    BY DEF FixReleases, Added, ReleaseOf
  <1> HIDE DEF m, l
  <1>4. /\ m.missing \in Seq(Keys) /\ m.redundant \in SUBSET (DOMAIN macro) /\ m.paired \in SUBSET (DOMAIN macro)
        /\ m.redundant \cap m.paired = {} /\ Releases(macro) = m.redundant \cup ReleasesIn(macro, m.paired)
    BY <1>1 DEF MatchInv, Sorted, Matching
  <1>5. \A key \in Keys : /\ \A n \in DOMAIN macro : Released(macro, 1 .. n, key) <= Pressed(macro, 1 .. n, key)
                          /\ Released(macro, DOMAIN macro, key) = Pressed(macro, DOMAIN macro, key)
    BY PlayableCounts
  <1>6. m.redundant = {}
    <2> SUFFICES ASSUME NEW r \in m.redundant PROVE FALSE
      OBVIOUS
    <2> DEFINE k == macro[r].key
               T == Before(m.paired, r)
    <2>1. r \in DOMAIN macro /\ ~macro[r].press /\ r \in Nat /\ r \notin m.paired /\ r \notin T
      BY <1>2, <1>4 DEF Releases, Before
    <2>2. k \in Keys
      BY <2>1, EventType
    <2> HIDE DEF k
    <2>3. Released(macro, 1 .. r, k) <= Pressed(macro, 1 .. r, k)
      BY <1>5, <2>1, <2>2
    <2>4. PressesIn(macro, 1 .. r) = PressesIn(macro, Before(1 .. l, r))
      BY <1>2, <2>1 DEF PressesIn, Before
    <2>5. Pressed(macro, 1 .. r, k) <= Released(macro, T, k)
      <3>1. Pressed(macro, Before(1 .. l, r), k) <= Released(macro, T, k)
        BY <1>1 DEF MatchInv, Greedy, k
      <3> QED
        BY <2>4, <3>1 DEF Pressed
    <2>6. T \in SUBSET (DOMAIN macro) /\ T \cup {r} \in SUBSET (1 .. r) /\ 1 .. r \in SUBSET (DOMAIN macro)
      BY <1>2, <1>4, <2>1 DEF Before
    <2>7. Released(macro, T \cup {r}, k) = Released(macro, T, k) + 1
      BY <2>1, <2>6, AddRelease DEF k
    <2>8. Released(macro, T \cup {r}, k) <= Released(macro, 1 .. r, k)
      BY <2>6, Counts
    <2>9. /\ Released(macro, T, k) \in Nat /\ Released(macro, 1 .. r, k) \in Nat
          /\ Pressed(macro, 1 .. r, k) \in Nat
      BY <2>6, Counts
    <2> HIDE DEF T
    <2> QED
      BY <2>3, <2>5, <2>7, <2>8, <2>9
  <1>7. m.missing = <<>>
    <2>1. ReleasesIn(macro, DOMAIN macro) = ReleasesIn(macro, m.paired)
      BY <1>4, <1>6 DEF Releases, ReleasesIn
    <2>2. ASSUME NEW key \in Keys PROVE MissingOf(m, key) = {}
      <3>1. Released(macro, DOMAIN macro, key) = Released(macro, m.paired, key)
        BY <2>1 DEF Released
      <3>2. Released(macro, m.paired, key) = Pressed(macro, m.paired, key)
        BY <1>1 DEF MatchInv, Balanced
      <3>3. Pressed(macro, DOMAIN macro, key) = Pressed(macro, m.paired, key) + Cardinality(MissingOf(m, key))
        BY <1>1, <1>2 DEF MatchInv, Accounted
      <3>4. MissingOf(m, key) \in SUBSET (1 .. Len(m.missing)) /\ Len(m.missing) \in Nat
        BY <1>4, LenProperties DEF MissingOf
      <3>5. IsFiniteSet(MissingOf(m, key)) /\ Cardinality(MissingOf(m, key)) \in Nat
        BY <3>4, Numbers
      <3>6. Pressed(macro, m.paired, key) \in Nat
        BY <1>4, Counts
      <3>7. Released(macro, DOMAIN macro, key) = Pressed(macro, DOMAIN macro, key)
        BY <1>5
      <3>8. Cardinality(MissingOf(m, key)) = 0
        BY <3>1, <3>2, <3>3, <3>5, <3>6, <3>7
      <3> QED
        BY <3>5, <3>8, FS_EmptySet
    <2>3. DOMAIN m.missing = 1 .. Len(m.missing) /\ Len(m.missing) \in Nat
          /\ \A i \in DOMAIN m.missing : m.missing[i] \in Keys
      BY <1>4, LenProperties
    <2>4. \A i \in DOMAIN m.missing : FALSE
      BY <2>2, <2>3 DEF MissingOf
    <2>5. Len(m.missing) = 0
      <3>1. ~(1 \in 1 .. Len(m.missing))
        BY <2>3, <2>4
      <3> QED
        BY <2>3, <3>1
    <2> QED
      BY <1>4, <2>5, EmptySeq
  <1>8. Added(macro, <<>>) = macro
    <2>1. /\ Added(macro, <<>>) \in Seq(Event) /\ Len(Added(macro, <<>>)) = l + 0
          /\ \A i \in DOMAIN macro : Added(macro, <<>>)[i] = macro[i]
      BY EmptySeq, AddedType DEF l
    <2>2. Len(Added(macro, <<>>)) = Len(macro)
      BY <1>2, <2>1 DEF l
    <2> QED
      BY <1>2, <2>1, <2>2, SeqEqual DEF l
  <1>9. Erased(macro, {}) = macro
    <2>1. DOMAIN macro \ {} = 1 .. l
      BY <1>2
    <2>2. Ascending(1 .. l) = [i \in 1 .. l |-> i]
      BY <1>2, AscendingNumbers
    <2>3. Erased(macro, {}) = [i \in 1 .. l |-> macro[i]]
      BY <2>1, <2>2 DEF Erased
    <2>4. macro = [i \in DOMAIN macro |-> macro[i]]
      BY LenProperties
    <2> QED
      BY <1>2, <2>3, <2>4
  <1> QED
    BY <1>3, <1>6, <1>7, <1>8, <1>9

LEMMA MinOfPair ==
    ASSUME NEW a \in Int, NEW b \in Int
    PROVE  /\ Min({a, b}) \in {a, b}
           /\ Min({a, b}) <= a /\ Min({a, b}) <= b
  <1>1. \E x \in {a, b} : \A y \in {a, b} : x <= y
    <2>1. CASE a <= b
      BY <2>1
    <2>2. CASE b <= a
      BY <2>2
    <2> QED
      BY <2>1, <2>2
  <1> QED
    BY <1>1 DEF Min

LEMMA FixSizeFits ==
    ASSUME NEW macro \in Seq(Event)
    PROVE  FixSize(macro) \in Seq(Event) /\ Len(FixSize(macro)) < MaxSize
  <1> DEFINE indexes == Ascending(Matched(macro).paired)
             rounds == Min({(Len(macro) - MaxSize) \div 2 + 1, Len(indexes) \div 2})
             last == {indexes[i] : i \in Len(indexes) - 2 * rounds + 1 .. Len(indexes)}
             erased == Erased(macro, last)
             n == Min({MaxSize - 1, Len(erased)})
  <1>1. FixSize(macro) = SubSeq(erased, 1, n)
    BY DEF FixSize
  <1> HIDE DEF last
  <1>2. erased \in Seq(Event)
    BY ErasedType
  <1> HIDE DEF erased
  <1>3. Len(erased) \in Nat /\ DOMAIN erased = 1 .. Len(erased) /\ \A i \in 1 .. Len(erased) : erased[i] \in Event
    BY <1>2, LenProperties
  <1>4. MaxSize \in Nat /\ MaxSize > 0
    BY SizesAssumption
  <1>5. n \in Nat /\ n <= MaxSize - 1 /\ n <= Len(erased)
    <2> DEFINE b == Len(erased)
    <2>1. MaxSize - 1 \in Int /\ b \in Int /\ MaxSize - 1 \in Nat /\ b \in Nat
      BY <1>3, <1>4
    <2>2. Min({MaxSize - 1, b}) \in {MaxSize - 1, b} /\ Min({MaxSize - 1, b}) <= MaxSize - 1 /\ Min({MaxSize - 1, b}) <= b
      BY <2>1, MinOfPair
    <2> QED
      BY <2>1, <2>2
  <1> HIDE DEF n
  <1>6. \A i \in 1 .. n : erased[i] \in Event
    BY <1>3, <1>5
  <1>7. SubSeq(erased, 1, n) \in Seq(Event) /\ Len(SubSeq(erased, 1, n)) = IF 1 <= n THEN n - 1 + 1 ELSE 0
    BY <1>5, <1>6, SubSeqProperties
  <1> QED
    BY <1>1, <1>4, <1>5, <1>7

(* checkMacro() leaves a macro that fits, repairs one that is not too long *)
(* and changes nothing in one that needs no repair.                        *)
LEMMA CheckMacroWorks ==
    ASSUME NEW macro \in Seq(Event)
    PROVE  /\ CheckMacro(macro) \in Seq(Event) /\ Len(CheckMacro(macro)) < MaxSize
           /\ 2 * NumPresses(macro) < MaxSize
                => /\ Playable(CheckMacro(macro))
                   /\ NumPresses(CheckMacro(macro)) = NumPresses(macro)
                   /\ PressedKeys(CheckMacro(macro)) = PressedKeys(macro)
                   /\ Playable(macro) => CheckMacro(macro) = macro
  <1> DEFINE f == FixReleases(macro)
  <1>1. /\ f \in Seq(Event) /\ Len(f) = 2 * NumPresses(macro)
        /\ Playable(f) /\ NumPresses(f) = NumPresses(macro) /\ PressedKeys(f) = PressedKeys(macro)
    BY FixReleasesWorks
  <1>2. CheckMacro(macro) = IF Len(f) >= MaxSize THEN FixSize(f) ELSE f
    BY DEF CheckMacro
  <1>3. Playable(macro) => f = macro
    BY FixReleasesKeeps
  <1>4. Len(f) \in Nat /\ MaxSize \in Nat
    BY <1>1, LenProperties, SizesAssumption
  <1> HIDE DEF f
  <1>5. CASE Len(f) >= MaxSize
    BY <1>1, <1>2, <1>4, <1>5, FixSizeFits
  <1>6. CASE ~(Len(f) >= MaxSize)
    BY <1>1, <1>2, <1>3, <1>4, <1>6
  <1> QED
    BY <1>5, <1>6

-----------------------------------------------------------------------------
(* The virtual keyboard.                                                   *)

(* A key is down when it was pressed by an event and not released since.   *)
LastPress(macro, i, k, p) ==
    /\ macro[p].press /\ macro[p].key = k
    /\ \A r \in p + 1 .. i : ~(~macro[r].press /\ macro[r].key = k)
DownAfter(macro, i, down) == \A k \in down : \E p \in 1 .. i : LastPress(macro, i, k, p)

LEMMA SendType ==
    ASSUME NEW down \in SUBSET Keys, NEW e, e.key \in Keys
    PROVE  SendKeyEvent(down, e) \in SUBSET Keys
  BY DEF SendKeyEvent

LEMMA SendStep ==
    ASSUME NEW macro \in Seq(Event), NEW i \in 1 .. Len(macro), NEW down, DownAfter(macro, i - 1, down)
    PROVE  DownAfter(macro, i, SendKeyEvent(down, macro[i]))
  <1>1. i \in Nat
    BY LenProperties
  <1> SUFFICES ASSUME NEW k \in SendKeyEvent(down, macro[i])
               PROVE  \E p \in 1 .. i : LastPress(macro, i, k, p)
    BY DEF DownAfter
  <1>2. CASE macro[i].press /\ macro[i].key = k
    <2>1. i \in 1 .. i /\ \A r \in i + 1 .. i : FALSE
      BY <1>1
    <2> QED
      BY <1>2, <2>1 DEF LastPress
  <1>3. CASE ~(macro[i].press /\ macro[i].key = k)
    <2>1. k \in down /\ ~(~macro[i].press /\ macro[i].key = k)
      BY <1>3 DEF SendKeyEvent
    <2>2. PICK p \in 1 .. i - 1 : LastPress(macro, i - 1, k, p)
      BY <2>1 DEF DownAfter
    <2>3. p \in 1 .. i /\ \A r \in p + 1 .. i : r \in p + 1 .. i - 1 \/ r = i
      BY <1>1
    <2>4. LastPress(macro, i, k, p)
      BY <2>1, <2>2, <2>3 DEF LastPress
    <2> QED
      BY <2>3, <2>4
  <1> QED
    BY <1>2, <1>3

LEMMA RunFacts ==
    ASSUME NEW macro \in Seq(Event), NEW down \in SUBSET Keys
    PROVE  /\ Run(down, macro) \in SUBSET Keys
           /\ down = {} => DownAfter(macro, Len(macro), Run(down, macro))
  <1> DEFINE n == Len(macro)
             X == SUBSET Keys
             Def(f) == [i \in 0 .. n |-> IF i = 0 THEN down ELSE SendKeyEvent(f[i - 1], macro[i])]
             after == CHOOSE f : f = Def(f)
             step == [x \in X \X (1 .. n) |-> SendKeyEvent(x[1], macro[x[2]])]
  <1>1. Run(down, macro) = after[n]
    BY DEF Run
  <1>2. n \in Nat /\ DOMAIN macro = 1 .. n
    BY LenProperties
  <1>3. \A i \in 1 .. n : macro[i].key \in Keys
    BY <1>2, EventType
  <1>4. step \in [X \X (1 .. n) -> X] /\ down \in X
    BY <1>3, SendType
  <1> HIDE DEF n, step, X
  <1>5. PICK f \in [0 .. n -> X] : IsLoop(f, n, down, step)
    BY <1>2, <1>4, Loop
  <1>6. f = Def(f)
    <2> SUFFICES ASSUME NEW i \in 0 .. n
                 PROVE  f[i] = IF i = 0 THEN down ELSE SendKeyEvent(f[i - 1], macro[i])
      OBVIOUS
    <2>1. CASE i = 0
      BY <1>5, <2>1 DEF IsLoop
    <2>2. CASE i # 0
      <3>1. i \in 1 .. n /\ i - 1 \in 0 .. n
        BY <1>2, <2>2
      <3>2. f[i] = step[<<f[i - 1], i>>] /\ <<f[i - 1], i>> \in X \X (1 .. n)
        BY <1>5, <3>1 DEF IsLoop
      <3> QED
        BY <2>2, <3>2 DEF step
    <2> QED
      BY <2>1, <2>2
  <1>7. after = Def(after)
    BY <1>6
  <1> HIDE DEF after
  <1> DEFINE P == {i \in 0 .. n : /\ after[i] \in SUBSET Keys
                                  /\ down = {} => DownAfter(macro, i, after[i])}
  <1>8. 0 \in P
    <2>1. after[0] = down
      BY <1>2, <1>7
    <2> QED
      BY <1>2, <2>1 DEF DownAfter
  <1>9. ASSUME NEW i \in 1 .. n, i - 1 \in P PROVE i \in P
    <2>1. after[i] = SendKeyEvent(after[i - 1], macro[i])
      BY <1>2, <1>7
    <2>2. after[i] \in SUBSET Keys
      BY <1>3, <1>9, <2>1, SendType
    <2>3. down = {} => DownAfter(macro, i, after[i])
      BY <1>9, <2>1, SendStep DEF n
    <2> QED
      BY <1>2, <2>2, <2>3
  <1> HIDE DEF P
  <1>10. \A i \in 0 .. n : i \in P
    BY <1>2, <1>8, <1>9, Induction
  <1>11. n \in P
    BY <1>2, <1>10
  <1> QED
    BY <1>1, <1>11 DEF P, n

(* A playable macro that is run leaves no key down. *)
LEMMA RunPlayable ==
    ASSUME NEW macro \in Seq(Event), Playable(macro)
    PROVE  Run({}, macro) = {}
  <1>1. DownAfter(macro, Len(macro), Run({}, macro)) /\ Run({}, macro) \in SUBSET Keys
    BY RunFacts
  <1>2. DOMAIN macro = 1 .. Len(macro) /\ Len(macro) \in Nat
    BY LenProperties
  <1> SUFFICES ASSUME NEW k \in Run({}, macro) PROVE FALSE
    OBVIOUS
  <1>3. k \in Keys
    BY <1>1
  <1>4. PICK p \in 1 .. Len(macro) : LastPress(macro, Len(macro), k, p)
    BY <1>1 DEF DownAfter
  <1> DEFINE up == 1 .. p - 1
             all == DOMAIN macro
  <1>5. /\ p \in Nat /\ p \in DOMAIN macro /\ p \notin up /\ up \in SUBSET (DOMAIN macro)
        /\ up \cup {p} \in SUBSET (DOMAIN macro) /\ all \in SUBSET (DOMAIN macro)
    BY <1>2
  <1>6. OfKey(macro, ReleasesIn(macro, all), k) = OfKey(macro, ReleasesIn(macro, up), k)
    <2>1. \A r \in all : r \notin up => r = p \/ r \in p + 1 .. Len(macro)
      BY <1>2, <1>5
    <2> HIDE DEF up, all
    <2> QED
      BY <1>4, <1>5, <2>1 DEF LastPress, OfKey, ReleasesIn, all
  <1>7. Released(macro, all, k) = Released(macro, up, k)
    BY <1>6 DEF Released
  <1>8. Released(macro, up, k) <= Pressed(macro, up, k)
    <2>1. CASE p = 1
      <3>1. up = {}
        BY <2>1
      <3>2. OfKey(macro, ReleasesIn(macro, up), k) = {} /\ OfKey(macro, PressesIn(macro, up), k) = {}
        BY <3>1 DEF OfKey, ReleasesIn, PressesIn
      <3>3. Released(macro, up, k) = 0 /\ Pressed(macro, up, k) = 0
        BY <3>2, FS_EmptySet DEF Released, Pressed
      <3> QED
        BY <3>3
    <2>2. CASE p # 1
      <3>1. p - 1 \in DOMAIN macro
        BY <1>2, <2>2
      <3> QED
        BY <1>3, <3>1, PlayableCounts
    <2> QED
      BY <2>1, <2>2
  <1> HIDE DEF up
  <1>9. Pressed(macro, up \cup {p}, k) = Pressed(macro, up, k) + 1
    BY <1>4, <1>5, AddPress DEF LastPress
  <1>10. Pressed(macro, up \cup {p}, k) <= Pressed(macro, all, k)
    BY <1>5, Counts
  <1>11. Released(macro, all, k) = Pressed(macro, all, k)
    BY <1>3, PlayableCounts
  <1>12. /\ Released(macro, up, k) \in Nat /\ Pressed(macro, up, k) \in Nat
         /\ Pressed(macro, all, k) \in Nat
    BY <1>5, Counts
  <1> HIDE DEF all
  <1> QED
    BY <1>7, <1>8, <1>9, <1>10, <1>11, <1>12

-----------------------------------------------------------------------------
(* The invariant.  The macros that were sent or stored before an overlong  *)
(* one was recorded can be played, and the check of the service keeps what *)
(* the daemon has checked.                                                 *)

Good(macro) == Playable(macro) /\ 2 * NumPresses(macro) < MaxSize
Signal(late) ==
    [name : {"DeviceMacroCleared", "DeviceGKeyEvent"}, key : GKeyID]
    \cup [name : {"DeviceMacroRecorded"}, key : GKeyID,
          macro : {m \in Seq(Event) : m # <<>> /\ (late \/ Good(m))}]

SignalsOK == signals \in Seq(Signal(overlong))
TypedIsChecked == typed # <<>> => pc = "over" /\ newMacro = CheckMacro(typed)
BankIsPlayable == ~overlong => \A key \in GKeyID : Playable(bank[key].macro)

KeysInv == KeysTypeOK /\ SignalsOK /\ TypedIsChecked /\ BankIsPlayable /\ NoKeyStaysDown

LEMMA PlayableEmpty ==
    Playable(<<>>) /\ <<>> \in Seq(Event) /\ Len(<<>>) = 0
  <1>1. <<>> \in Seq(Event) /\ DOMAIN <<>> = {} /\ Len(<<>>) = 0
    BY EmptySeq
  <1>2. \A key : Released(<<>>, {}, key) = Pressed(<<>>, {}, key)
    <2>1. \A key : OfKey(<<>>, ReleasesIn(<<>>, {}), key) = {} /\ OfKey(<<>>, PressesIn(<<>>, {}), key) = {}
      BY DEF OfKey, ReleasesIn, PressesIn
    <2> QED
      BY <2>1 DEF Released, Pressed
  <1> QED
    BY <1>1, <1>2, PlayableCounts

LEMMA SignalFacts ==
    ASSUME NEW late \in BOOLEAN, NEW s \in Signal(late)
    PROVE  /\ s.key \in GKeyID
           /\ s.name \in {"DeviceMacroCleared", "DeviceGKeyEvent", "DeviceMacroRecorded"}
           /\ s.name = "DeviceMacroRecorded" => s.macro \in Seq(Event) /\ s.macro # <<>> /\ (late \/ Good(s.macro))
  BY DEF Signal

LEMMA SignalsLater ==
    ASSUME NEW q \in Seq(Signal(FALSE)), NEW late \in BOOLEAN
    PROVE  q \in Seq(Signal(late))
  <1>1. Signal(FALSE) \subseteq Signal(late)
    BY DEF Signal
  <1>2. q \in [1 .. Len(q) -> Signal(FALSE)] /\ Len(q) \in Nat
    BY LenProperties, SeqDef
  <1>3. q \in [1 .. Len(q) -> Signal(late)]
    BY <1>1, <1>2
  <1> QED
    BY <1>2, <1>3, SeqDef

LEMMA MacroEventType ==
    ASSUME NEW macro \in Seq(Event), Len(macro) < MaxSize
    PROVE  /\ MacroEvent(macro) \in GKeysEvent
           /\ Len(MacroEvent(macro).macro) < MaxSize /\ MacroEvent(macro).macro = macro
           /\ MacroEvent(macro).type = "macro" <=> MacroEvent(macro).macro # <<>>
  BY DEF MacroEvent, GKeysEvent

LEMMA KeysInitInv ==
    KeysInit => KeysInv
  <1> SUFFICES ASSUME KeysInit PROVE KeysInv
    OBVIOUS
  <1> USE DEF KeysInit, Init
  <1>1. previous \in Report
    <2>1. 2 ^ NumModifiers \in Nat /\ 2 ^ NumModifiers # 0
      <3>1. NumModifiers \in Nat
        BY SizesAssumption
      <3>2. IsFiniteSet(1 .. NumModifiers) /\ Cardinality(1 .. NumModifiers) = NumModifiers
        BY <3>1, FS_Interval
      <3>3. /\ IsFiniteSet(SUBSET (1 .. NumModifiers))
            /\ Cardinality(SUBSET (1 .. NumModifiers)) = 2 ^ NumModifiers
        BY <3>2, FS_SUBSET
      <3>4. SUBSET (1 .. NumModifiers) # {}
        OBVIOUS
      <3> QED
        BY <3>3, <3>4, FS_EmptySet, FS_CardinalityType
    <2>2. 0 \in 0 .. (2 ^ NumModifiers - 1)
      BY <2>1
    <2>3. [i \in 1 .. NumSlots |-> None] \in Slots
      BY DEF Slots
    <2> QED
      BY <2>2, <2>3 DEF Report
  <1>2. MaxSize \in Nat /\ MaxSize > 0 /\ MaxSignals \in Nat
    BY SizesAssumption, KeysAssumption
  <1>3. TypeOK
    BY <1>1, <1>2, PlayableEmpty DEF TypeOK
  <1>4. /\ MacroEvent(<<>>) \in GKeysEvent /\ Len(MacroEvent(<<>>).macro) < MaxSize
        /\ MacroEvent(<<>>).type = "macro" <=> MacroEvent(<<>>).macro # <<>>
        /\ MacroEvent(<<>>).macro = <<>>
    BY <1>2, PlayableEmpty, MacroEventType
  <1>5. KeysTypeOK
    <2>1. Len(signals) <= MaxSignals
      BY <1>2, PlayableEmpty
    <2>2. bank \in [GKeyID -> GKeysEvent]
      BY <1>4
    <2>3. \A key \in GKeyID : /\ Len(bank[key].macro) < MaxSize
                              /\ bank[key].type = "macro" <=> bank[key].macro # <<>>
      BY <1>4
    <2> QED
      BY <1>3, <2>1, <2>2, <2>3 DEF KeysTypeOK
  <1>6. SignalsOK
    BY EmptySeq DEF SignalsOK
  <1>7. BankIsPlayable
    BY <1>4, PlayableEmpty DEF BankIsPlayable
  <1> QED
    BY <1>5, <1>6, <1>7 DEF KeysInv, TypedIsChecked, NoKeyStaysDown


LEMMA InvFacts ==
    ASSUME KeysInv
    PROVE  /\ newMacro \in Macro /\ typed \in Macro /\ previous \in Report
           /\ overlong \in BOOLEAN /\ MaxSize \in Nat /\ MaxSignals \in Nat
           /\ Len(signals) \in Nat
           /\ \A key \in GKeyID : /\ bank[key] \in GKeysEvent /\ bank[key].macro \in Seq(Event)
                                  /\ Len(bank[key].macro) < MaxSize
                                  /\ ~overlong => Playable(bank[key].macro)
  <1>1. bank \in [GKeyID -> GKeysEvent]
    BY DEF KeysInv, KeysTypeOK
  <1>2. \A key \in GKeyID : bank[key] \in GKeysEvent /\ bank[key].macro \in Seq(Event)
    BY <1>1 DEF GKeysEvent
  <1>3. Len(signals) \in Nat
    BY LenProperties DEF KeysInv, SignalsOK
  <1> QED
    BY <1>2, <1>3, SizesAssumption, KeysAssumption
    DEF KeysInv, KeysTypeOK, TypeOK, Macro, BankIsPlayable

LEMMA TypePreserves ==
    ASSUME KeysInv, NEW report \in Report, Type(report)
    PROVE  KeysInv'
  <1> USE DEF Type, KeyReport, serviceVars
  <1>1. newMacro' \in Macro
    BY InvFacts, FillFits
  <1>2. typed = <<>> /\ typed' = typed
    BY DEF KeysInv, TypedIsChecked
  <1>3. TypeOK'
    BY <1>1 DEF KeysInv, KeysTypeOK, TypeOK, Macro
  <1>4. KeysTypeOK'
    BY <1>3 DEF KeysInv, KeysTypeOK
  <1> QED
    BY <1>2, <1>4 DEF KeysInv, SignalsOK, TypedIsChecked, BankIsPlayable, NoKeyStaysDown

LEMMA RecordingPreserves ==
    ASSUME KeysInv, StartRecord \/ LeaveRecord
    PROVE  KeysInv'
  <1> USE DEF StartRecord, LeaveRecord, EnterRecord, Abandon, Clear, serviceVars
  <1>1. MaxSize \in Nat
    BY SizesAssumption
  <1>2. TypeOK'
    <2>1. <<>> \in Seq(Event) /\ Len(<<>>) <= MaxSize
      BY <1>1, PlayableEmpty
    <2>2. pc' \in {"listen", "record", "over"} /\ previous' = previous
      OBVIOUS
    <2>3. newMacro' \in {newMacro, <<>>} /\ typed' \in {typed, <<>>}
      OBVIOUS
    <2> QED
      BY <2>1, <2>2, <2>3 DEF KeysInv, KeysTypeOK, TypeOK
  <1>3. KeysTypeOK'
    BY <1>2 DEF KeysInv, KeysTypeOK
  <1>4. TypedIsChecked'
    BY DEF KeysInv, TypedIsChecked
  <1> QED
    BY <1>3, <1>4 DEF KeysInv, SignalsOK, BankIsPlayable, NoKeyStaysDown

LEMMA RecordMacroPreserves ==
    ASSUME KeysInv, NEW key \in GKeyID, RecordMacro(key)
    PROVE  KeysInv'
  <1> DEFINE signal == IF newMacro' = <<>>
                       THEN [name |-> "DeviceMacroCleared", key |-> key]
                       ELSE [name |-> "DeviceMacroRecorded", key |-> key, macro |-> newMacro']
  <1>1. /\ pc' = "over" /\ typed' = newMacro /\ newMacro' = CheckMacro(newMacro)
        /\ Len(signals) < MaxSignals /\ signals' = Append(signals, signal)
        /\ overlong' = (overlong \/ 2 * NumPresses(typed') >= MaxSize)
        /\ UNCHANGED <<previous, bank, listening, held>>
    BY DEF RecordMacro, GKey, Broadcast
  <1>2. newMacro \in Seq(Event) /\ Len(newMacro) <= MaxSize /\ MaxSize \in Nat
    BY InvFacts DEF Macro
  <1>3. /\ newMacro' \in Seq(Event) /\ Len(newMacro') < MaxSize
        /\ 2 * NumPresses(newMacro) < MaxSize
             => Playable(newMacro') /\ NumPresses(newMacro') = NumPresses(newMacro)
    BY <1>1, <1>2, CheckMacroWorks
  <1>4. NumPresses(newMacro) \in Nat /\ overlong \in BOOLEAN /\ overlong' \in BOOLEAN
    BY <1>1, <1>2, InvFacts, NumPressesCounts
  <1>5. overlong' \/ Good(newMacro')
    <2> SUFFICES ASSUME ~overlong' PROVE Good(newMacro')
      OBVIOUS
    <2>1. ~(2 * NumPresses(typed') >= MaxSize)
      BY <1>1
    <2>2. 2 * NumPresses(newMacro) < MaxSize
      BY <1>1, <1>2, <1>4, <2>1
    <2> QED
      BY <1>3, <2>2 DEF Good
  <1>6. signal \in Signal(overlong')
    <2>1. CASE newMacro' = <<>>
      BY <2>1 DEF Signal
    <2>2. CASE newMacro' # <<>>
      <3>1. newMacro' \in {m \in Seq(Event) : m # <<>> /\ (overlong' \/ Good(m))}
        BY <1>3, <1>5, <2>2
      <3> QED
        BY <2>2, <3>1 DEF Signal
    <2> QED
      BY <2>1, <2>2
  <1> HIDE DEF signal
  <1>7. signals \in Seq(Signal(overlong'))
    <2>1. CASE overlong' = overlong
      BY <2>1 DEF KeysInv, SignalsOK
    <2>2. CASE overlong' # overlong
      <3>1. overlong = FALSE
        BY <1>1, <1>4, <2>2
      <3> QED
        BY <1>4, <3>1, SignalsLater DEF KeysInv, SignalsOK
    <2> QED
      BY <2>1, <2>2
  <1>8. signals' \in Seq(Signal(overlong')) /\ Len(signals') = Len(signals) + 1
    BY <1>1, <1>6, <1>7, AppendProperties
  <1>9. TypeOK'
    BY <1>1, <1>2, <1>3 DEF KeysInv, KeysTypeOK, TypeOK
  <1>10. KeysTypeOK'
    <2>1. Len(signals') <= MaxSignals
      BY <1>1, <1>8, InvFacts
    <2> QED
      BY <1>1, <1>4, <1>9, <2>1 DEF KeysInv, KeysTypeOK
  <1>11. overlong' \/ ~overlong
    BY <1>1, <1>4
  <1>12. BankIsPlayable' /\ NoKeyStaysDown'
    BY <1>1, <1>11 DEF KeysInv, BankIsPlayable, NoKeyStaysDown
  <1> QED
    BY <1>1, <1>8, <1>10, <1>12 DEF KeysInv, SignalsOK, TypedIsChecked

LEMMA PressPreserves ==
    ASSUME KeysInv, NEW key \in GKeyID, PressGKey(key)
    PROVE  KeysInv'
  <1> DEFINE signal == [name |-> "DeviceGKeyEvent", key |-> key]
  <1>1. /\ Len(signals) < MaxSignals /\ signals' = Append(signals, signal)
        /\ UNCHANGED <<pc, previous, newMacro, typed, bank, listening, held, overlong>>
    BY DEF PressGKey, Broadcast
  <1>2. signal \in Signal(overlong)
    BY DEF Signal
  <1>3. signals' \in Seq(Signal(overlong)) /\ Len(signals') = Len(signals) + 1
    BY <1>1, <1>2, AppendProperties DEF KeysInv, SignalsOK
  <1>4. Len(signals') <= MaxSignals
    BY <1>1, <1>3, InvFacts
  <1>5. KeysTypeOK'
    BY <1>1, <1>4 DEF KeysInv, KeysTypeOK, TypeOK
  <1> QED
    BY <1>1, <1>3, <1>5 DEF KeysInv, SignalsOK, TypedIsChecked, BankIsPlayable, NoKeyStaysDown

(* The bank after one of its keys got an event. *)
LEMMA BankPreserves ==
    ASSUME KeysInv, NEW key \in GKeyID, NEW event \in GKeysEvent,
           Len(event.macro) < MaxSize, event.type = "macro" <=> event.macro # <<>>,
           ~overlong => Playable(event.macro),
           bank' = bank \/ bank' = [bank EXCEPT ![key] = event],
           overlong' = overlong
    PROVE  /\ bank' \in [GKeyID -> GKeysEvent]
           /\ \A k \in GKeyID : /\ Len(bank'[k].macro) < MaxSize
                                /\ bank'[k].type = "macro" <=> bank'[k].macro # <<>>
           /\ BankIsPlayable'
  <1>1. bank \in [GKeyID -> GKeysEvent]
    BY DEF KeysInv, KeysTypeOK
  <1>2. \A k \in GKeyID : bank'[k] = bank[k] \/ bank'[k] = event
    BY <1>1
  <1>3. \A k \in GKeyID : /\ Len(bank[k].macro) < MaxSize
                          /\ bank[k].type = "macro" <=> bank[k].macro # <<>>
                          /\ ~overlong => Playable(bank[k].macro)
    BY DEF KeysInv, KeysTypeOK, BankIsPlayable
  <1>4. bank' \in [GKeyID -> GKeysEvent]
    BY <1>1
  <1>5. \A k \in GKeyID : /\ Len(bank'[k].macro) < MaxSize
                          /\ bank'[k].type = "macro" <=> bank'[k].macro # <<>>
                          /\ ~overlong => Playable(bank'[k].macro)
    BY <1>2, <1>3
  <1> QED
    BY <1>4, <1>5 DEF BankIsPlayable

LEMMA LoadPreserves ==
    ASSUME KeysInv, NEW key \in GKeyID, LoadFile(key)
    PROVE  KeysInv'
  <1>1. PICK event \in {RunCommand, MacroEvent(<<>>)} : bank' = [bank EXCEPT ![key] = event]
    BY DEF LoadFile
  <1>2. UNCHANGED <<pc, previous, newMacro, typed, signals, listening, held, overlong>>
    BY DEF LoadFile
  <1>3. MaxSize \in Nat /\ MaxSize > 0
    BY SizesAssumption
  <1>4. /\ event \in GKeysEvent /\ Len(event.macro) < MaxSize
        /\ event.type = "macro" <=> event.macro # <<>>
        /\ Playable(event.macro)
    <2>1. <<>> \in Seq(Event) /\ Len(<<>>) < MaxSize /\ Playable(<<>>)
      BY <1>3, PlayableEmpty
    <2>2. CASE event = RunCommand
      BY <2>1, <2>2 DEF RunCommand, GKeysEvent
    <2>3. CASE event = MacroEvent(<<>>)
      BY <2>1, <2>3, MacroEventType
    <2> QED
      BY <1>1, <2>2, <2>3
  <1>5. /\ bank' \in [GKeyID -> GKeysEvent]
        /\ \A k \in GKeyID : /\ Len(bank'[k].macro) < MaxSize
                             /\ bank'[k].type = "macro" <=> bank'[k].macro # <<>>
        /\ BankIsPlayable'
    BY <1>1, <1>2, <1>4, BankPreserves
  <1>6. KeysTypeOK'
    BY <1>2, <1>5 DEF KeysInv, KeysTypeOK, TypeOK
  <1> QED
    BY <1>2, <1>5, <1>6 DEF KeysInv, SignalsOK, TypedIsChecked, NoKeyStaysDown

(* What a signal does to the bank. *)
LEMMA SignalOnBank ==
    ASSUME KeysInv, HandleSignal
    PROVE  /\ \/ bank' = bank
              \/ /\ Head(signals).name = "DeviceMacroRecorded"
                 /\ bank' = SetMacro(Head(signals).key, Head(signals).macro)
              \/ /\ Head(signals).name = "DeviceMacroCleared"
                 /\ bank' = ClearMacro(Head(signals).key)
           /\ Head(signals) \in Signal(overlong)
           /\ signals' \in Seq(Signal(overlong)) /\ Len(signals') = Len(signals) - 1
  <1> DEFINE s == Head(signals)
  <1>1. s \in Signal(overlong) /\ Tail(signals) \in Seq(Signal(overlong)) /\ Len(Tail(signals)) = Len(signals) - 1
    BY HeadTailProperties DEF KeysInv, SignalsOK, HandleSignal
  <1>2. s.name \in {"DeviceMacroCleared", "DeviceGKeyEvent", "DeviceMacroRecorded"}
    BY <1>1, InvFacts, SignalFacts
  <1>3. signals' = Tail(signals)
    BY DEF HandleSignal
  <1>4. bank' = CASE ~listening \/ s.name = "DeviceGKeyEvent" -> bank
                  [] s.name = "DeviceMacroRecorded" /\ listening -> SetMacro(s.key, s.macro)
                  [] s.name = "DeviceMacroCleared" /\ listening -> ClearMacro(s.key)
    BY DEF HandleSignal
  <1> HIDE DEF s
  <1>5. \/ bank' = bank
        \/ s.name = "DeviceMacroRecorded" /\ bank' = SetMacro(s.key, s.macro)
        \/ s.name = "DeviceMacroCleared" /\ bank' = ClearMacro(s.key)
    <2>1. CASE ~listening \/ s.name = "DeviceGKeyEvent"
      BY <1>4, <2>1
    <2>2. CASE listening /\ s.name = "DeviceMacroRecorded"
      BY <1>4, <2>2
    <2>3. CASE listening /\ s.name = "DeviceMacroCleared"
      BY <1>4, <2>3
    <2> QED
      BY <1>2, <2>1, <2>2, <2>3
  <1> QED
    BY <1>1, <1>3, <1>5 DEF s

(* The check of the service changes nothing in what was sent. *)
LEMMA SetMacroFacts ==
    ASSUME KeysInv, NEW key \in GKeyID, NEW macro \in Seq(Event), overlong \/ Good(macro)
    PROVE  /\ CheckMacro(macro) \in Seq(Event) /\ Len(CheckMacro(macro)) < MaxSize
           /\ ~overlong => CheckMacro(macro) = macro /\ Playable(CheckMacro(macro))
           /\ SetMacro(key, macro) = [bank EXCEPT ![key] = MacroEvent(CheckMacro(macro))]
  <1>1. CheckMacro(macro) \in Seq(Event) /\ Len(CheckMacro(macro)) < MaxSize
    BY CheckMacroWorks
  <1>2. ~overlong => CheckMacro(macro) = macro /\ Playable(CheckMacro(macro))
    BY CheckMacroWorks DEF Good
  <1>3. Len(CheckMacro(macro)) \in Nat /\ MaxSize \in Nat
    BY <1>1, LenProperties, SizesAssumption
  <1>4. ~(Len(CheckMacro(macro)) >= MaxSize)
    BY <1>1, <1>3
  <1> QED
    BY <1>1, <1>2, <1>4 DEF SetMacro

LEMMA HandlePreserves ==
    ASSUME KeysInv, HandleSignal
    PROVE  KeysInv'
  <1> DEFINE s == Head(signals)
  <1>1. /\ UNCHANGED <<pc, previous, newMacro, typed, listening, overlong>>
        /\ held' = IF listening /\ s.name = "DeviceGKeyEvent" THEN RunEvent(s.key) ELSE held
    BY DEF HandleSignal
  <1>2. /\ \/ bank' = bank
           \/ s.name = "DeviceMacroRecorded" /\ bank' = SetMacro(s.key, s.macro)
           \/ s.name = "DeviceMacroCleared" /\ bank' = ClearMacro(s.key)
        /\ s \in Signal(overlong)
        /\ signals' \in Seq(Signal(overlong)) /\ Len(signals') = Len(signals) - 1
    BY SignalOnBank
  <1> HIDE DEF s
  <1>3. /\ s.key \in GKeyID
        /\ s.name = "DeviceMacroRecorded" => s.macro \in Seq(Event) /\ (overlong \/ Good(s.macro))
    BY <1>2, InvFacts, SignalFacts
  <1>4. \E event \in GKeysEvent :
            /\ Len(event.macro) < MaxSize
            /\ event.type = "macro" <=> event.macro # <<>>
            /\ ~overlong => Playable(event.macro)
            /\ bank' = bank \/ bank' = [bank EXCEPT ![s.key] = event]
    <2>1. MaxSize \in Nat /\ MaxSize > 0
      BY SizesAssumption
    <2>2. CASE s.name = "DeviceMacroRecorded" /\ bank' = SetMacro(s.key, s.macro)
      <3> DEFINE checked == CheckMacro(s.macro)
      <3>1. /\ checked \in Seq(Event) /\ Len(checked) < MaxSize
            /\ ~overlong => Playable(checked)
            /\ bank' = [bank EXCEPT ![s.key] = MacroEvent(checked)]
        BY <1>3, <2>2, SetMacroFacts
      <3> HIDE DEF checked
      <3> QED
        BY <3>1, MacroEventType
    <2>3. CASE bank' = bank \/ bank' = ClearMacro(s.key)
      <3>1. bank' = bank \/ bank' = [bank EXCEPT ![s.key] = MacroEvent(<<>>)]
        BY <2>3 DEF ClearMacro
      <3>2. <<>> \in Seq(Event) /\ Len(<<>>) < MaxSize /\ Playable(<<>>)
        BY <2>1, PlayableEmpty
      <3> QED
        BY <3>1, <3>2, MacroEventType
    <2> QED
      BY <1>2, <2>2, <2>3
  <1>5. /\ bank' \in [GKeyID -> GKeysEvent]
        /\ \A k \in GKeyID : /\ Len(bank'[k].macro) < MaxSize
                             /\ bank'[k].type = "macro" <=> bank'[k].macro # <<>>
        /\ BankIsPlayable'
    BY <1>1, <1>3, <1>4, BankPreserves
  <1>6. held' \in SUBSET Keys /\ (~overlong => held' = {})
    <2>1. held \in SUBSET Keys /\ (~overlong => held = {})
      BY DEF KeysInv, KeysTypeOK, NoKeyStaysDown, Keys
    <2>2. CASE held' = held
      BY <2>1, <2>2
    <2>3. CASE held' = Run(held, bank[s.key].macro)
      <3>1. bank[s.key].macro \in Seq(Event) /\ (~overlong => Playable(bank[s.key].macro))
        BY <1>3, InvFacts
      <3> QED
        BY <2>1, <2>3, <3>1, RunFacts, RunPlayable
    <2> QED
      BY <1>1, <2>2, <2>3 DEF RunEvent
  <1>7. Len(signals') <= MaxSignals
    <2>1. Len(signals) <= MaxSignals
      BY DEF KeysInv, KeysTypeOK
    <2> QED
      BY <1>2, <2>1, InvFacts
  <1>8. KeysTypeOK'
    BY <1>1, <1>5, <1>6, <1>7 DEF KeysInv, KeysTypeOK, TypeOK, Keys
  <1> QED
    BY <1>1, <1>2, <1>5, <1>6, <1>8 DEF KeysInv, SignalsOK, TypedIsChecked, NoKeyStaysDown

LEMMA KeysStep ==
    KeysInv /\ [KeysNext]_keysVars => KeysInv'
  <1> SUFFICES ASSUME KeysInv, [KeysNext]_keysVars PROVE KeysInv'
    OBVIOUS
  <1>1. CASE StartRecord \/ LeaveRecord
    BY <1>1, RecordingPreserves
  <1>2. ASSUME NEW report \in Report, Type(report) PROVE KeysInv'
    BY <1>2, TypePreserves
  <1>3. ASSUME NEW key \in GKeyID, RecordMacro(key) PROVE KeysInv'
    BY <1>3, RecordMacroPreserves
  <1>4. ASSUME NEW key \in GKeyID, PressGKey(key) PROVE KeysInv'
    BY <1>4, PressPreserves
  <1>5. CASE HandleSignal
    BY <1>5, HandlePreserves
  <1>6. ASSUME NEW key \in GKeyID, LoadFile(key) PROVE KeysInv'
    BY <1>6, LoadPreserves
  <1>7. CASE SwitchListening
    BY <1>7 DEF SwitchListening, KeysInv, KeysTypeOK, TypeOK, SignalsOK, TypedIsChecked, BankIsPlayable, NoKeyStaysDown
  <1>8. CASE UNCHANGED keysVars
    BY <1>8 DEF keysVars, serviceVars, KeysInv, KeysTypeOK, TypeOK, SignalsOK, TypedIsChecked, BankIsPlayable, NoKeyStaysDown
  <1> QED
    BY <1>1, <1>2, <1>3, <1>4, <1>5, <1>6, <1>7, <1>8 DEF KeysNext

LEMMA KeysInvariant ==
    KeysSpec => []KeysInv
  BY KeysInitInv, KeysStep, PTL DEF KeysSpec

-----------------------------------------------------------------------------
(* Every variable has its type, and a recorded macro never outgrows        *)
(* MACRO_T_MAX_SIZE: what the bank stores is smaller than that, whatever   *)
(* the daemon sends (KeyboardDriver::fillStandardKeysEvents,               *)
(* GKeysMacro::checkMacro, GKeysEventManager::setMacro).                   *)
THEOREM KeysTypes ==
    KeysSpec => []KeysTypeOK
  BY KeysInvariant, PTL DEF KeysInv

(* GKeysMacro::checkMacro() repairs every macro with fewer presses than    *)
(* half of MACRO_T_MAX_SIZE, however long the recording and whatever       *)
(* reports it missed: it can be played and its presses are those recorded. *)
THEOREM Repair ==
    KeysSpec => []ShortMacrosAreRepaired
  <1>1. KeysInv => ShortMacrosAreRepaired
    BY InvFacts, CheckMacroWorks DEF KeysInv, TypedIsChecked, ShortMacrosAreRepaired, Sent, Macro
  <1> QED
    BY <1>1, KeysInvariant, PTL

(* No key stays down on the virtual keyboard after a G key was handled     *)
(* (MacrosManager::runMacro), as long as no overlong macro was recorded.   *)
THEOREM AllKeysReleased ==
    KeysSpec => []NoKeyStaysDown
  BY KeysInvariant, PTL DEF KeysInv

(* The service checks what the daemon has checked and changes nothing in   *)
(* it: GKeysEventManager::setMacro() stores the macro that was sent.       *)
THEOREM CheckedOnce ==
    KeysSpec => StoredAsSent
  <1> DEFINE A == \A key \in GKeyID :
                     ~overlong /\ bank'[key] # bank[key] /\ bank'[key].type = "macro"
                         => bank'[key].macro = Head(signals).macro
  <1>1. KeysInv /\ [KeysNext]_keysVars => [A]_keysVars
    <2> SUFFICES ASSUME KeysInv, KeysNext, NEW key \in GKeyID,
                        ~overlong, bank'[key] # bank[key], bank'[key].type = "macro"
                 PROVE  bank'[key].macro = Head(signals).macro
      OBVIOUS
    <2>0. bank \in [GKeyID -> GKeysEvent] /\ MacroEvent(<<>>).type = "inactive" /\ RunCommand.type = "runcmd"
      BY DEF KeysInv, KeysTypeOK, MacroEvent, RunCommand
    <2>1. CASE HandleSignal
      <3> DEFINE s == Head(signals)
      <3>1. /\ \/ bank' = bank
               \/ s.name = "DeviceMacroRecorded" /\ bank' = SetMacro(s.key, s.macro)
               \/ s.name = "DeviceMacroCleared" /\ bank' = ClearMacro(s.key)
            /\ s \in Signal(overlong)
        BY <2>1, SignalOnBank
      <3> HIDE DEF s
      <3>2. /\ s.key \in GKeyID
            /\ s.name = "DeviceMacroRecorded" => s.macro \in Seq(Event) /\ (overlong \/ Good(s.macro))
        BY <3>1, InvFacts, SignalFacts
      <3>3. bank' # ClearMacro(s.key)
        BY <2>0, <3>2 DEF ClearMacro
      <3>4. bank' = SetMacro(s.key, s.macro) /\ s.macro \in Seq(Event) /\ Good(s.macro)
        BY <3>1, <3>2, <3>3
      <3>5. bank' = [bank EXCEPT ![s.key] = MacroEvent(s.macro)]
        BY <3>2, <3>4, SetMacroFacts
      <3>6. MacroEvent(s.macro).macro = s.macro
        BY DEF MacroEvent
      <3>7. bank'[key] = MacroEvent(s.macro)
        BY <2>0, <3>2, <3>5
      <3> QED
        BY <3>6, <3>7 DEF s
    <2>2. ASSUME NEW k \in GKeyID, LoadFile(k) PROVE FALSE
      BY <2>0, <2>2 DEF LoadFile
    <2>3. CASE bank' = bank
      BY <2>3
    <2>4. HandleSignal \/ (\E k \in GKeyID : LoadFile(k)) \/ bank' = bank
      BY DEF KeysNext, StartRecord, Type, LeaveRecord, RecordMacro, PressGKey, SwitchListening, serviceVars
    <2> QED
      BY <2>1, <2>2, <2>3, <2>4
  <1> QED
    BY <1>1, KeysInvariant, PTL DEF KeysSpec, StoredAsSent
=============================================================================
