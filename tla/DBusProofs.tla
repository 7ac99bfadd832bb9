----------------------------- MODULE DBusProofs -----------------------------
(***************************************************************************)
(* Proofs about a program on the bus, for all numbers of messages and any  *)
(* values the programs send:                                               *)
(*                                                                         *)
(*   - what is written to a message is read back, for the strings, arrays  *)
(*     and structures of every length and all the signatures;              *)
(*   - so calls and replies arrive, and exceptions are reported, through   *)
(*     all steps of both programs, and so do signals as long as one thread *)
(*     of the daemon broadcasts them (MCSignalsInterfere.cfg shows what    *)
(*     two of them do);                                                    *)
(*   - the registry of a program, the match rules on the bus and the       *)
(*     introspection agree, for any finite set of methods and signals.     *)
(*                                                                         *)
(* Loops are recursive functions, and the induction on their steps is a    *)
(* lemma about a set of numbers.                                           *)
(***************************************************************************)
EXTENDS DBusProgram, FiniteSetTheorems, SequenceTheorems, WellFoundedInduction, TLAPS

(* The least number of a set: the library's induction has no operator to   *)
(* be instantiated here.                                                   *)
LEMMA Least ==
    ASSUME NEW S \in SUBSET Nat, S # {}
    PROVE  \E n \in S : \A m \in S : n <= m
  <1>1. PICK n \in S : \A m \in S : ~(<<m, n>> \in OpToRel(<, Nat))
    BY NatLessThanWellFounded, WFMin
  <1>2. \A m \in S : ~(m < n)
    BY <1>1 DEF OpToRel
  <1> QED
    BY <1>2

(* Induction up to a limit, over the set of numbers of which a fact holds. *)
LEMMA Induction ==
    ASSUME NEW n \in Nat, NEW P, 0 \in P, \A i \in 1 .. n : i - 1 \in P => i \in P
    PROVE  \A i \in 0 .. n : i \in P
  <1> DEFINE F == {i \in 0 .. n : i \notin P}
  <1> SUFFICES ASSUME F # {} PROVE FALSE
    OBVIOUS
  <1>0. F \in SUBSET Nat
    OBVIOUS
  <1>1. PICK i \in F : \A j \in F : i <= j
    BY <1>0, Least
  <1>2. i \in 1 .. n /\ i - 1 \in 0 .. n /\ i - 1 \notin F
    BY <1>1
  <1> QED
    BY <1>1, <1>2

(* Two loops with the same steps do the same.                              *)
SameSteps(f, g, n) ==
  f[0] = g[0] /\ \A i \in 1 .. n : f[i - 1] = g[i - 1] => f[i] = g[i]

LEMMA SameLoop ==
    ASSUME NEW n \in Nat, NEW f, NEW g, SameSteps(f, g, n)
    PROVE  \A i \in 0 .. n : f[i] = g[i]
  <1> DEFINE P == {i \in 0 .. n : f[i] = g[i]}
  <1>1. 0 \in P /\ \A i \in 1 .. n : i - 1 \in P => i \in P
    BY DEF SameSteps
  <1> HIDE DEF P
  <1>2. \A i \in 0 .. n : i \in P
    BY <1>1, Induction
  <1> QED
    BY <1>2 DEF P

-----------------------------------------------------------------------------
(* One value after the other.                                              *)

(* What InTurn() does with the next value.                                 *)
Added(got, next) ==
  IF got = Failure \/ next = Failure THEN Failure ELSE Got(Append(got.value, next.value), next.rest)

Prefix(values, i) == [j \in 1 .. i |-> values[j]]

LEMMA PrefixType ==
    ASSUME NEW n \in Nat, NEW values
    PROVE  Prefix(values, n) \in Seq({values[j] : j \in 1 .. n}) /\ Len(Prefix(values, n)) = n
  <1> DEFINE S == {values[j] : j \in 1 .. n}
  <1>1. Prefix(values, n) \in [1 .. n -> S]
    BY DEF Prefix
  <1> HIDE DEF S
  <1>2. Prefix(values, n) \in Seq(S)
    BY <1>1, SeqDef
  <1> QED
    BY <1>1, <1>2, LenProperties DEF S

LEMMA PrefixAppend ==
    ASSUME NEW n \in Nat, NEW i \in 1 .. n, NEW values
    PROVE  Append(Prefix(values, i - 1), values[i]) = Prefix(values, i)
  <1> DEFINE S == {values[j] : j \in 1 .. n}
             s == Prefix(values, i - 1)
  <1>1. s \in Seq(S) /\ Len(s) = i - 1 /\ values[i] \in S
    <2>1. s \in [1 .. i - 1 -> S] /\ i - 1 \in Nat
      BY DEF Prefix
    <2> QED
      BY <2>1, SeqDef, LenProperties
  <1> HIDE DEF S, s
  <1>2. /\ Append(s, values[i]) \in Seq(S) /\ Len(Append(s, values[i])) = i
        /\ \A j \in 1 .. i - 1 : Append(s, values[i])[j] = s[j]
        /\ Append(s, values[i])[i] = values[i]
    BY <1>1, AppendProperties
  <1>3. \A j \in 1 .. i - 1 : s[j] = values[j]
    BY DEF s, Prefix
  <1>4. Append(s, values[i]) = [j \in 1 .. i |-> Append(s, values[i])[j]]
    BY <1>2, LenProperties
  <1>5. \A j \in 1 .. i : Append(s, values[i])[j] = values[j]
    BY <1>2, <1>3
  <1> QED
    BY <1>4, <1>5 DEF s, Prefix

LEMMA AddedGot ==
    ASSUME NEW n \in Nat, NEW i \in 1 .. n, NEW values, NEW rest, NEW left
    PROVE  Added(Got(Prefix(values, i - 1), left), Got(values[i], rest)) = Got(Prefix(values, i), rest)
  <1>1. Append(Prefix(values, i - 1), values[i]) = Prefix(values, i)
    BY PrefixAppend
  <1>2. \A v, r : Got(v, r) # Failure /\ Got(v, r).value = v /\ Got(v, r).rest = r
    BY DEF Got, Failure
  <1> QED
    BY <1>1, <1>2 DEF Added

LEMMA FieldsInTurn ==
    ASSUME NEW types, NEW n \in Nat, NEW values, NEW rest, Len(types) = n,
           \A i \in 1 .. n : NextSimple(types[i], rest[i - 1]) = Got(values[i], rest[i])
    PROVE  NextFields(types, rest[0]) = Got(Prefix(values, n), rest[n])
  <1> DEFINE args == rest[0]
             ReadOne(i, left) == NextSimple(types[i], left)
             Raw(f) ==
               [i \in 0 .. n |->
                  IF i = 0 THEN Got(<<>>, args)
                  ELSE Once(LAMBDA got : IF got = Failure THEN Failure
                                         ELSE Once(LAMBDA next : IF next = Failure THEN Failure
                                                     ELSE Got(Append(got.value, next.value), next.rest),
                                                   ReadOne(i, got.rest)),
                            f[i - 1])]
             Turn(f) ==
               [i \in 0 .. n |->
                  IF i = 0 THEN Got(<<>>, args) ELSE Added(f[i - 1], ReadOne(i, f[i - 1].rest))]
             after == CHOOSE f : f = Raw(f)
             got == [i \in 0 .. n |-> Got(Prefix(values, i), rest[i])]
  <1>1. NextFields(types, args) = after[n]
    BY DEF NextFields, InTurn
  <1>2. ASSUME NEW f PROVE Raw(f) = Turn(f)
    BY DEF Added, Once
  <1>3. ASSUME NEW i \in 1 .. n PROVE got[i] = Added(got[i - 1], ReadOne(i, got[i - 1].rest))
    <2>1. got[i - 1] = Got(Prefix(values, i - 1), rest[i - 1]) /\ got[i] = Got(Prefix(values, i), rest[i])
      OBVIOUS
    <2>2. got[i - 1].rest = rest[i - 1]
      BY <2>1 DEF Got
    <2>3. ReadOne(i, rest[i - 1]) = Got(values[i], rest[i])
      OBVIOUS
    <2>4. Added(Got(Prefix(values, i - 1), rest[i - 1]), Got(values[i], rest[i])) = Got(Prefix(values, i), rest[i])
      BY AddedGot
    <2> HIDE DEF ReadOne, got
    <2> QED
      BY <2>1, <2>2, <2>3, <2>4
  <1>4. got[0] = Got(<<>>, args)
    BY DEF Prefix
  <1> HIDE DEF Raw, ReadOne
  <1>5. got = Raw(got)
    <2>1. \A i \in 0 .. n :
            got[i] = IF i = 0 THEN Got(<<>>, args) ELSE Added(got[i - 1], ReadOne(i, got[i - 1].rest))
      <3>1. ASSUME NEW i \in 0 .. n, i # 0 PROVE i \in 1 .. n
        BY <3>1
      <3> QED
        BY <1>3, <1>4, <3>1
    <2>2. got = [i \in 0 .. n |-> got[i]]
      OBVIOUS
    <2> HIDE DEF got
    <2>3. got = Turn(got)
      BY <2>1, <2>2
    <2> QED
      BY <1>2, <2>3
  <1>6. after = Raw(after)
    BY <1>5
  <1> HIDE DEF after, got
  <1>7. /\ after[0] = Got(<<>>, args)
        /\ \A i \in 1 .. n : after[i] = Added(after[i - 1], ReadOne(i, after[i - 1].rest))
    <2>1. after = Turn(after)
      BY <1>2, <1>6
    <2> QED
      BY <2>1
  <1>8. \A i \in 0 .. n : after[i] = got[i]
    <2>1. after[0] = got[0]
      BY <1>4, <1>7
    <2>2. \A i \in 1 .. n : after[i - 1] = got[i - 1] => after[i] = got[i]
      BY <1>3, <1>7
    <2>3. SameSteps(after, got, n)
      BY <2>1, <2>2 DEF SameSteps
    <2> QED
      BY ONLY n \in Nat, <2>3, SameLoop
  <1> QED
    BY <1>1, <1>8 DEF got

LEMMA StructsInTurn ==
    ASSUME NEW fields, NEW n \in Nat, NEW values, NEW rest,
           \A i \in 1 .. n : NextFields(fields, rest[i - 1]) = Got(values[i], rest[i])
    PROVE  NextStructs(fields, n, rest[0]) = Got(Prefix(values, n), rest[n])
  <1> DEFINE args == rest[0]
             ReadOne(i, left) == NextFields(fields, left)
             Raw(f) ==
               [i \in 0 .. n |->
                  IF i = 0 THEN Got(<<>>, args)
                  ELSE Once(LAMBDA got : IF got = Failure THEN Failure
                                         ELSE Once(LAMBDA next : IF next = Failure THEN Failure
                                                     ELSE Got(Append(got.value, next.value), next.rest),
                                                   ReadOne(i, got.rest)),
                            f[i - 1])]
             Turn(f) ==
               [i \in 0 .. n |->
                  IF i = 0 THEN Got(<<>>, args) ELSE Added(f[i - 1], ReadOne(i, f[i - 1].rest))]
             after == CHOOSE f : f = Raw(f)
             got == [i \in 0 .. n |-> Got(Prefix(values, i), rest[i])]
  <1>1. NextStructs(fields, n, args) = after[n]
    BY DEF NextStructs, InTurn
  <1>2. ASSUME NEW f PROVE Raw(f) = Turn(f)
    BY DEF Added, Once
  <1>3. ASSUME NEW i \in 1 .. n PROVE got[i] = Added(got[i - 1], ReadOne(i, got[i - 1].rest))
    <2>1. got[i - 1] = Got(Prefix(values, i - 1), rest[i - 1]) /\ got[i] = Got(Prefix(values, i), rest[i])
      OBVIOUS
    <2>2. got[i - 1].rest = rest[i - 1]
      BY <2>1 DEF Got
    <2>3. ReadOne(i, rest[i - 1]) = Got(values[i], rest[i])
      OBVIOUS
    <2>4. Added(Got(Prefix(values, i - 1), rest[i - 1]), Got(values[i], rest[i])) = Got(Prefix(values, i), rest[i])
      BY AddedGot
    <2> HIDE DEF ReadOne, got
    <2> QED
      BY <2>1, <2>2, <2>3, <2>4
  <1>4. got[0] = Got(<<>>, args)
    BY DEF Prefix
  <1> HIDE DEF Raw, ReadOne
  <1>5. got = Raw(got)
    <2>1. \A i \in 0 .. n :
            got[i] = IF i = 0 THEN Got(<<>>, args) ELSE Added(got[i - 1], ReadOne(i, got[i - 1].rest))
      <3>1. ASSUME NEW i \in 0 .. n, i # 0 PROVE i \in 1 .. n
        BY <3>1
      <3> QED
        BY <1>3, <1>4, <3>1
    <2>2. got = [i \in 0 .. n |-> got[i]]
      OBVIOUS
    <2> HIDE DEF got
    <2>3. got = Turn(got)
      BY <2>1, <2>2
    <2> QED
      BY <1>2, <2>3
  <1>6. after = Raw(after)
    BY <1>5
  <1> HIDE DEF after, got
  <1>7. /\ after[0] = Got(<<>>, args)
        /\ \A i \in 1 .. n : after[i] = Added(after[i - 1], ReadOne(i, after[i - 1].rest))
    <2>1. after = Turn(after)
      BY <1>2, <1>6
    <2> QED
      BY <2>1
  <1>8. \A i \in 0 .. n : after[i] = got[i]
    <2>1. after[0] = got[0]
      BY <1>4, <1>7
    <2>2. \A i \in 1 .. n : after[i - 1] = got[i - 1] => after[i] = got[i]
      BY <1>3, <1>7
    <2>3. SameSteps(after, got, n)
      BY <2>1, <2>2 DEF SameSteps
    <2> QED
      BY ONLY n \in Nat, <2>3, SameLoop
  <1> QED
    BY <1>1, <1>8 DEF got

LEMMA BinariesInTurn ==
    ASSUME NEW n \in Nat, NEW values, NEW rest,
           \A i \in 1 .. n : NextGKBinaryDeps(rest[i - 1]) = Got(values[i], rest[i])
    PROVE  NextGKBinaries(n, rest[0]) = Got(Prefix(values, n), rest[n])
  <1> DEFINE args == rest[0]
             ReadOne(i, left) == NextGKBinaryDeps(left)
             Raw(f) ==
               [i \in 0 .. n |->
                  IF i = 0 THEN Got(<<>>, args)
                  ELSE Once(LAMBDA got : IF got = Failure THEN Failure
                                         ELSE Once(LAMBDA next : IF next = Failure THEN Failure
                                                     ELSE Got(Append(got.value, next.value), next.rest),
                                                   ReadOne(i, got.rest)),
                            f[i - 1])]
             Turn(f) ==
               [i \in 0 .. n |->
                  IF i = 0 THEN Got(<<>>, args) ELSE Added(f[i - 1], ReadOne(i, f[i - 1].rest))]
             after == CHOOSE f : f = Raw(f)
             got == [i \in 0 .. n |-> Got(Prefix(values, i), rest[i])]
  <1>1. NextGKBinaries(n, args) = after[n]
    BY DEF NextGKBinaries, InTurn
  <1>2. ASSUME NEW f PROVE Raw(f) = Turn(f)
    BY DEF Added, Once
  <1>3. ASSUME NEW i \in 1 .. n PROVE got[i] = Added(got[i - 1], ReadOne(i, got[i - 1].rest))
    <2>1. got[i - 1] = Got(Prefix(values, i - 1), rest[i - 1]) /\ got[i] = Got(Prefix(values, i), rest[i])
      OBVIOUS
    <2>2. got[i - 1].rest = rest[i - 1]
      BY <2>1 DEF Got
    <2>3. ReadOne(i, rest[i - 1]) = Got(values[i], rest[i])
      OBVIOUS
    <2>4. Added(Got(Prefix(values, i - 1), rest[i - 1]), Got(values[i], rest[i])) = Got(Prefix(values, i), rest[i])
      BY AddedGot
    <2> HIDE DEF ReadOne, got
    <2> QED
      BY <2>1, <2>2, <2>3, <2>4
  <1>4. got[0] = Got(<<>>, args)
    BY DEF Prefix
  <1> HIDE DEF Raw, ReadOne
  <1>5. got = Raw(got)
    <2>1. \A i \in 0 .. n :
            got[i] = IF i = 0 THEN Got(<<>>, args) ELSE Added(got[i - 1], ReadOne(i, got[i - 1].rest))
      <3>1. ASSUME NEW i \in 0 .. n, i # 0 PROVE i \in 1 .. n
        BY <3>1
      <3> QED
        BY <1>3, <1>4, <3>1
    <2>2. got = [i \in 0 .. n |-> got[i]]
      OBVIOUS
    <2> HIDE DEF got
    <2>3. got = Turn(got)
      BY <2>1, <2>2
    <2> QED
      BY <1>2, <2>3
  <1>6. after = Raw(after)
    BY <1>5
  <1> HIDE DEF after, got
  <1>7. /\ after[0] = Got(<<>>, args)
        /\ \A i \in 1 .. n : after[i] = Added(after[i - 1], ReadOne(i, after[i - 1].rest))
    <2>1. after = Turn(after)
      BY <1>2, <1>6
    <2> QED
      BY <2>1
  <1>8. \A i \in 0 .. n : after[i] = got[i]
    <2>1. after[0] = got[0]
      BY <1>4, <1>7
    <2>2. \A i \in 1 .. n : after[i - 1] = got[i - 1] => after[i] = got[i]
      BY <1>3, <1>7
    <2>3. SameSteps(after, got, n)
      BY <2>1, <2>2 DEF SameSteps
    <2> QED
      BY ONLY n \in Nat, <2>3, SameLoop
  <1> QED
    BY <1>1, <1>8 DEF got

LEMMA ArgumentsInTurn ==
    ASSUME NEW types, NEW n \in Nat, NEW values, NEW rest, Len(types) = n,
           \A i \in 1 .. n : NextArgument(types[i], rest[i - 1]) = Got(values[i], rest[i])
    PROVE  NextArguments(types, rest[0]) = Got(Prefix(values, n), rest[n])
  <1> DEFINE args == rest[0]
             ReadOne(i, left) == NextArgument(types[i], left)
             Raw(f) ==
               [i \in 0 .. n |->
                  IF i = 0 THEN Got(<<>>, args)
                  ELSE Once(LAMBDA got : IF got = Failure THEN Failure
                                         ELSE Once(LAMBDA next : IF next = Failure THEN Failure
                                                     ELSE Got(Append(got.value, next.value), next.rest),
                                                   ReadOne(i, got.rest)),
                            f[i - 1])]
             Turn(f) ==
               [i \in 0 .. n |->
                  IF i = 0 THEN Got(<<>>, args) ELSE Added(f[i - 1], ReadOne(i, f[i - 1].rest))]
             after == CHOOSE f : f = Raw(f)
             got == [i \in 0 .. n |-> Got(Prefix(values, i), rest[i])]
  <1>1. NextArguments(types, args) = after[n]
    BY DEF NextArguments, InTurn
  <1>2. ASSUME NEW f PROVE Raw(f) = Turn(f)
    BY DEF Added, Once
  <1>3. ASSUME NEW i \in 1 .. n PROVE got[i] = Added(got[i - 1], ReadOne(i, got[i - 1].rest))
    <2>1. got[i - 1] = Got(Prefix(values, i - 1), rest[i - 1]) /\ got[i] = Got(Prefix(values, i), rest[i])
      OBVIOUS
    <2>2. got[i - 1].rest = rest[i - 1]
      BY <2>1 DEF Got
    <2>3. ReadOne(i, rest[i - 1]) = Got(values[i], rest[i])
      OBVIOUS
    <2>4. Added(Got(Prefix(values, i - 1), rest[i - 1]), Got(values[i], rest[i])) = Got(Prefix(values, i), rest[i])
      BY AddedGot
    <2> HIDE DEF ReadOne, got
    <2> QED
      BY <2>1, <2>2, <2>3, <2>4
  <1>4. got[0] = Got(<<>>, args)
    BY DEF Prefix
  <1> HIDE DEF Raw, ReadOne
  <1>5. got = Raw(got)
    <2>1. \A i \in 0 .. n :
            got[i] = IF i = 0 THEN Got(<<>>, args) ELSE Added(got[i - 1], ReadOne(i, got[i - 1].rest))
      <3>1. ASSUME NEW i \in 0 .. n, i # 0 PROVE i \in 1 .. n
        BY <3>1
      <3> QED
        BY <1>3, <1>4, <3>1
    <2>2. got = [i \in 0 .. n |-> got[i]]
      OBVIOUS
    <2> HIDE DEF got
    <2>3. got = Turn(got)
      BY <2>1, <2>2
    <2> QED
      BY <1>2, <2>3
  <1>6. after = Raw(after)
    BY <1>5
  <1> HIDE DEF after, got
  <1>7. /\ after[0] = Got(<<>>, args)
        /\ \A i \in 1 .. n : after[i] = Added(after[i - 1], ReadOne(i, after[i - 1].rest))
    <2>1. after = Turn(after)
      BY <1>2, <1>6
    <2> QED
      BY <2>1
  <1>8. \A i \in 0 .. n : after[i] = got[i]
    <2>1. after[0] = got[0]
      BY <1>4, <1>7
    <2>2. \A i \in 1 .. n : after[i - 1] = got[i - 1] => after[i] = got[i]
      BY <1>3, <1>7
    <2>3. SameSteps(after, got, n)
      BY <2>1, <2>2 DEF SameSteps
    <2> QED
      BY ONLY n \in Nat, <2>3, SameLoop
  <1> QED
    BY <1>1, <1>8 DEF got


-----------------------------------------------------------------------------
(* Sequences of sequences.                                                 *)

(* A loop of n steps is a function of the steps done.                      *)
IsLoop(f, n, base, step) == f[0] = base /\ \A i \in 1 .. n : f[i] = step[<<f[i - 1], i>>]

LEMMA Loop ==
    ASSUME NEW n \in Nat, NEW X, NEW base \in X, NEW step \in [X \X (1 .. n) -> X]
    PROVE  \E f \in [0 .. n -> X] : IsLoop(f, n, base, step)
  <1> DEFINE P == {k \in 0 .. n : \E f \in [0 .. k -> X] : IsLoop(f, k, base, step)}
  <1> USE DEF IsLoop
  <1>1. 0 \in P
    <2> DEFINE g == [i \in 0 .. 0 |-> base]
    <2>1. g \in [0 .. 0 -> X] /\ IsLoop(g, 0, base, step)
      OBVIOUS
    <2> HIDE DEF g
    <2> QED
      BY <2>1
  <1>2. \A k \in 1 .. n : k - 1 \in P => k \in P
    <2> SUFFICES ASSUME NEW k \in 1 .. n, k - 1 \in P PROVE k \in P
      OBVIOUS
    <2>1. PICK f \in [0 .. k - 1 -> X] : IsLoop(f, k - 1, base, step)
      OBVIOUS
    <2> DEFINE g == [i \in 0 .. k |-> IF i = k THEN step[<<f[k - 1], k>>] ELSE f[i]]
    <2>2. step[<<f[k - 1], k>>] \in X
      OBVIOUS
    <2>3. g \in [0 .. k -> X]
      BY <2>2
    <2>4. g[0] = base
      BY <2>1
    <2>5. \A i \in 1 .. k : g[i] = step[<<g[i - 1], i>>]
      <3> SUFFICES ASSUME NEW i \in 1 .. k PROVE g[i] = step[<<g[i - 1], i>>]
        OBVIOUS
      <3>1. g[i - 1] = f[i - 1]
        OBVIOUS
      <3>2. CASE i = k
        <4>1. g[k] = step[<<f[k - 1], k>>]
          OBVIOUS
        <4> QED
          BY <3>1, <3>2, <4>1
      <3>3. CASE i # k
        BY <2>1, <3>1, <3>3
      <3> QED
        BY <3>2, <3>3
    <2> HIDE DEF g
    <2> QED
      BY <2>3, <2>4, <2>5
  <1> HIDE DEF P
  <1>3. n \in P
    BY <1>1, <1>2, Induction
  <1> QED
    BY <1>3 DEF P

(* The first i sequences of seqs are concatenated in flat[i].              *)
Flattens(flat, n, seqs) ==
  /\ flat[0] = <<>> /\ flat[n] = FlattenSeq(seqs)
  /\ \A i \in 1 .. n : flat[i] = flat[i - 1] \o seqs[i]

LEMMA FlattenLoop ==
    ASSUME NEW S, NEW seqs \in Seq(Seq(S))
    PROVE  \E flat \in [0 .. Len(seqs) -> Seq(S)] : Flattens(flat, Len(seqs), seqs)
  <1> DEFINE n == Len(seqs)
             Def(f) == [i \in 1 .. n |-> IF i = 1 THEN seqs[i] ELSE f[i - 1] \o seqs[i]]
             flatten == CHOOSE f : f = Def(f)
             step == [x \in Seq(S) \X (1 .. n) |-> x[1] \o seqs[x[2]]]
  <1>1. n \in Nat /\ \A i \in 1 .. n : seqs[i] \in Seq(S)
    BY LenProperties
  <1>2. <<>> \in Seq(S)
    BY EmptySeq
  <1>3. step \in [Seq(S) \X (1 .. n) -> Seq(S)]
    <2>1. \A x \in Seq(S) \X (1 .. n) : step[x] \in Seq(S)
      BY <1>1, ConcatProperties
    <2> QED
      BY <2>1
  <1> HIDE DEF n, step
  <1>4. PICK f \in [0 .. n -> Seq(S)] : IsLoop(f, n, <<>>, step)
    BY <1>1, <1>2, <1>3, Loop
  <1>5. f[0] = <<>> /\ \A i \in 1 .. n : f[i] = f[i - 1] \o seqs[i]
    <2>1. ASSUME NEW i \in 1 .. n PROVE f[i] = f[i - 1] \o seqs[i]
      <3>1. f[i] = step[<<f[i - 1], i>>] /\ f[i - 1] \in Seq(S)
        BY <1>1, <1>4 DEF IsLoop
      <3>2. <<f[i - 1], i>> \in Seq(S) \X (1 .. n)
        BY <3>1
      <3> QED
        BY <3>1, <3>2 DEF step
    <2> QED
      BY <1>4, <2>1 DEF IsLoop
  <1>6. f[n] = FlattenSeq(seqs)
    <2>1. CASE n = 0
      <3>1. seqs = <<>>
        BY <2>1, EmptySeq DEF n
      <3> QED
        BY <1>5, <2>1, <3>1 DEF FlattenSeq, n
    <2>2. CASE n # 0
      <3>1. FlattenSeq(seqs) = flatten[n]
        BY <2>2 DEF FlattenSeq, n
      <3> DEFINE g == [i \in 1 .. n |-> f[i]]
      <3>2. g = Def(g)
        <4> SUFFICES ASSUME NEW i \in 1 .. n
                     PROVE  g[i] = IF i = 1 THEN seqs[i] ELSE g[i - 1] \o seqs[i]
          OBVIOUS
        <4>1. CASE i = 1
          <5>1. g[1] = <<>> \o seqs[1]
            <6>1. 1 \in 1 .. n /\ 1 - 1 = 0
              BY <4>1
            <6>2. f[1] = f[1 - 1] \o seqs[1] /\ g[1] = f[1]
              BY <1>5, <6>1
            <6> QED
              BY <1>5, <6>1, <6>2
          <5> QED
            BY <1>1, <4>1, <5>1, ConcatEmptySeq
        <4>2. CASE i # 1
          <5>1. i - 1 \in 1 .. n
            BY <1>1, <4>2
          <5> QED
            BY <1>5, <4>2, <5>1
        <4> QED
          BY <4>1, <4>2
      <3> HIDE DEF g
      <3>3. flatten = Def(flatten)
        BY <3>2
      <3> HIDE DEF flatten
      <3> DEFINE h == [i \in 0 .. n |-> IF i = 0 THEN <<>> ELSE flatten[i]]
      <3>4. \A i \in 1 .. n : flatten[i] = IF i = 1 THEN seqs[i] ELSE flatten[i - 1] \o seqs[i]
        BY <3>3
      <3>5. ASSUME NEW i \in 1 .. n, f[i - 1] = h[i - 1] PROVE f[i] = h[i]
        <4>1. h[i] = flatten[i]
          BY <1>1
        <4>2. CASE i = 1
          <5>1. f[1] = <<>> \o seqs[1]
            <6>1. 1 \in 1 .. n /\ 1 - 1 = 0
              BY <4>2
            <6>2. f[1] = f[1 - 1] \o seqs[1]
              BY <1>5, <6>1
            <6> QED
              BY <1>5, <6>1, <6>2
          <5>2. f[1] = seqs[1]
            BY <1>1, <4>2, <5>1, ConcatEmptySeq
          <5> QED
            BY <3>4, <4>1, <4>2, <5>2
        <4>3. CASE i # 1
          <5>1. h[i - 1] = flatten[i - 1]
            BY <1>1, <4>3
          <5>2. flatten[i] = flatten[i - 1] \o seqs[i]
            BY <3>4, <4>3
          <5> HIDE DEF h
          <5> QED
            BY <1>5, <3>5, <4>1, <5>1, <5>2
        <4> QED
          BY <4>2, <4>3
      <3>6. f[0] = h[0]
        BY <1>1, <1>5
      <3>7. h[n] = flatten[n]
        BY <1>1, <2>2
      <3> HIDE DEF h
      <3>8. \A i \in 1 .. n : f[i - 1] = h[i - 1] => f[i] = h[i]
        BY <3>5
      <3>same. SameSteps(f, h, n)
        BY <3>6, <3>8 DEF SameSteps
      <3>9. \A i \in 0 .. n : f[i] = h[i]
        BY ONLY <1>1, <3>same, SameLoop
      <3> QED
        BY <1>1, <3>1, <3>7, <3>9
    <2> QED
      BY <2>1, <2>2
  <1> QED
    BY <1>5, <1>6 DEF Flattens, n

LEMMA FlattenType ==
    ASSUME NEW S, NEW seqs \in Seq(Seq(S))
    PROVE  FlattenSeq(seqs) \in Seq(S)
  <1>1. PICK flat \in [0 .. Len(seqs) -> Seq(S)] : Flattens(flat, Len(seqs), seqs)
    BY FlattenLoop
  <1> QED
    BY <1>1, LenProperties DEF Flattens

Associates(x, y, z) == (x \o y) \o z = x \o (y \o z)

LEMMA ConcatAssociates ==
    ASSUME NEW S, NEW x \in Seq(S), NEW y \in Seq(S), NEW z \in Seq(S)
    PROVE  Associates(x, y, z)
  BY ConcatAssociative DEF Associates

LEMMA FlattenConcat ==
    ASSUME NEW S, NEW a \in Seq(Seq(S)), NEW b \in Seq(Seq(S))
    PROVE  FlattenSeq(a \o b) = FlattenSeq(a) \o FlattenSeq(b)
  <1> DEFINE m == Len(a)
             n == Len(b)
             c == a \o b
  <1>1. /\ c \in Seq(Seq(S)) /\ Len(c) = m + n /\ m \in Nat /\ n \in Nat
        /\ \A i \in 1 .. m : c[i] = a[i]
        /\ \A i \in 1 .. n : c[m + i] = b[i]
        /\ \A i \in 1 .. n : b[i] \in Seq(S)
    <2>1. \A i \in 1 .. m + n : c[i] = IF i <= m THEN a[i] ELSE b[i - m]
      BY ConcatProperties
    <2>2. m \in Nat /\ n \in Nat
      BY LenProperties
    <2>3. \A i \in 1 .. n : m + i \in 1 .. m + n /\ ~(m + i <= m) /\ (m + i) - m = i
      BY <2>2
    <2>4. \A i \in 1 .. m : i \in 1 .. m + n /\ i <= m
      BY <2>2
    <2>5. c \in Seq(Seq(S)) /\ Len(c) = m + n
      BY ConcatProperties
    <2> HIDE DEF c, m, n
    <2>6. \A i \in 1 .. n : c[m + i] = b[i]
      BY <2>1, <2>3
    <2>7. \A i \in 1 .. m : c[i] = a[i]
      BY <2>1, <2>4
    <2> QED
      BY <2>2, <2>5, <2>6, <2>7, LenProperties DEF n
  <1> HIDE DEF m, n, c
  <1>2. PICK fa : fa \in [0 .. m -> Seq(S)] /\ Flattens(fa, m, a)
    BY FlattenLoop DEF m
  <1>3. PICK fb : fb \in [0 .. n -> Seq(S)] /\ Flattens(fb, n, b)
    BY FlattenLoop DEF n
  <1>4. PICK fc : fc \in [0 .. m + n -> Seq(S)] /\ Flattens(fc, m + n, c)
    BY <1>1, FlattenLoop
  <1>5. fc[m] = fa[m]
    <2>1. fc[0] = fa[0]
      BY <1>2, <1>4 DEF Flattens
    <2>2. ASSUME NEW i \in 1 .. m, fc[i - 1] = fa[i - 1] PROVE fc[i] = fa[i]
      <3>1. i \in 1 .. m + n
        BY <1>1
      <3>2. fc[i] = fc[i - 1] \o c[i] /\ fa[i] = fa[i - 1] \o a[i] /\ c[i] = a[i]
        BY <1>1, <1>2, <1>4, <3>1 DEF Flattens
      <3> QED
        BY <2>2, <3>2
    <2>3. \A i \in 1 .. m : fc[i - 1] = fa[i - 1] => fc[i] = fa[i]
      BY <2>2
    <2>0. m \in Nat
      BY <1>1
    <2>same. SameSteps(fc, fa, m)
      BY <2>1, <2>3 DEF SameSteps
    <2>4. \A i \in 0 .. m : fc[i] = fa[i]
      BY ONLY <2>0, <2>same, SameLoop
    <2> QED
      BY <1>1, <2>4
  <1> DEFINE f == [i \in 0 .. n |-> fc[m + i]]
             g == [i \in 0 .. n |-> fa[m] \o fb[i]]
  <1>6. fa[m] \in Seq(S) /\ \A i \in 0 .. n : fb[i] \in Seq(S)
    <2>1. fa \in [0 .. m -> Seq(S)] /\ fb \in [0 .. n -> Seq(S)]
      BY <1>2, <1>3
    <2>2. m \in 0 .. m
      BY <1>1
    <2> QED
      BY <2>1, <2>2
  <1>7. f[0] = g[0]
    <2>1. f[0] = fc[m]
      BY <1>1
    <2>2. g[0] = fa[m] \o fb[0] /\ fb[0] = <<>>
      <3>1. 0 \in 0 .. n
        BY <1>1
      <3> QED
        BY <1>3, <3>1 DEF Flattens
    <2> QED
      BY <1>5, <1>6, <2>1, <2>2, ConcatEmptySeq
  <1>8. ASSUME NEW i \in 1 .. n, f[i - 1] = g[i - 1] PROVE f[i] = g[i]
    <2>1. m + i \in 1 .. m + n /\ (m + i) - 1 = m + (i - 1) /\ i - 1 \in 0 .. n /\ i \in 0 .. n
      BY <1>1
    <2>2. fc[m + i] = fc[m + (i - 1)] \o c[m + i]
      BY <1>4, <2>1 DEF Flattens
    <2>3. fb[i] = fb[i - 1] \o b[i] /\ c[m + i] = b[i]
      BY <1>1, <1>3 DEF Flattens
    <2>4. f[i] = fc[m + i] /\ f[i - 1] = fc[m + (i - 1)]
      BY <2>1
    <2>5. g[i] = fa[m] \o fb[i] /\ g[i - 1] = fa[m] \o fb[i - 1]
      BY <2>1
    <2>6. fb[i - 1] \in Seq(S) /\ b[i] \in Seq(S)
      BY <1>1, <1>6, <2>1
    <2> HIDE DEF f, g
    <2>7. (fa[m] \o fb[i - 1]) \o b[i] = fa[m] \o (fb[i - 1] \o b[i])
      <3>1. Associates(fa[m], fb[i - 1], b[i])
        BY <1>6, <2>6, ConcatAssociates
      <3> QED
        BY <3>1 DEF Associates
    <2> QED
      BY <1>8, <2>2, <2>3, <2>4, <2>5, <2>7
  <1>9. f[n] = fc[m + n] /\ g[n] = fa[m] \o fb[n]
    <2>1. n \in 0 .. n
      BY <1>1
    <2> QED
      BY <2>1
  <1> HIDE DEF f, g
  <1>10. \A i \in 1 .. n : f[i - 1] = g[i - 1] => f[i] = g[i]
    BY <1>8
  <1>11. f[n] = g[n]
    <2>1. n \in Nat
      BY <1>1
    <2>same. SameSteps(f, g, n)
      BY <1>7, <1>10 DEF SameSteps
    <2>2. \A i \in 0 .. n : f[i] = g[i]
      BY ONLY <2>1, <2>same, SameLoop
    <2>3. n \in 0 .. n
      BY <2>1
    <2> QED
      BY <2>2, <2>3
  <1> QED
    BY <1>2, <1>3, <1>4, <1>9, <1>11 DEF Flattens, c

LEMMA FlattenOne ==
    ASSUME NEW S, NEW s \in Seq(S)
    PROVE  FlattenSeq(<<s>>) = s
  <1>1. <<s>> \in Seq(Seq(S)) /\ Len(<<s>>) = 1 /\ <<s>>[1] = s
    OBVIOUS
  <1>2. PICK flat \in [0 .. 1 -> Seq(S)] : Flattens(flat, 1, <<s>>)
    BY <1>1, FlattenLoop
  <1>3. flat[1] = <<>> \o s
    <2>1. 1 \in 1 .. 1 /\ 1 - 1 = 0
      OBVIOUS
    <2>2. flat[1] = flat[1 - 1] \o <<s>>[1]
      BY <1>2, <2>1 DEF Flattens
    <2> QED
      BY <1>1, <1>2, <2>1, <2>2 DEF Flattens
  <1> QED
    BY <1>2, <1>3, ConcatEmptySeq DEF Flattens

-----------------------------------------------------------------------------
(* The queues a message is decoded to.                                     *)

Basic == Nat \cup BOOLEAN

Kinds(queue) == IF queue = "uint64" THEN {"string", "uint64"} ELSE {queue}

ValueOf(item, types) == IF item.type \in types THEN <<item.value>> ELSE <<>>

Body == Seq(BodyItem)

LEMMA ItemType ==
    ASSUME NEW item \in BodyItem, NEW types
    PROVE  item.value \in Basic /\ ValueOf(item, types) \in Seq(Basic)
  <1>1. item.value \in Basic
    BY DEF BodyItem, Basic
  <1>2. <<item.value>> \in Seq(Basic) /\ <<>> \in Seq(Basic)
    BY <1>1
  <1> QED
    BY <1>1, <1>2 DEF ValueOf

ValuesIn(body, types) == [i \in 1 .. Len(body) |-> ValueOf(body[i], types)]

LEMMA DecodedType ==
    ASSUME NEW body \in Body, NEW types
    PROVE  /\ ValuesIn(body, types) \in Seq(Seq(Basic))
           /\ Len(ValuesIn(body, types)) = Len(body)
           /\ Decoded(body, types) = FlattenSeq(ValuesIn(body, types))
           /\ Decoded(body, types) \in Seq(Basic)
  <1>1. Len(body) \in Nat /\ DOMAIN body = 1 .. Len(body) /\ \A i \in 1 .. Len(body) : body[i] \in BodyItem
    BY LenProperties DEF Body
  <1>2. ValuesIn(body, types) \in [1 .. Len(body) -> Seq(Basic)]
    BY <1>1, ItemType DEF ValuesIn
  <1>3. ValuesIn(body, types) \in Seq(Seq(Basic))
    BY <1>1, <1>2, SeqDef
  <1>4. Len(ValuesIn(body, types)) = Len(body)
    BY <1>1, <1>2, <1>3, LenProperties
  <1>5. Decoded(body, types) = FlattenSeq(ValuesIn(body, types))
    BY <1>1 DEF Decoded, Each, ValuesIn, ValueOf
  <1> QED
    BY <1>3, <1>4, <1>5, FlattenType

LEMMA DecodedConcat ==
    ASSUME NEW a \in Body, NEW b \in Body, NEW types
    PROVE  Decoded(a \o b, types) = Decoded(a, types) \o Decoded(b, types)
  <1> DEFINE c == a \o b
             va == ValuesIn(a, types)
             vb == ValuesIn(b, types)
             vc == ValuesIn(c, types)
  <1>1. /\ c \in Body /\ Len(c) = Len(a) + Len(b) /\ Len(a) \in Nat /\ Len(b) \in Nat
        /\ \A i \in 1 .. Len(a) + Len(b) : c[i] = IF i <= Len(a) THEN a[i] ELSE b[i - Len(a)]
    BY ConcatProperties, LenProperties DEF Body
  <1>2. /\ va \in Seq(Seq(Basic)) /\ Len(va) = Len(a)
        /\ vb \in Seq(Seq(Basic)) /\ Len(vb) = Len(b)
        /\ vc \in Seq(Seq(Basic)) /\ Len(vc) = Len(a) + Len(b)
    BY <1>1, DecodedType
  <1>3. /\ va \o vb \in Seq(Seq(Basic)) /\ Len(va \o vb) = Len(va) + Len(vb)
        /\ \A i \in 1 .. Len(va) + Len(vb) : (va \o vb)[i] = IF i <= Len(va) THEN va[i] ELSE vb[i - Len(va)]
    <2>1. ASSUME NEW x \in Seq(Seq(Basic)), NEW y \in Seq(Seq(Basic))
          PROVE  /\ x \o y \in Seq(Seq(Basic)) /\ Len(x \o y) = Len(x) + Len(y)
                 /\ \A i \in 1 .. Len(x) + Len(y) : (x \o y)[i] = IF i <= Len(x) THEN x[i] ELSE y[i - Len(x)]
      BY ConcatProperties
    <2> HIDE DEF va, vb
    <2> QED
      BY <1>2, <2>1
  <1>4. ASSUME NEW i \in 1 .. Len(a) + Len(b) PROVE vc[i] = (va \o vb)[i]
    <2>1. vc[i] = ValueOf(c[i], types)
      BY <1>1 DEF ValuesIn
    <2>2. CASE i <= Len(a)
      <3>1. i \in 1 .. Len(a)
        BY <1>1, <2>2
      <3>2. va[i] = ValueOf(a[i], types)
        BY <3>1 DEF ValuesIn
      <3> QED
        BY <1>1, <1>2, <1>3, <2>1, <2>2, <3>2
    <2>3. CASE ~(i <= Len(a))
      <3>1. i - Len(a) \in 1 .. Len(b)
        BY <1>1, <2>3
      <3>2. vb[i - Len(a)] = ValueOf(b[i - Len(a)], types)
        BY <3>1 DEF ValuesIn
      <3> QED
        BY <1>1, <1>2, <1>3, <2>1, <2>3, <3>2
    <2> QED
      BY <2>2, <2>3
  <1> HIDE DEF c, va, vb, vc
  <1>5. vc = va \o vb
    <2>1. \A i \in 1 .. Len(vc) : vc[i] = (va \o vb)[i]
      BY <1>2, <1>4
    <2> QED
      BY <1>2, <1>3, <2>1, SeqEqual
  <1>6. FlattenSeq(va \o vb) = FlattenSeq(va) \o FlattenSeq(vb)
    BY <1>2, FlattenConcat
  <1>7. Decoded(c, types) = FlattenSeq(vc)
    BY <1>1, DecodedType DEF vc
  <1>8. Decoded(a, types) = FlattenSeq(va) /\ Decoded(b, types) = FlattenSeq(vb)
    BY DecodedType DEF va, vb
  <1> QED
    BY <1>5, <1>6, <1>7, <1>8 DEF c

LEMMA DecodedItem ==
    ASSUME NEW item \in BodyItem, NEW types
    PROVE  Decoded(<<item>>, types) = ValueOf(item, types)
  <1>1. <<item>> \in Body /\ Len(<<item>>) = 1 /\ <<item>>[1] = item
    BY DEF Body
  <1>2. ValuesIn(<<item>>, types) = <<ValueOf(item, types)>>
    BY <1>1 DEF ValuesIn
  <1>3. FlattenSeq(<<ValueOf(item, types)>>) = ValueOf(item, types)
    BY ItemType, FlattenOne
  <1> QED
    BY <1>1, <1>2, <1>3, DecodedType

LEMMA DecodedNothing ==
    ASSUME NEW types
    PROVE  Decoded(<<>>, types) = <<>>
  <1>1. <<>> \in Body /\ Len(<<>>) = 0
    BY EmptySeq DEF Body
  <1>2. ValuesIn(<<>>, types) = <<>>
    BY <1>1 DEF ValuesIn
  <1> QED
    BY <1>1, <1>2, DecodedType DEF FlattenSeq

Args == [Queues -> Seq(Basic)]

Join(a, b) == [queue \in Queues |-> a[queue] \o b[queue]]

LEMMA FillFacts ==
    ASSUME NEW body \in Body
    PROVE  /\ FillInArguments(body) \in Args
           /\ \A queue \in Queues : FillInArguments(body)[queue] = Decoded(body, Kinds(queue))
  <1>1. \A queue \in Queues : FillInArguments(body)[queue] = Decoded(body, Kinds(queue))
    BY DEF FillInArguments, Kinds
  <1>2. \A queue \in Queues : Decoded(body, Kinds(queue)) \in Seq(Basic)
    BY DecodedType
  <1>3. FillInArguments(body) = [queue \in Queues |-> FillInArguments(body)[queue]]
    BY DEF FillInArguments
  <1> QED
    BY <1>1, <1>2, <1>3 DEF Args

LEMMA JoinType ==
    ASSUME NEW a \in Args, NEW b \in Args
    PROVE  Join(a, b) \in Args
  <1>1. \A queue \in Queues : a[queue] \in Seq(Basic) /\ b[queue] \in Seq(Basic)
    BY DEF Args
  <1>2. \A queue \in Queues : a[queue] \o b[queue] \in Seq(Basic)
    BY <1>1, ConcatProperties
  <1> QED
    BY <1>2 DEF Args, Join

LEMMA JoinAssociative ==
    ASSUME NEW a \in Args, NEW b \in Args, NEW c \in Args
    PROVE  Join(Join(a, b), c) = Join(a, Join(b, c))
  <1>1. \A queue \in Queues : a[queue] \in Seq(Basic) /\ b[queue] \in Seq(Basic) /\ c[queue] \in Seq(Basic)
    BY DEF Args
  <1>2. \A queue \in Queues : (a[queue] \o b[queue]) \o c[queue] = a[queue] \o (b[queue] \o c[queue])
    <2>1. \A queue \in Queues : Associates(a[queue], b[queue], c[queue])
      BY <1>1, ConcatAssociates
    <2> QED
      BY <2>1 DEF Associates
  <1> QED
    BY <1>2 DEF Join

LEMMA FillConcat ==
    ASSUME NEW a \in Body, NEW b \in Body
    PROVE  /\ a \o b \in Body
           /\ FillInArguments(a \o b) = Join(FillInArguments(a), FillInArguments(b))
  <1>1. a \o b \in Body
    BY ConcatProperties DEF Body
  <1>2. ASSUME NEW queue \in Queues
        PROVE  FillInArguments(a \o b)[queue] = FillInArguments(a)[queue] \o FillInArguments(b)[queue]
    <2>1. Decoded(a \o b, Kinds(queue)) = Decoded(a, Kinds(queue)) \o Decoded(b, Kinds(queue))
      BY DecodedConcat
    <2>2. FillInArguments(a \o b)[queue] = Decoded(a \o b, Kinds(queue))
      BY <1>1, FillFacts
    <2>3. FillInArguments(a)[queue] = Decoded(a, Kinds(queue)) /\ FillInArguments(b)[queue] = Decoded(b, Kinds(queue))
      BY FillFacts
    <2> QED
      BY <2>1, <2>2, <2>3
  <1>3. FillInArguments(a \o b) = [queue \in Queues |-> FillInArguments(a \o b)[queue]]
    BY DEF FillInArguments
  <1> QED
    BY <1>1, <1>2, <1>3 DEF Join

Nothing == FillInArguments(<<>>)

LEMMA FillNothing ==
    /\ Nothing \in Args
    /\ \A queue \in Queues : Nothing[queue] = <<>>
    /\ \A a \in Args : Join(Nothing, a) = a /\ Join(a, Nothing) = a
  <1>1. <<>> \in Body
    BY EmptySeq DEF Body
  <1>2. Nothing \in Args /\ \A queue \in Queues : Nothing[queue] = <<>>
    BY <1>1, FillFacts, DecodedNothing DEF Nothing
  <1>3. ASSUME NEW a \in Args PROVE Join(Nothing, a) = a /\ Join(a, Nothing) = a
    <2>1. a = [queue \in Queues |-> a[queue]] /\ \A queue \in Queues : a[queue] \in Seq(Basic)
      BY DEF Args
    <2>2. \A queue \in Queues : Nothing[queue] \o a[queue] = a[queue] /\ a[queue] \o Nothing[queue] = a[queue]
      BY <1>2, <2>1, ConcatEmptySeq
    <2> QED
      BY <2>1, <2>2 DEF Join
  <1> QED
    BY <1>2, <1>3

-----------------------------------------------------------------------------
(* Reading one value.                                                      *)

LEMMA SameArgs ==
    ASSUME NEW a \in Args, NEW b \in Args, \A queue \in Queues : a[queue] = b[queue]
    PROVE  a = b
  BY DEF Args

(* Only v is to be taken from args to have what is left.                   *)
InFront(v, args, queue, left) ==
  /\ args[queue] = <<v>> \o left[queue]
  /\ \A other \in Queues : other # queue => args[other] = left[other]

LEMMA TakeFront ==
    ASSUME NEW args \in Args, NEW left \in Args, NEW queue \in Queues, NEW v \in Basic,
           InFront(v, args, queue, left)
    PROVE  Next1(args, queue) = Got(v, left)
  <1> USE DEF InFront
  <1> DEFINE s == left[queue]
             t == <<v>> \o s
  <1>1. <<v>> \in Seq(Basic) /\ Len(<<v>>) = 1 /\ <<v>>[1] = v /\ s \in Seq(Basic)
    BY DEF Args
  <1> HIDE DEF s
  <1>2. /\ t \in Seq(Basic) /\ Len(t) = 1 + Len(s) /\ Len(s) \in Nat
        /\ \A i \in 1 .. 1 + Len(s) : t[i] = IF i <= 1 THEN v ELSE s[i - 1]
    <2>1. Len(s) \in Nat
      BY <1>1, LenProperties
    <2> QED
      BY <1>1, <2>1, ConcatProperties
  <1> HIDE DEF t
  <1>3. t # <<>> /\ t[1] = v
    BY <1>2, EmptySeq
  <1>4. Head(t) = v
    BY <1>2, <1>3
  <1>5. Tail(t) = s
    <2>1. Tail(t) \in Seq(Basic) /\ Len(Tail(t)) = Len(s) /\ \A i \in 1 .. Len(Tail(t)) : Tail(t)[i] = t[i + 1]
      BY <1>2, <1>3, HeadTailProperties
    <2>2. \A i \in 1 .. Len(s) : i + 1 \in 1 .. 1 + Len(s) /\ ~(i + 1 <= 1) /\ (i + 1) - 1 = i
      BY <1>2
    <2>3. \A i \in 1 .. Len(Tail(t)) : Tail(t)[i] = s[i]
      BY <1>2, <2>1, <2>2
    <2> QED
      BY <1>1, <2>1, <2>3, SeqEqual
  <1>6. args[queue] = t
    BY DEF t, s
  <1>7. [args EXCEPT ![queue] = s] = left
    <2>1. [args EXCEPT ![queue] = s] \in Args
      BY <1>1 DEF Args
    <2>2. \A other \in Queues : [args EXCEPT ![queue] = s][other] = left[other]
      BY DEF Args, s
    <2> QED
      BY <2>1, <2>2, SameArgs
  <1> QED
    BY <1>3, <1>4, <1>5, <1>6, <1>7 DEF Next1

(* An item adds its value to its own queue, a string to two.               *)
LEMMA JoinItem ==
    ASSUME NEW type, NEW value, [type |-> type, value |-> value] \in BodyItem, NEW args \in Args
    PROVE  /\ Item(type, value) \in Body
           /\ value \in Basic
           /\ Join(FillInArguments(Item(type, value)), args) \in Args
           /\ \A queue \in Queues :
                Join(FillInArguments(Item(type, value)), args)[queue]
                  = IF type \in Kinds(queue) THEN <<value>> \o args[queue] ELSE args[queue]
  <1> DEFINE item == [type |-> type, value |-> value]
             body == Item(type, value)
  <1>1. body = <<item>> /\ item.type = type /\ item.value = value
    BY DEF Item
  <1>2. body \in Body /\ value \in Basic
    BY <1>1, ItemType DEF Body
  <1>3. \A queue \in Queues : FillInArguments(body)[queue] = ValueOf(item, Kinds(queue))
    BY <1>1, <1>2, FillFacts, DecodedItem
  <1>4. Join(FillInArguments(body), args) \in Args
    BY <1>2, FillFacts, JoinType
  <1>5. \A queue \in Queues : args[queue] \in Seq(Basic) /\ <<>> \o args[queue] = args[queue]
    BY ConcatEmptySeq DEF Args
  <1>6. ASSUME NEW queue \in Queues
        PROVE  Join(FillInArguments(body), args)[queue]
                 = IF type \in Kinds(queue) THEN <<value>> \o args[queue] ELSE args[queue]
    <2>1. Join(FillInArguments(body), args)[queue] = ValueOf(item, Kinds(queue)) \o args[queue]
      BY <1>3 DEF Join
    <2>2. ValueOf(item, Kinds(queue)) = IF type \in Kinds(queue) THEN <<value>> ELSE <<>>
      BY <1>1 DEF ValueOf
    <2> QED
      BY <1>5, <2>1, <2>2
  <1> QED
    BY <1>2, <1>4, <1>6

LEMMA NextItem ==
    ASSUME NEW type \in {"boolean", "byte", "uint16", "uint64"}, NEW value,
           [type |-> type, value |-> value] \in BodyItem, NEW args \in Args
    PROVE  Next1(Join(FillInArguments(Item(type, value)), args), type) = Got(value, args)
  <1> DEFINE full == Join(FillInArguments(Item(type, value)), args)
  <1>1. type \in Queues /\ type \in Kinds(type) /\ \A queue \in Queues : queue # type => type \notin Kinds(queue)
    BY DEF Queues, Kinds
  <1>2. /\ full \in Args /\ value \in Basic
        /\ \A queue \in Queues : full[queue] = IF type \in Kinds(queue) THEN <<value>> \o args[queue] ELSE args[queue]
    BY JoinItem
  <1> HIDE DEF full
  <1>3. full[type] = <<value>> \o args[type]
    BY <1>1, <1>2
  <1>4. \A queue \in Queues : queue # type => full[queue] = args[queue]
    BY <1>1, <1>2
  <1>5. InFront(value, full, type, args)
    BY <1>3, <1>4 DEF InFront
  <1>6. Next1(full, type) = Got(value, args)
    BY <1>1, <1>2, <1>5, TakeFront
  <1> QED
    BY <1>6 DEF full

(* The size of a string that is not empty, then the string.                *)
LEMMA NextStringItem ==
    ASSUME NEW s \in Nat, s # 0, NEW args \in Args
    PROVE  NextString(Join(FillInArguments(Item("string", s)), args)) = Got(s, args)
  <1> DEFINE full == Join(FillInArguments(Item("string", s)), args)
             left == [full EXCEPT !["uint64"] = args["uint64"]]
  <1>1. /\ [type |-> "string", value |-> s] \in BodyItem
        /\ "string" \in Queues /\ "uint64" \in Queues
        /\ "string" \in Kinds("string") /\ "string" \in Kinds("uint64")
        /\ \A queue \in Queues : queue # "string" /\ queue # "uint64" => "string" \notin Kinds(queue)
    BY DEF Queues, Kinds, BodyItem
  <1>2. /\ full \in Args /\ s \in Basic
        /\ \A queue \in Queues : full[queue] = IF "string" \in Kinds(queue) THEN <<s>> \o args[queue] ELSE args[queue]
    BY <1>1, JoinItem
  <1> HIDE DEF full
  <1>3. left \in Args /\ \A queue \in Queues : left[queue] = IF queue = "uint64" THEN args[queue] ELSE full[queue]
    BY <1>1, <1>2 DEF Args
  <1> HIDE DEF left
  <1>4. NextUInt64(full) = Got(s, left)
    <2>1. full["uint64"] = <<s>> \o left["uint64"]
      BY <1>1, <1>2, <1>3
    <2>2. InFront(s, full, "uint64", left)
      BY <1>3, <2>1 DEF InFront
    <2>3. Next1(full, "uint64") = Got(s, left)
      BY <1>1, <1>2, <1>3, <2>2, TakeFront
    <2> QED
      BY <2>3 DEF NextUInt64
  <1>5. Next1(left, "string") = Got(s, args)
    <2>1. left["string"] = <<s>> \o args["string"]
      BY <1>1, <1>2, <1>3
    <2>2. InFront(s, left, "string", args)
      BY <1>1, <1>2, <1>3, <2>1 DEF InFront
    <2> QED
      BY <1>1, <1>2, <1>3, <2>2, TakeFront
  <1>6. Got(s, left) # Failure /\ Got(s, left).value = s /\ Got(s, left).rest = left
    BY DEF Got, Failure
  <1>7. NextString(full) = Next1(left, "string")
    BY <1>4, <1>6 DEF NextString
  <1> QED
    BY <1>5, <1>7 DEF full

-----------------------------------------------------------------------------
(* One value of a basic type.                                              *)

Simple == {"b", "y", "q", "t", "s", "G", "m", "B", "e"}

SimpleValues(type) ==
  CASE type = "B" -> GK_INVALID + 1 .. GK_GUI_QT
    [] type = "e" -> 0 .. EVENT_KEY_UNKNOWN
    [] OTHER -> Values(type)

AppendSimple(type, value) ==
  IF type \in {"B", "e"} THEN AppendUInt8(value) ELSE AppendArgument(type, value)

(* What is read of a body, whatever follows it.                            *)
After(body, left) == Join(FillInArguments(body), left)

LEMMA AfterType ==
    ASSUME NEW body \in Body, NEW left \in Args
    PROVE  After(body, left) \in Args
  BY FillFacts, JoinType DEF After

LEMMA GotFacts ==
    ASSUME NEW value, NEW rest
    PROVE  Got(value, rest) # Failure /\ Got(value, rest).value = value /\ Got(value, rest).rest = rest
  BY DEF Got, Failure

LEMMA Modulo ==
    ASSUME NEW m \in Nat, NEW n \in 0 .. m
    PROVE  n % (m + 1) = n
  OBVIOUS

LEMMA Limits == UINT8_MAX \in Nat /\ UINT16_MAX \in Nat
  BY DEF UINT8_MAX, UINT16_MAX

LEMMA ByteArrives ==
    ASSUME NEW n \in Bytes, NEW left \in Args
    PROVE  AppendUInt8(n) \in Body /\ NextByte(After(AppendUInt8(n), left)) = Got(n, left)
  <1>1. n % (UINT8_MAX + 1) = n /\ n \in Nat
    <2>1. UINT8_MAX \in Nat
      BY Limits
    <2> QED
      BY <2>1, Modulo DEF Bytes
  <1>2. [type |-> "byte", value |-> n] \in BodyItem
    BY <1>1 DEF BodyItem
  <1>3. Item("byte", n) \in Body /\ Next1(After(Item("byte", n), left), "byte") = Got(n, left)
    BY <1>2, NextItem, JoinItem DEF After
  <1> QED
    BY <1>1, <1>3 DEF AppendUInt8, NextByte

LEMMA UInt16Arrives ==
    ASSUME NEW n \in 0 .. UINT16_MAX, NEW left \in Args
    PROVE  AppendUInt16(n) \in Body /\ NextUInt16(After(AppendUInt16(n), left)) = Got(n, left)
  <1>1. n % (UINT16_MAX + 1) = n /\ n \in Nat
    <2>1. UINT16_MAX \in Nat
      BY Limits
    <2> QED
      BY <2>1, Modulo
  <1>2. [type |-> "uint16", value |-> n] \in BodyItem
    BY <1>1 DEF BodyItem
  <1>3. Item("uint16", n) \in Body /\ Next1(After(Item("uint16", n), left), "uint16") = Got(n, left)
    BY <1>2, NextItem, JoinItem DEF After
  <1> QED
    BY <1>1, <1>3 DEF AppendUInt16, NextUInt16

LEMMA UInt64Arrives ==
    ASSUME NEW n \in Nat, NEW left \in Args
    PROVE  AppendUInt64(n) \in Body /\ NextUInt64(After(AppendUInt64(n), left)) = Got(n, left)
  <1>2. [type |-> "uint64", value |-> n] \in BodyItem
    BY DEF BodyItem
  <1>3. Item("uint64", n) \in Body /\ Next1(After(Item("uint64", n), left), "uint64") = Got(n, left)
    BY <1>2, NextItem, JoinItem DEF After
  <1> QED
    BY <1>3 DEF AppendUInt64, NextUInt64

LEMMA BooleanArrives ==
    ASSUME NEW b \in BOOLEAN, NEW left \in Args
    PROVE  AppendBoolean(b) \in Body /\ NextBoolean(After(AppendBoolean(b), left)) = Got(b, left)
  <1>2. [type |-> "boolean", value |-> b] \in BodyItem
    BY DEF BodyItem
  <1>3. Item("boolean", b) \in Body /\ Next1(After(Item("boolean", b), left), "boolean") = Got(b, left)
    BY <1>2, NextItem, JoinItem DEF After
  <1> QED
    BY <1>3 DEF AppendBoolean, NextBoolean

LEMMA StringArrives ==
    ASSUME NEW s \in Nat, NEW left \in Args
    PROVE  AppendString(s) \in Body /\ NextString(After(AppendString(s), left)) = Got(s, left)
  <1>1. CASE s = 0
    <2>1. AppendString(s) = AppendUInt64(s)
      BY <1>1 DEF AppendString
    <2>2. AppendUInt64(s) \in Body /\ NextUInt64(After(AppendUInt64(s), left)) = Got(s, left)
      BY UInt64Arrives
    <2> QED
      BY <1>1, <2>1, <2>2, GotFacts DEF NextString
  <1>2. CASE s # 0
    <2>1. AppendString(s) = Item("string", s)
      BY <1>2 DEF AppendString
    <2>2. [type |-> "string", value |-> s] \in BodyItem
      BY DEF BodyItem
    <2> QED
      BY <1>2, <2>1, <2>2, JoinItem, NextStringItem DEF After
  <1> QED
    BY <1>1, <1>2

LEMMA SimpleArrives ==
    ASSUME NEW type \in Simple, NEW value \in SimpleValues(type), NEW left \in Args
    PROVE  /\ AppendSimple(type, value) \in Body
           /\ NextSimple(type, After(AppendSimple(type, value), left)) = Got(value, left)
  <1>1. CASE type = "b"
    <2>1. value \in BOOLEAN /\ AppendSimple(type, value) = AppendBoolean(value)
      BY <1>1 DEF SimpleValues, Values, AppendSimple, AppendArgument
    <2> QED
      BY <1>1, <2>1, BooleanArrives DEF NextSimple
  <1>2. CASE type = "y"
    <2>1. value \in Bytes /\ AppendSimple(type, value) = AppendUInt8(value)
      BY <1>2 DEF SimpleValues, Values, AppendSimple, AppendArgument
    <2> QED
      BY <1>2, <2>1, ByteArrives DEF NextSimple
  <1>3. CASE type = "q"
    <2>1. value \in 0 .. UINT16_MAX /\ AppendSimple(type, value) = AppendUInt16(value)
      BY <1>3 DEF SimpleValues, Values, AppendSimple, AppendArgument
    <2> QED
      BY <1>3, <2>1, UInt16Arrives DEF NextSimple
  <1>4. CASE type = "t"
    <2>1. value \in Nat /\ AppendSimple(type, value) = AppendUInt64(value)
      BY <1>4 DEF SimpleValues, Values, AppendSimple, AppendArgument
    <2> QED
      BY <1>4, <2>1, UInt64Arrives DEF NextSimple
  <1>5. CASE type = "s"
    <2>1. value \in Nat /\ AppendSimple(type, value) = AppendString(value)
      BY <1>5 DEF SimpleValues, Values, AppendSimple, AppendArgument
    <2> QED
      BY <1>5, <2>1, StringArrives DEF NextSimple
  <1>6. CASE type \in {"G", "m", "B", "e"}
    <2>1. value \in Bytes /\ AppendSimple(type, value) = AppendUInt8(value)
      <3>1. CASE type = "G"
        BY <3>1 DEF SimpleValues, Values, AppendSimple, AppendArgument, AppendGKeysID, Bytes, GKeyID_INV, GKeyID_MAX, UINT8_MAX
      <3>2. CASE type = "m"
        BY <3>2 DEF SimpleValues, Values, AppendSimple, AppendArgument, AppendMKeysID, Bytes, MKeyID_MAX, UINT8_MAX
      <3>3. CASE type = "B"
        BY <3>3 DEF SimpleValues, AppendSimple, Bytes, GK_INVALID, GK_GUI_QT, UINT8_MAX
      <3>4. CASE type = "e"
        BY <3>4 DEF SimpleValues, AppendSimple, Bytes, EVENT_KEY_UNKNOWN, UINT8_MAX
      <3> QED
        BY <1>6, <3>1, <3>2, <3>3, <3>4
    <2> DEFINE got == NextByte(After(AppendUInt8(value), left))
    <2>2. AppendUInt8(value) \in Body /\ got = Got(value, left)
      BY <2>1, ByteArrives
    <2>3. got # Failure /\ got.value = value
      BY <2>2, GotFacts
    <2> HIDE DEF got
    <2>4. NextSimple(type, After(AppendSimple(type, value), left)) = Valid(got, SimpleValues(type))
      <3>1. CASE type = "G"
        BY <2>1, <3>1 DEF NextSimple, NextGKeysID, SimpleValues, Values, got
      <3>2. CASE type = "m"
        BY <2>1, <3>2 DEF NextSimple, NextMKeysID, SimpleValues, Values, got
      <3>3. CASE type = "B"
        BY <2>1, <3>3 DEF NextSimple, NextGKBinary, SimpleValues, got
      <3>4. CASE type = "e"
        BY <2>1, <3>4 DEF NextSimple, NextKeyEventValue, SimpleValues, got
      <3> QED
        BY <1>6, <3>1, <3>2, <3>3, <3>4
    <2> QED
      BY <2>1, <2>2, <2>3, <2>4 DEF Valid
  <1> QED
    BY <1>1, <1>2, <1>3, <1>4, <1>5, <1>6 DEF Simple

-----------------------------------------------------------------------------
(* Bodies one after the other: what is left when each has been read.       *)

Leaves(rest, parts, left) ==
  /\ rest[0] = After(FlattenSeq(parts), left)
  /\ rest[Len(parts)] = left
  /\ \A i \in 1 .. Len(parts) : rest[i - 1] = After(parts[i], rest[i])

LEMMA Traces ==
    ASSUME NEW parts \in Seq(Body), NEW left \in Args
    PROVE  /\ FlattenSeq(parts) \in Body
           /\ \E rest \in [0 .. Len(parts) -> Args] : Leaves(rest, parts, left)
  <1> DEFINE n == Len(parts)
             step == [x \in Args \X (1 .. n) |-> After(parts[n + 1 - x[2]], x[1])]
  <1>1. n \in Nat /\ \A i \in 1 .. n : parts[i] \in Body
    BY LenProperties
  <1> HIDE DEF n
  <1>2. step \in [Args \X (1 .. n) -> Args]
    <2>1. ASSUME NEW x \in Args \X (1 .. n) PROVE step[x] \in Args
      <3>1. n + 1 - x[2] \in 1 .. n
        BY <1>1
      <3>2. x[1] \in Args /\ parts[n + 1 - x[2]] \in Body
        BY <1>1, <3>1
      <3> QED
        BY <3>2, AfterType
    <2> QED
      BY <2>1
  <1> HIDE DEF step
  <1>3. PICK f : f \in [0 .. n -> Args] /\ IsLoop(f, n, left, step)
    BY <1>1, <1>2, Loop
  <1> DEFINE rest == [i \in 0 .. n |-> f[n - i]]
  <1>4. rest \in [0 .. n -> Args]
    <2>1. \A i \in 0 .. n : n - i \in 0 .. n
      BY <1>1
    <2> QED
      BY <1>3, <2>1
  <1>5. rest[n] = left
    <2>1. n \in 0 .. n /\ n - n = 0
      BY <1>1
    <2> QED
      BY <1>3, <2>1 DEF IsLoop
  <1>6. ASSUME NEW i \in 1 .. n PROVE rest[i - 1] = After(parts[i], rest[i])
    <2> DEFINE j == n - i + 1
    <2>1. /\ j \in 1 .. n /\ j - 1 = n - i /\ n - (i - 1) = j /\ n + 1 - j = i
          /\ i \in 0 .. n /\ i - 1 \in 0 .. n /\ j - 1 \in 0 .. n
      BY <1>1
    <2> HIDE DEF j
    <2>2. f[j] = step[<<f[j - 1], j>>]
      BY <1>3, <2>1 DEF IsLoop
    <2>3. f[j - 1] \in Args
      BY <1>3, <2>1
    <2>4. step[<<f[j - 1], j>>] = After(parts[n + 1 - j], f[j - 1])
      BY <2>1, <2>3 DEF step
    <2> QED
      BY <2>1, <2>2, <2>4
  <1> HIDE DEF rest
  <1>7. Seq(Body) = Seq(Seq(BodyItem))
    BY DEF Body
  <1>8. PICK flat : flat \in [0 .. n -> Seq(BodyItem)] /\ Flattens(flat, n, parts)
    BY <1>7, FlattenLoop DEF n
  <1>9. \A i \in 0 .. n : flat[i] \in Body /\ rest[i] \in Args
    BY <1>4, <1>8 DEF Body
  <1> DEFINE g == [i \in 0 .. n |-> After(flat[i], rest[i])]
             h == [i \in 0 .. n |-> rest[0]]
  <1>10. g[0] = h[0]
    <2>1. 0 \in 0 .. n /\ flat[0] = <<>>
      BY <1>1, <1>8 DEF Flattens
    <2>2. After(<<>>, rest[0]) = rest[0]
      BY <1>9, <2>1, FillNothing DEF After, Nothing
    <2> QED
      BY <2>1, <2>2
  <1>11. ASSUME NEW i \in 1 .. n, g[i - 1] = h[i - 1] PROVE g[i] = h[i]
    <2>1. i \in 0 .. n /\ i - 1 \in 0 .. n
      BY <1>1
    <2>2. flat[i] = flat[i - 1] \o parts[i]
      BY <1>8 DEF Flattens
    <2>3. ASSUME NEW a \in Body, NEW b \in Body, NEW r \in Args
          PROVE  After(a \o b, r) = After(a, After(b, r))
      BY FillConcat, FillFacts, JoinAssociative DEF After
    <2>4. After(flat[i - 1] \o parts[i], rest[i]) = After(flat[i - 1], After(parts[i], rest[i]))
      BY <1>1, <1>9, <2>1, <2>3
    <2>5. After(parts[i], rest[i]) = rest[i - 1]
      BY <1>6
    <2>6. g[i] = After(flat[i], rest[i]) /\ g[i - 1] = After(flat[i - 1], rest[i - 1]) /\ h[i] = h[i - 1]
      BY <2>1
    <2> HIDE DEF g, h
    <2> QED
      BY <1>11, <2>2, <2>4, <2>5, <2>6
  <1>12. g[n] = After(flat[n], rest[n]) /\ h[n] = rest[0] /\ n \in 0 .. n
    BY <1>1
  <1> HIDE DEF g, h
  <1>13. g[n] = h[n]
    <2>1. \A i \in 1 .. n : g[i - 1] = h[i - 1] => g[i] = h[i]
      BY <1>11
    <2>2. n \in Nat
      BY <1>1
    <2>same. SameSteps(g, h, n)
      BY <2>1, <1>10 DEF SameSteps
    <2>3. \A i \in 0 .. n : g[i] = h[i]
      BY ONLY <2>2, <2>same, SameLoop
    <2> QED
      BY <1>12, <2>3
  <1>14. flat[n] = FlattenSeq(parts) /\ flat[n] \in Body
    BY <1>8, <1>9, <1>12 DEF Flattens
  <1>15. Leaves(rest, parts, left)
    BY <1>5, <1>6, <1>12, <1>13, <1>14 DEF Leaves, n
  <1> QED
    BY <1>4, <1>14, <1>15 DEF n

LEMMA AfterConcat ==
    ASSUME NEW a \in Body, NEW b \in Body, NEW left \in Args
    PROVE  a \o b \in Body /\ After(a \o b, left) = After(a, After(b, left))
  BY FillConcat, FillFacts, JoinAssociative DEF After

(* A sequence is its prefix.                                               *)
LEMMA PrefixAll ==
    ASSUME NEW S, NEW s \in Seq(S)
    PROVE  Prefix(s, Len(s)) = s
  BY LenProperties DEF Prefix

-----------------------------------------------------------------------------
(* Structures of values of basic types, and arrays of them.                *)

AppendFields(types, values) ==
  FlattenSeq([i \in 1 .. Len(types) |-> AppendSimple(types[i], values[i])])

(* The structures with these fields.                                       *)
Structs(types) ==
  {values \in Seq(Basic) :
     Len(values) = Len(types) /\ \A i \in 1 .. Len(types) : values[i] \in SimpleValues(types[i])}

LEMMA FieldsArrive ==
    ASSUME NEW types \in Seq(Simple), NEW values \in Structs(types), NEW left \in Args
    PROVE  /\ AppendFields(types, values) \in Body
           /\ NextFields(types, After(AppendFields(types, values), left)) = Got(values, left)
  <1> DEFINE n == Len(types)
             parts == [i \in 1 .. n |-> AppendSimple(types[i], values[i])]
  <1>1. /\ n \in Nat /\ values \in Seq(Basic) /\ Len(values) = n
        /\ \A i \in 1 .. n : types[i] \in Simple /\ values[i] \in SimpleValues(types[i])
    BY LenProperties DEF Structs
  <1>2. \A i \in 1 .. n : parts[i] \in Body
    BY <1>1, FillNothing, SimpleArrives
  <1>3. parts \in Seq(Body) /\ Len(parts) = n
    <2>1. parts \in [1 .. n -> Body]
      BY <1>2
    <2> HIDE DEF parts, n
    <2>2. parts \in Seq(Body)
      BY <1>1, <2>1, SeqDef
    <2> QED
      BY <1>1, <2>1, <2>2, LenProperties
  <1>4. AppendFields(types, values) = FlattenSeq(parts)
    BY DEF AppendFields
  <1>5. \A i \in 1 .. n : parts[i] = AppendSimple(types[i], values[i])
    OBVIOUS
  <1> HIDE DEF parts, n
  <1>6. PICK rest : rest \in [0 .. n -> Args] /\ Leaves(rest, parts, left)
    BY <1>3, Traces
  <1>7. ASSUME NEW i \in 1 .. n PROVE NextSimple(types[i], rest[i - 1]) = Got(values[i], rest[i])
    <2>1. rest[i] \in Args
      <3>1. i \in 0 .. n
        BY <1>1
      <3> QED
        BY <1>6, <3>1
    <2>2. rest[i - 1] = After(AppendSimple(types[i], values[i]), rest[i])
      BY <1>3, <1>5, <1>6 DEF Leaves
    <2> QED
      BY <1>1, <2>1, <2>2, SimpleArrives
  <1>8. NextFields(types, rest[0]) = Got(Prefix(values, n), rest[n])
    BY <1>1, <1>7, FieldsInTurn DEF n
  <1>9. rest[0] = After(FlattenSeq(parts), left) /\ rest[n] = left
    BY <1>3, <1>6 DEF Leaves
  <1>10. Prefix(values, n) = values
    BY <1>1, PrefixAll
  <1>11. FlattenSeq(parts) \in Body
    BY <1>3, Traces
  <1> QED
    BY <1>4, <1>8, <1>9, <1>10, <1>11

AppendStructs(fields, structs) ==
  FlattenSeq([i \in 1 .. Len(structs) |-> AppendFields(fields, structs[i])])

LEMMA StructsArrive ==
    ASSUME NEW fields \in Seq(Simple), NEW structs \in Seq(Structs(fields)), NEW left \in Args
    PROVE  /\ AppendStructs(fields, structs) \in Body
           /\ NextStructs(fields, Len(structs), After(AppendStructs(fields, structs), left))
                = Got(structs, left)
  <1> DEFINE n == Len(structs)
             parts == [i \in 1 .. n |-> AppendFields(fields, structs[i])]
  <1>1. n \in Nat /\ \A i \in 1 .. n : structs[i] \in Structs(fields)
    BY LenProperties
  <1>2. \A i \in 1 .. n : parts[i] \in Body
    BY <1>1, FillNothing, FieldsArrive
  <1>3. parts \in Seq(Body) /\ Len(parts) = n
    <2>1. parts \in [1 .. n -> Body]
      BY <1>2
    <2> HIDE DEF parts, n
    <2>2. parts \in Seq(Body)
      BY <1>1, <2>1, SeqDef
    <2> QED
      BY <1>1, <2>1, <2>2, LenProperties
  <1>4. AppendStructs(fields, structs) = FlattenSeq(parts)
    BY DEF AppendStructs
  <1>5. \A i \in 1 .. n : parts[i] = AppendFields(fields, structs[i])
    OBVIOUS
  <1> HIDE DEF parts, n
  <1>6. PICK rest : rest \in [0 .. n -> Args] /\ Leaves(rest, parts, left)
    BY <1>3, Traces
  <1>7. ASSUME NEW i \in 1 .. n PROVE NextFields(fields, rest[i - 1]) = Got(structs[i], rest[i])
    <2>1. rest[i] \in Args
      <3>1. i \in 0 .. n
        BY <1>1
      <3> QED
        BY <1>6, <3>1
    <2>2. rest[i - 1] = After(AppendFields(fields, structs[i]), rest[i])
      BY <1>3, <1>5, <1>6 DEF Leaves
    <2> QED
      BY <1>1, <2>1, <2>2, FieldsArrive
  <1>8. NextStructs(fields, n, rest[0]) = Got(Prefix(structs, n), rest[n])
    BY <1>1, <1>7, StructsInTurn
  <1>9. rest[0] = After(FlattenSeq(parts), left) /\ rest[n] = left
    BY <1>3, <1>6 DEF Leaves
  <1>10. Prefix(structs, n) = structs
    BY PrefixAll DEF n
  <1>11. FlattenSeq(parts) \in Body
    BY <1>3, Traces
  <1> QED
    BY <1>4, <1>8, <1>9, <1>10, <1>11 DEF n

(* Two and three bodies.                                                   *)
LEMMA FlattenTwo ==
    ASSUME NEW a \in Body, NEW b \in Body
    PROVE  FlattenSeq(<<a, b>>) = a \o b
  <1>1. <<a>> \in Seq(Seq(BodyItem)) /\ <<b>> \in Seq(Seq(BodyItem))
    BY DEF Body
  <1>2. <<a, b>> = <<a>> \o <<b>>
    <2>1. <<a>> \o <<b>> = Append(<<a>>, b)
      BY <1>1
    <2>2. <<a, b>> = Append(<<a>>, b)
      BY <1>1
    <2> QED
      BY <2>1, <2>2
  <1>3. FlattenSeq(<<a>> \o <<b>>) = FlattenSeq(<<a>>) \o FlattenSeq(<<b>>)
    BY <1>1, FlattenConcat
  <1>4. FlattenSeq(<<a>>) = a /\ FlattenSeq(<<b>>) = b
    BY FlattenOne DEF Body
  <1> QED
    BY <1>2, <1>3, <1>4

LEMMA FlattenThree ==
    ASSUME NEW a \in Body, NEW b \in Body, NEW c \in Body
    PROVE  FlattenSeq(<<a, b, c>>) = a \o b \o c
  <1>1. <<a, b>> \in Seq(Seq(BodyItem)) /\ <<c>> \in Seq(Seq(BodyItem))
    BY DEF Body
  <1>2. <<a, b, c>> = <<a, b>> \o <<c>>
    OBVIOUS
  <1>3. FlattenSeq(<<a, b>> \o <<c>>) = FlattenSeq(<<a, b>>) \o FlattenSeq(<<c>>)
    BY <1>1, FlattenConcat
  <1>4. FlattenSeq(<<a, b>>) = a \o b /\ FlattenSeq(<<c>>) = c
    BY FlattenTwo, FlattenOne DEF Body
  <1> QED
    BY <1>2, <1>3, <1>4

-----------------------------------------------------------------------------
(* Each type of argument.                                                  *)

(* An array of keys: a structure with as many fields.                      *)
LEMMA KeysArrive ==
    ASSUME NEW key \in {"G", "m"}, NEW a \in Seq(SimpleValues(key)), NEW left \in Args
    PROVE  /\ Each(AppendUInt8, a) \in Body
           /\ NextFields([i \in 1 .. Len(a) |-> key], After(Each(AppendUInt8, a), left)) = Got(a, left)
  <1> DEFINE n == Len(a)
             types == [i \in 1 .. n |-> key]
  <1>1. n \in Nat /\ DOMAIN a = 1 .. n /\ \A i \in 1 .. n : a[i] \in SimpleValues(key)
    BY LenProperties
  <1>2. key \in Simple /\ SimpleValues(key) \subseteq Basic
    BY DEF Simple, SimpleValues, Values, Basic, GKeyID_INV, GKeyID_MAX, MKeyID_MAX
  <1> HIDE DEF n
  <1>3. types \in Seq(Simple) /\ Len(types) = n /\ \A i \in 1 .. n : types[i] = key
    <2>1. types \in [1 .. n -> Simple]
      BY <1>2
    <2> HIDE DEF types
    <2>2. types \in Seq(Simple)
      BY <1>1, <2>1, SeqDef
    <2> QED
      BY <1>1, <2>1, <2>2, LenProperties DEF types
  <1>4. a \in Seq(Basic)
    BY <1>1, <1>2
  <1> HIDE DEF types
  <1>5. a \in Structs(types)
    BY <1>1, <1>3, <1>4 DEF Structs, n
  <1>6. \A i \in 1 .. n : AppendSimple(types[i], a[i]) = AppendUInt8(a[i])
    BY <1>3 DEF AppendSimple, AppendArgument, AppendGKeysID, AppendMKeysID
  <1>7. AppendFields(types, a) = Each(AppendUInt8, a)
    BY <1>1, <1>3, <1>6 DEF AppendFields, Each
  <1>8. /\ AppendFields(types, a) \in Body
        /\ NextFields(types, After(AppendFields(types, a), left)) = Got(a, left)
    BY <1>3, <1>5, FieldsArrive
  <1> QED
    BY <1>7, <1>8 DEF types, n

LEMMA GKeysIDArrayArrives ==
    ASSUME NEW a \in Values("aG"), NEW left \in Args
    PROVE  /\ AppendGKeysIDArray(a) \in Body
           /\ NextGKeysIDArray(After(AppendGKeysIDArray(a), left)) = Got(a, left)
  <1> DEFINE body == Each(AppendUInt8, a)
             rest == After(body, left)
  <1>1. a \in Seq(SimpleValues("G")) /\ Len(a) \in Bytes
    BY DEF Values, SimpleValues
  <1>2. body \in Body /\ NextFields([i \in 1 .. Len(a) |-> "G"], rest) = Got(a, left)
    BY <1>1, KeysArrive
  <1> HIDE DEF body
  <1>3. rest \in Args
    BY <1>2, AfterType
  <1>4. AppendUInt8(Len(a)) \in Body /\ NextByte(After(AppendUInt8(Len(a)), rest)) = Got(Len(a), rest)
    BY <1>1, <1>3, ByteArrives
  <1>5. /\ AppendUInt8(Len(a)) \o body \in Body
        /\ After(AppendUInt8(Len(a)) \o body, left) = After(AppendUInt8(Len(a)), rest)
    BY <1>2, <1>4, AfterConcat
  <1>6. AppendGKeysIDArray(a) = AppendUInt8(Len(a)) \o body
    BY DEF AppendGKeysIDArray, body
  <1> HIDE DEF rest
  <1> QED
    BY <1>2, <1>4, <1>5, <1>6, GotFacts DEF NextGKeysIDArray

LEMMA MKeysIDArrayArrives ==
    ASSUME NEW a \in Values("am"), NEW left \in Args
    PROVE  /\ AppendMKeysIDArray(a) \in Body
           /\ NextMKeysIDArray(After(AppendMKeysIDArray(a), left)) = Got(a, left)
  <1> DEFINE body == Each(AppendUInt8, a)
             rest == After(body, left)
  <1>1. a \in Seq(SimpleValues("m")) /\ Len(a) \in Bytes
    BY DEF Values, SimpleValues
  <1>2. body \in Body /\ NextFields([i \in 1 .. Len(a) |-> "m"], rest) = Got(a, left)
    BY <1>1, KeysArrive
  <1> HIDE DEF body
  <1>3. rest \in Args
    BY <1>2, AfterType
  <1>4. AppendUInt8(Len(a)) \in Body /\ NextByte(After(AppendUInt8(Len(a)), rest)) = Got(Len(a), rest)
    BY <1>1, <1>3, ByteArrives
  <1>5. /\ AppendUInt8(Len(a)) \o body \in Body
        /\ After(AppendUInt8(Len(a)) \o body, left) = After(AppendUInt8(Len(a)), rest)
    BY <1>2, <1>4, AfterConcat
  <1>6. AppendMKeysIDArray(a) = AppendUInt8(Len(a)) \o body
    BY DEF AppendMKeysIDArray, body
  <1> HIDE DEF rest
  <1> QED
    BY <1>2, <1>4, <1>5, <1>6, GotFacts DEF NextMKeysIDArray

(* The properties of a plugin are a structure.                             *)
LEMMA Three ==
    ASSUME NEW x, NEW y, NEW z
    PROVE  /\ Len(<<x, y, z>>) = 3
           /\ <<x, y, z>>[1] = x /\ <<x, y, z>>[2] = y /\ <<x, y, z>>[3] = z
  OBVIOUS

AppendsThree(a, b, c, x, y, z) ==
  AppendFields(<<a, b, c>>, <<x, y, z>>) = AppendSimple(a, x) \o AppendSimple(b, y) \o AppendSimple(c, z)

LEMMA FieldsOfThree ==
    ASSUME NEW a \in Simple, NEW b \in Simple, NEW c \in Simple,
           NEW x \in SimpleValues(a) \cap Basic, NEW y \in SimpleValues(b) \cap Basic,
           NEW z \in SimpleValues(c) \cap Basic
    PROVE  /\ <<a, b, c>> \in Seq(Simple)
           /\ <<x, y, z>> \in Structs(<<a, b, c>>)
           /\ AppendsThree(a, b, c, x, y, z)
  <1> DEFINE types == <<a, b, c>>
             values == <<x, y, z>>
             parts == [i \in 1 .. 3 |-> AppendSimple(types[i], values[i])]
  <1>1. types \in Seq(Simple) /\ values \in Seq(Basic)
    OBVIOUS
  <1>2. /\ Len(types) = 3 /\ types[1] = a /\ types[2] = b /\ types[3] = c
        /\ Len(values) = 3 /\ values[1] = x /\ values[2] = y /\ values[3] = z
    BY Three
  <1> HIDE DEF types, values
  <1>3. values \in Structs(types)
    <2>1. \A i \in 1 .. 3 : i = 1 \/ i = 2 \/ i = 3
      OBVIOUS
    <2>2. \A i \in 1 .. 3 : values[i] \in SimpleValues(types[i])
      BY <1>2, <2>1
    <2> QED
      BY <1>1, <1>2, <2>2 DEF Structs
  <1>4. parts = <<AppendSimple(a, x), AppendSimple(b, y), AppendSimple(c, z)>>
    <2> DEFINE s(i) == AppendSimple(types[i], values[i])
    <2>1. [i \in 1 .. 3 |-> s(i)] = <<s(1), s(2), s(3)>>
      <3> HIDE DEF s
      <3> QED
        OBVIOUS
    <2> QED
      BY <1>2, <2>1
  <1>5. AppendSimple(a, x) \in Body /\ AppendSimple(b, y) \in Body /\ AppendSimple(c, z) \in Body
    BY SimpleArrives, FillNothing
  <1>6. AppendFields(types, values) = FlattenSeq(parts)
    BY <1>2 DEF AppendFields
  <1> HIDE DEF parts
  <1>7. AppendFields(types, values) = AppendSimple(a, x) \o AppendSimple(b, y) \o AppendSimple(c, z)
    BY <1>4, <1>5, <1>6, FlattenThree
  <1> QED
    BY <1>1, <1>3, <1>7 DEF types, values, AppendsThree

(* Arrays of plugins.                                                      *)
Plugin(p) == AppendUInt64(p[1]) \o AppendString(p[2]) \o AppendString(p[3])

LEMMA PluginFields ==
    ASSUME NEW p \in Nat \X Nat \X Nat
    PROVE  /\ p \in Structs(<<"t", "s", "s">>)
           /\ AppendFields(<<"t", "s", "s">>, p) = Plugin(p)
  <1>1. "t" \in Simple /\ "s" \in Simple
    BY DEF Simple
  <1>2. SimpleValues("t") = Nat /\ SimpleValues("s") = Nat /\ Nat \subseteq Basic
    BY DEF SimpleValues, Values, Basic
  <1>3. p = <<p[1], p[2], p[3]>> /\ p[1] \in Nat /\ p[2] \in Nat /\ p[3] \in Nat
    OBVIOUS
  <1>4. /\ <<p[1], p[2], p[3]>> \in Structs(<<"t", "s", "s">>)
        /\ AppendsThree("t", "s", "s", p[1], p[2], p[3])
    <2>1. p[1] \in SimpleValues("t") \cap Basic /\ p[2] \in SimpleValues("s") \cap Basic
          /\ p[3] \in SimpleValues("s") \cap Basic
      BY <1>2, <1>3
    <2> QED
      BY <1>1, <2>1, FieldsOfThree
  <1>5. /\ AppendSimple("t", p[1]) = AppendUInt64(p[1])
        /\ AppendSimple("s", p[2]) = AppendString(p[2]) /\ AppendSimple("s", p[3]) = AppendString(p[3])
    BY DEF AppendSimple, AppendArgument
  <1> QED
    BY <1>3, <1>4, <1>5 DEF Plugin, AppendsThree

LEMMA LCDPPArrayArrives ==
    ASSUME NEW a \in Values("aP"), NEW left \in Args
    PROVE  /\ AppendLCDPPArray(a) \in Body
           /\ NextLCDPPArray(After(AppendLCDPPArray(a), left)) = Got(a, left)
  <1> DEFINE fields == <<"t", "s", "s">>
             body == AppendStructs(fields, a)
             rest == After(body, left)
  <1>1. fields \in Seq(Simple)
    BY DEF Simple
  <1>2. a \in Seq(Nat \X Nat \X Nat)
    BY DEF Values
  <1>3. /\ Len(a) \in Nat /\ DOMAIN a = 1 .. Len(a)
        /\ \A i \in 1 .. Len(a) : a[i] \in Structs(fields) /\ AppendFields(fields, a[i]) = Plugin(a[i])
    BY <1>2, LenProperties, PluginFields
  <1> HIDE DEF fields
  <1>4. a \in Seq(Structs(fields))
    <2>1. a \in [1 .. Len(a) -> Structs(fields)]
      BY <1>2, <1>3, LenProperties
    <2> QED
      BY <1>3, <2>1, SeqDef
  <1>5. body = Each(Plugin, a)
    BY <1>3 DEF AppendStructs, Each
  <1>6. body \in Body /\ NextStructs(fields, Len(a), rest) = Got(a, left)
    BY <1>1, <1>4, StructsArrive
  <1> HIDE DEF body
  <1>7. rest \in Args
    BY <1>6, AfterType
  <1>8. AppendUInt64(Len(a)) \in Body /\ NextUInt64(After(AppendUInt64(Len(a)), rest)) = Got(Len(a), rest)
    BY <1>3, <1>7, UInt64Arrives
  <1>9. /\ AppendUInt64(Len(a)) \o body \in Body
        /\ After(AppendUInt64(Len(a)) \o body, left) = After(AppendUInt64(Len(a)), rest)
    BY <1>6, <1>8, AfterConcat
  <1>10. AppendLCDPPArray(a) = AppendUInt64(Len(a)) \o body
    BY <1>5 DEF AppendLCDPPArray, Plugin, Each
  <1> HIDE DEF rest
  <1> QED
    BY <1>6, <1>8, <1>9, <1>10, GotFacts DEF NextLCDPPArray, fields

(* The dependencies of a binary: structures of three strings.              *)
Dependency(d) == Each(AppendString, d)

Binary(b) == AppendUInt8(b[1]) \o AppendUInt64(Len(b[2])) \o Each(Dependency, b[2])

LEMMA DependencyFields ==
    ASSUME NEW d \in Nat \X Nat \X Nat
    PROVE  /\ d \in Structs(<<"s", "s", "s">>)
           /\ AppendFields(<<"s", "s", "s">>, d) = Dependency(d)
  <1>1. "s" \in Simple
    BY DEF Simple
  <1>2. SimpleValues("s") = Nat /\ Nat \subseteq Basic
    BY DEF SimpleValues, Values, Basic
  <1>3. d = <<d[1], d[2], d[3]>> /\ d[1] \in Nat /\ d[2] \in Nat /\ d[3] \in Nat /\ DOMAIN d = 1 .. 3
    OBVIOUS
  <1>4. <<d[1], d[2], d[3]>> \in Structs(<<"s", "s", "s">>)
    <2>1. d[1] \in SimpleValues("s") \cap Basic /\ d[2] \in SimpleValues("s") \cap Basic
          /\ d[3] \in SimpleValues("s") \cap Basic
      BY <1>2, <1>3
    <2> QED
      BY <1>1, <2>1, FieldsOfThree
  <1> DEFINE types == <<"s", "s", "s">>
  <1>5. Len(types) = 3 /\ \A i \in 1 .. 3 : types[i] = "s"
    OBVIOUS
  <1> HIDE DEF types
  <1>6. \A i \in 1 .. 3 : AppendSimple(types[i], d[i]) = AppendString(d[i])
    BY <1>5 DEF AppendSimple, AppendArgument
  <1>7. AppendFields(types, d) = Dependency(d)
    BY <1>3, <1>5, <1>6 DEF AppendFields, Dependency, Each
  <1> QED
    BY <1>3, <1>4, <1>7 DEF types

LEMMA DependenciesArrive ==
    ASSUME NEW a \in Seq(Nat \X Nat \X Nat), NEW left \in Args
    PROVE  /\ Each(Dependency, a) \in Body
           /\ NextStructs(<<"s", "s", "s">>, Len(a), After(Each(Dependency, a), left)) = Got(a, left)
  <1> DEFINE fields == <<"s", "s", "s">>
  <1>1. fields \in Seq(Simple)
    BY DEF Simple
  <1>2. /\ Len(a) \in Nat /\ DOMAIN a = 1 .. Len(a)
        /\ \A i \in 1 .. Len(a) : a[i] \in Structs(fields) /\ AppendFields(fields, a[i]) = Dependency(a[i])
    BY LenProperties, DependencyFields
  <1> HIDE DEF fields
  <1>3. a \in Seq(Structs(fields))
    <2>1. a \in [1 .. Len(a) -> Structs(fields)]
      BY <1>2, LenProperties
    <2> QED
      BY <1>2, <2>1, SeqDef
  <1>4. AppendStructs(fields, a) = Each(Dependency, a)
    BY <1>2 DEF AppendStructs, Each
  <1>5. /\ AppendStructs(fields, a) \in Body
        /\ NextStructs(fields, Len(a), After(AppendStructs(fields, a), left)) = Got(a, left)
    BY <1>1, <1>3, StructsArrive
  <1> QED
    BY <1>4, <1>5 DEF fields

Binaries == (GK_INVALID + 1 .. GK_GUI_QT) \X Seq(Nat \X Nat \X Nat)

LEMMA BinaryArrives ==
    ASSUME NEW b \in Binaries, NEW left \in Args
    PROVE  Binary(b) \in Body /\ NextGKBinaryDeps(After(Binary(b), left)) = Got(b, left)
  <1> DEFINE body == Each(Dependency, b[2])
             rest == After(body, left)
             head == <<b[1], Len(b[2])>>
             types == <<"B", "t">>
             first == AppendUInt8(b[1]) \o AppendUInt64(Len(b[2]))
             parts == [i \in 1 .. 2 |-> AppendSimple(types[i], head[i])]
  <1>1. b = <<b[1], b[2]>> /\ b[1] \in GK_INVALID + 1 .. GK_GUI_QT /\ b[2] \in Seq(Nat \X Nat \X Nat)
    BY DEF Binaries
  <1>2. body \in Body /\ NextStructs(<<"s", "s", "s">>, Len(b[2]), rest) = Got(b[2], left)
    BY <1>1, DependenciesArrive
  <1> HIDE DEF body
  <1>3. rest \in Args
    BY <1>2, AfterType
  <1>4. Len(b[2]) \in Nat
    BY <1>1, LenProperties
  <1>5. /\ "B" \in Simple /\ "t" \in Simple /\ b[1] \in SimpleValues("B") /\ SimpleValues("t") = Nat
        /\ b[1] \in Basic /\ Len(b[2]) \in Basic /\ b[1] \in Bytes
    BY <1>1, <1>4 DEF Simple, SimpleValues, Values, Basic, Bytes, GK_INVALID, GK_GUI_QT, UINT8_MAX
  <1>6. /\ Len(types) = 2 /\ types[1] = "B" /\ types[2] = "t" /\ types \in Seq(Simple)
        /\ Len(head) = 2 /\ head[1] = b[1] /\ head[2] = Len(b[2]) /\ head \in Seq(Basic)
    BY <1>5
  <1> HIDE DEF types, head
  <1>7. head \in Structs(types)
    <2>1. \A i \in 1 .. 2 : i = 1 \/ i = 2
      OBVIOUS
    <2>2. \A i \in 1 .. 2 : head[i] \in SimpleValues(types[i])
      BY <1>4, <1>5, <1>6, <2>1
    <2> QED
      BY <1>6, <2>2 DEF Structs
  <1>8. AppendFields(types, head) = first
    <2>1. AppendSimple("B", b[1]) = AppendUInt8(b[1]) /\ AppendSimple("t", Len(b[2])) = AppendUInt64(Len(b[2]))
      BY DEF AppendSimple, AppendArgument
    <2>2. AppendUInt8(b[1]) \in Body /\ AppendUInt64(Len(b[2])) \in Body
      BY <1>3, <1>4, <1>5, ByteArrives, UInt64Arrives
    <2> DEFINE s(i) == AppendSimple(types[i], head[i])
    <2>3. [i \in 1 .. 2 |-> s(i)] = <<s(1), s(2)>>
      <3> HIDE DEF s
      <3> QED
        OBVIOUS
    <2>4. parts = <<AppendUInt8(b[1]), AppendUInt64(Len(b[2]))>>
      BY <1>6, <2>1, <2>3
    <2>5. AppendFields(types, head) = FlattenSeq(parts)
      BY <1>6 DEF AppendFields
    <2> HIDE DEF parts
    <2> QED
      BY <2>2, <2>4, <2>5, FlattenTwo
  <1>9. first \in Body /\ NextFields(types, After(first, rest)) = Got(head, rest)
    <2>1. /\ AppendFields(types, head) \in Body
          /\ NextFields(types, After(AppendFields(types, head), rest)) = Got(head, rest)
      BY <1>3, <1>6, <1>7, FieldsArrive
    <2> QED
      BY <1>8, <2>1
  <1>10. Binary(b) = first \o body
    BY DEF Binary, body
  <1> HIDE DEF first
  <1>11. first \o body \in Body /\ After(first \o body, left) = After(first, rest)
    BY <1>2, <1>9, AfterConcat
  <1> HIDE DEF rest
  <1>12. NextGKBinaryDeps(After(first, rest)) = Got(<<b[1], b[2]>>, left)
    <2>1. NextFields(<<"B", "t">>, After(first, rest)) = Got(head, rest)
      BY <1>9 DEF types
    <2> DEFINE h == NextFields(<<"B", "t">>, After(first, rest))
               deps == NextStructs(<<"s", "s", "s">>, h.value[2], h.rest)
    <2>2. NextGKBinaryDeps(After(first, rest))
            = IF h = Failure \/ deps = Failure THEN Failure ELSE Got(<<h.value[1], deps.value>>, deps.rest)
      BY DEF NextGKBinaryDeps
    <2>3. h # Failure /\ h.value = head /\ h.rest = rest
      BY <2>1, GotFacts
    <2> HIDE DEF h
    <2>4. deps = Got(b[2], left)
      BY <1>2, <1>6, <2>3
    <2>5. deps # Failure /\ deps.value = b[2] /\ deps.rest = left
      BY <2>4, GotFacts
    <2> HIDE DEF deps
    <2> QED
      BY <1>6, <2>2, <2>3, <2>5
  <1> QED
    BY <1>1, <1>10, <1>11, <1>12

LEMMA GKDepsMapArrives ==
    ASSUME NEW deps \in Values("D"), NEW left \in Args
    PROVE  /\ AppendGKDepsMap(deps) \in Body
           /\ NextGKDepsMap(After(AppendGKDepsMap(deps), left)) = Got(deps, left)
  <1> DEFINE n == Len(deps)
             parts == [i \in 1 .. n |-> Binary(deps[i])]
             body == FlattenSeq(parts)
  <1>1. deps \in Seq(Binaries)
    BY DEF Values, Binaries
  <1>2. n \in Nat /\ DOMAIN deps = 1 .. n /\ \A i \in 1 .. n : deps[i] \in Binaries
    BY <1>1, LenProperties
  <1>3. \A i \in 1 .. n : parts[i] \in Body
    BY <1>2, BinaryArrives, FillNothing
  <1>4. parts \in Seq(Body) /\ Len(parts) = n
    <2>1. parts \in [1 .. n -> Body]
      BY <1>3
    <2> HIDE DEF parts, n
    <2>2. parts \in Seq(Body)
      BY <1>2, <2>1, SeqDef
    <2> QED
      BY <1>2, <2>1, <2>2, LenProperties
  <1>5. AppendGKDepsMap(deps) = AppendUInt64(n) \o body
    BY <1>2 DEF AppendGKDepsMap, Each, Binary, Dependency
  <1>6. \A i \in 1 .. n : parts[i] = Binary(deps[i])
    OBVIOUS
  <1> HIDE DEF parts, n
  <1>7. PICK rest : rest \in [0 .. n -> Args] /\ Leaves(rest, parts, left)
    BY <1>4, Traces
  <1>8. ASSUME NEW i \in 1 .. n PROVE NextGKBinaryDeps(rest[i - 1]) = Got(deps[i], rest[i])
    <2>1. rest[i] \in Args
      <3>1. i \in 0 .. n
        BY <1>2
      <3> QED
        BY <1>7, <3>1
    <2>2. rest[i - 1] = After(Binary(deps[i]), rest[i])
      BY <1>4, <1>6, <1>7 DEF Leaves
    <2> QED
      BY <1>2, <2>1, <2>2, BinaryArrives
  <1>9. NextGKBinaries(n, rest[0]) = Got(Prefix(deps, n), rest[n])
    BY <1>2, <1>8, BinariesInTurn
  <1>10. rest[0] = After(body, left) /\ rest[n] = left
    BY <1>4, <1>7 DEF Leaves
  <1>11. Prefix(deps, n) = deps
    BY <1>1, PrefixAll DEF n
  <1>12. body \in Body
    BY <1>4, Traces
  <1> HIDE DEF body
  <1>13. After(body, left) \in Args
    BY <1>12, AfterType
  <1>14. /\ AppendUInt64(n) \in Body
         /\ NextUInt64(After(AppendUInt64(n), After(body, left))) = Got(n, After(body, left))
    BY <1>2, <1>13, UInt64Arrives
  <1>15. /\ AppendUInt64(n) \o body \in Body
         /\ After(AppendUInt64(n) \o body, left) = After(AppendUInt64(n), After(body, left))
    BY <1>12, <1>14, AfterConcat
  <1>16. NextGKBinaries(n, After(body, left)) = Got(deps, left)
    BY <1>9, <1>10, <1>11
  <1> QED
    BY <1>5, <1>14, <1>15, <1>16, GotFacts DEF NextGKDepsMap

(* Each element gives one item.                                            *)
LEMMA FlattenSingles ==
    ASSUME NEW S, NEW s \in Seq(S)
    PROVE  FlattenSeq([i \in 1 .. Len(s) |-> <<s[i]>>]) = s
  <1> DEFINE n == Len(s)
             seqs == [i \in 1 .. n |-> <<s[i]>>]
             g == [i \in 0 .. n |-> Prefix(s, i)]
  <1>1. n \in Nat /\ \A i \in 1 .. n : s[i] \in S
    BY LenProperties
  <1>2. seqs \in Seq(Seq(S)) /\ Len(seqs) = n
    <2>1. seqs \in [1 .. n -> Seq(S)]
      BY <1>1
    <2> HIDE DEF seqs, n
    <2>2. seqs \in Seq(Seq(S))
      BY <1>1, <2>1, SeqDef
    <2> QED
      BY <1>1, <2>1, <2>2, LenProperties
  <1>3. \A i \in 1 .. n : seqs[i] = <<s[i]>>
    OBVIOUS
  <1> HIDE DEF seqs, n
  <1>4. PICK flat : flat \in [0 .. n -> Seq(S)] /\ Flattens(flat, n, seqs)
    BY <1>2, FlattenLoop
  <1>5. flat[0] = g[0]
    BY <1>1, <1>4 DEF Flattens, Prefix
  <1>6. ASSUME NEW i \in 1 .. n, flat[i - 1] = g[i - 1] PROVE flat[i] = g[i]
    <2>1. g[i] = Prefix(s, i) /\ g[i - 1] = Prefix(s, i - 1) /\ i - 1 \in 0 .. n /\ i - 1 \in Nat
      BY <1>1
    <2> HIDE DEF g
    <2>2. flat[i] = flat[i - 1] \o <<s[i]>>
      BY <1>3, <1>4 DEF Flattens
    <2>3. flat[i - 1] \in Seq(S)
      BY <1>4, <2>1
    <2>4. flat[i] = Append(flat[i - 1], s[i])
      BY <1>1, <2>2, <2>3
    <2>5. Append(Prefix(s, i - 1), s[i]) = Prefix(s, i)
      BY <1>1, PrefixAppend
    <2> QED
      BY <1>6, <2>1, <2>4, <2>5
  <1>7. g[n] = Prefix(s, n) /\ n \in 0 .. n
    BY <1>1
  <1> HIDE DEF g
  <1>8. flat[n] = g[n]
    <2>1. \A i \in 1 .. n : flat[i - 1] = g[i - 1] => flat[i] = g[i]
      BY <1>6
    <2>2. n \in Nat
      BY <1>1
    <2>same. SameSteps(flat, g, n)
      BY <2>1, <1>5 DEF SameSteps
    <2>3. \A i \in 0 .. n : flat[i] = g[i]
      BY ONLY <2>2, <2>same, SameLoop
    <2> QED
      BY <1>7, <2>3
  <1>9. Prefix(s, n) = s
    BY PrefixAll DEF n
  <1> QED
    BY <1>4, <1>7, <1>8, <1>9 DEF Flattens, seqs, n

(* Strings that are not empty are one item each, and are taken at once.    *)
LEMMA StringArrayArrives ==
    ASSUME NEW a \in Values("as")
    PROVE  /\ AppendStringArray(a) \in Body
           /\ \E left : NextStringArray(After(AppendStringArray(a), Nothing)) = Got(a, left)
  <1> DEFINE n == Len(a)
             items == [i \in 1 .. n |-> [type |-> "string", value |-> a[i]]]
             args == After(items, Nothing)
             full == After(AppendUInt64(n), args)
  <1>1. a \in Seq(Nat \ {0})
    BY DEF Values
  <1>2. n \in Nat /\ DOMAIN a = 1 .. n /\ \A i \in 1 .. n : a[i] \in Nat /\ a[i] # 0
    BY <1>1, LenProperties
  <1>3. \A i \in 1 .. n : items[i] \in BodyItem /\ items[i] = [type |-> "string", value |-> a[i]]
    BY <1>2 DEF BodyItem
  <1>4. items \in Body /\ Len(items) = n
    <2>1. items \in [1 .. n -> BodyItem]
      BY <1>3
    <2> HIDE DEF items, n
    <2>2. items \in Seq(BodyItem)
      BY <1>2, <2>1, SeqDef
    <2> QED
      BY <1>2, <2>1, <2>2, LenProperties DEF Body
  <1> HIDE DEF items, n
  <1>5. Each(AppendString, a) = items
    <2>1. \A i \in 1 .. n : AppendString(a[i]) = <<items[i]>>
      BY <1>2, <1>3 DEF AppendString, Item
    <2>2. Each(AppendString, a) = FlattenSeq([i \in 1 .. Len(items) |-> <<items[i]>>])
      BY <1>2, <1>4, <2>1 DEF Each
    <2> QED
      BY <1>4, <2>2, FlattenSingles DEF Body
  <1>6. Decoded(items, {"string"}) = a
    <2>1. ValuesIn(items, {"string"}) = [i \in 1 .. n |-> <<a[i]>>]
      BY <1>3, <1>4 DEF ValuesIn, ValueOf
    <2>2. Decoded(items, {"string"}) = FlattenSeq([i \in 1 .. n |-> <<a[i]>>])
      BY <1>4, <2>1, DecodedType
    <2> QED
      BY <1>1, <2>2, FlattenSingles DEF n
  <1>7. args \in Args /\ args["string"] = a
    <2>1. args = FillInArguments(items)
      BY <1>4, FillFacts, FillNothing DEF After
    <2>2. "string" \in Queues /\ Kinds("string") = {"string"}
      BY DEF Queues, Kinds
    <2> QED
      BY <1>4, <1>6, <2>1, <2>2, FillFacts
  <1>8. AppendUInt64(n) \in Body /\ NextUInt64(full) = Got(n, args)
    <2> HIDE DEF args
    <2> QED
      BY <1>2, <1>7, UInt64Arrives
  <1>9. AppendStringArray(a) = AppendUInt64(n) \o items
    BY <1>5 DEF AppendStringArray, n
  <1>10. AppendUInt64(n) \o items \in Body /\ After(AppendUInt64(n) \o items, Nothing) = full
    BY <1>4, <1>8, AfterConcat, FillNothing
  <1> HIDE DEF full, args
  <1>11. SubSeq(a, 1, n) = a
    BY <1>1 DEF n
  <1> DEFINE left == [args EXCEPT !["string"] = SubSeq(@, n + 1, Len(@))]
  <1>12. NextStringArray(full) = Got(a, left)
    <2>1. NextUInt64(full) # Failure /\ NextUInt64(full).value = n /\ NextUInt64(full).rest = args
      BY <1>8, GotFacts
    <2>2. ~(n > Len(a))
      BY <1>2 DEF n
    <2> QED
      BY <1>7, <1>11, <2>1, <2>2 DEF NextStringArray
  <1> QED
    BY <1>9, <1>10, <1>12

(* A macro has two bytes per event, and is read until none is left.        *)
KeyEvent(e) == AppendUInt8(e[1]) \o AppendUInt8(e[2]) \o AppendUInt16(e[3])

KeyEvents == Bytes \X (0 .. EVENT_KEY_UNKNOWN) \X (0 .. UINT16_MAX)

LEMMA KeyEventFields ==
    ASSUME NEW e \in KeyEvents
    PROVE  /\ e \in Structs(<<"y", "e", "q">>)
           /\ AppendFields(<<"y", "e", "q">>, e) = KeyEvent(e)
  <1>1. "y" \in Simple /\ "e" \in Simple /\ "q" \in Simple
    BY DEF Simple
  <1>2. SimpleValues("y") = Bytes /\ SimpleValues("e") = 0 .. EVENT_KEY_UNKNOWN /\ SimpleValues("q") = 0 .. UINT16_MAX
    BY DEF SimpleValues, Values
  <1>3. /\ e = <<e[1], e[2], e[3]>>
        /\ e[1] \in Bytes /\ e[2] \in 0 .. EVENT_KEY_UNKNOWN /\ e[3] \in 0 .. UINT16_MAX
    BY DEF KeyEvents
  <1>4. e[1] \in Basic /\ e[2] \in Basic /\ e[3] \in Basic
    BY <1>3 DEF Basic, Bytes
  <1>5. /\ <<e[1], e[2], e[3]>> \in Structs(<<"y", "e", "q">>)
        /\ AppendsThree("y", "e", "q", e[1], e[2], e[3])
    <2>1. e[1] \in SimpleValues("y") \cap Basic /\ e[2] \in SimpleValues("e") \cap Basic
          /\ e[3] \in SimpleValues("q") \cap Basic
      BY <1>2, <1>3, <1>4
    <2> QED
      BY <1>1, <2>1, FieldsOfThree
  <1>6. /\ AppendSimple("y", e[1]) = AppendUInt8(e[1])
        /\ AppendSimple("e", e[2]) = AppendUInt8(e[2]) /\ AppendSimple("q", e[3]) = AppendUInt16(e[3])
    BY DEF AppendSimple, AppendArgument
  <1> QED
    BY <1>3, <1>5, <1>6 DEF KeyEvent, AppendsThree

LEMMA KeyEventBytes ==
    ASSUME NEW e \in KeyEvents, NEW left \in Args
    PROVE  KeyEvent(e) \in Body /\ Len(After(KeyEvent(e), left)["byte"]) = Len(left["byte"]) + 2
  <1> DEFINE a == AppendUInt8(e[1])
             b == AppendUInt8(e[2])
             c == AppendUInt16(e[3])
  <1>1. e[1] \in Bytes /\ e[2] \in Bytes /\ e[3] \in 0 .. UINT16_MAX
    BY DEF KeyEvents, Bytes, EVENT_KEY_UNKNOWN, UINT8_MAX
  <1>2. "byte" \in Queues /\ "byte" \in Kinds("byte") /\ "uint16" \notin Kinds("byte")
    BY DEF Queues, Kinds
  <1>3. ASSUME NEW v \in Bytes, NEW r \in Args
        PROVE  /\ AppendUInt8(v) \in Body /\ After(AppendUInt8(v), r) \in Args
               /\ Len(After(AppendUInt8(v), r)["byte"]) = Len(r["byte"]) + 1
    <2>1. v % (UINT8_MAX + 1) = v /\ v \in Nat
      <3>1. UINT8_MAX \in Nat
        BY Limits
      <3> QED
        BY <3>1, Modulo DEF Bytes
    <2>2. [type |-> "byte", value |-> v] \in BodyItem
      BY <2>1 DEF BodyItem
    <2>3. /\ AppendUInt8(v) \in Body /\ After(AppendUInt8(v), r) \in Args
          /\ After(AppendUInt8(v), r)["byte"] = <<v>> \o r["byte"]
      <3>1. /\ Item("byte", v) \in Body /\ Join(FillInArguments(Item("byte", v)), r) \in Args
            /\ \A queue \in Queues :
                 Join(FillInArguments(Item("byte", v)), r)[queue]
                   = IF "byte" \in Kinds(queue) THEN <<v>> \o r[queue] ELSE r[queue]
        BY <2>2, JoinItem
      <3>2. AppendUInt8(v) = Item("byte", v)
        BY <2>1 DEF AppendUInt8
      <3> QED
        BY <1>2, <3>1, <3>2 DEF After
    <2>4. <<v>> \in Seq(Basic) /\ r["byte"] \in Seq(Basic) /\ Len(<<v>>) = 1
      BY <1>2, <2>1 DEF Args, Basic
    <2>5. Len(<<v>> \o r["byte"]) = 1 + Len(r["byte"]) /\ Len(r["byte"]) \in Nat
      BY <2>4, ConcatProperties, LenProperties
    <2> QED
      BY <2>3, <2>5
  <1>4. c \in Body /\ After(c, left) \in Args /\ After(c, left)["byte"] = left["byte"]
    <2>1. e[3] % (UINT16_MAX + 1) = e[3] /\ e[3] \in Nat
      <3>1. UINT16_MAX \in Nat
        BY Limits
      <3> QED
        BY <1>1, <3>1, Modulo
    <2>2. [type |-> "uint16", value |-> e[3]] \in BodyItem
      BY <2>1 DEF BodyItem
    <2>3. /\ Item("uint16", e[3]) \in Body /\ Join(FillInArguments(Item("uint16", e[3])), left) \in Args
          /\ \A queue \in Queues :
               Join(FillInArguments(Item("uint16", e[3])), left)[queue]
                 = IF "uint16" \in Kinds(queue) THEN <<e[3]>> \o left[queue] ELSE left[queue]
      BY <2>2, JoinItem
    <2>4. c = Item("uint16", e[3])
      BY <2>1 DEF AppendUInt16
    <2> QED
      BY <1>2, <2>3, <2>4 DEF After
  <1>5. a \in Body /\ b \in Body
    BY <1>1, <1>3
  <1>6. /\ KeyEvent(e) = (a \o b) \o c
        /\ (a \o b) \o c \in Body
        /\ After((a \o b) \o c, left) = After(a \o b, After(c, left))
        /\ After(a \o b, After(c, left)) = After(a, After(b, After(c, left)))
    <2>1. KeyEvent(e) = (a \o b) \o c
      BY DEF KeyEvent
    <2> HIDE DEF a, b, c
    <2>2. a \o b \in Body
      BY <1>4, <1>5, AfterConcat
    <2> QED
      BY <1>4, <1>5, <2>1, <2>2, AfterConcat
  <1>7. After(b, After(c, left)) \in Args /\ Len(After(b, After(c, left))["byte"]) = Len(left["byte"]) + 1
    <2> HIDE DEF c
    <2> QED
      BY <1>1, <1>3, <1>4
  <1>8. Len(After(a, After(b, After(c, left)))["byte"]) = Len(After(b, After(c, left))["byte"]) + 1
    <2> HIDE DEF b, c
    <2> QED
      BY <1>1, <1>3, <1>7
  <1>9. left["byte"] \in Seq(Basic) /\ Len(left["byte"]) \in Nat
    BY <1>2, LenProperties DEF Args
  <1> HIDE DEF a, b, c
  <1> QED
    BY <1>6, <1>7, <1>8, <1>9

LEMMA MacroArrives ==
    ASSUME NEW macro \in Values("M")
    PROVE  /\ AppendMacro(macro) \in Body
           /\ NextMacro(After(AppendMacro(macro), Nothing)) = Got(macro, Nothing)
  <1> DEFINE fields == <<"y", "e", "q">>
             n == Len(macro)
             parts == [i \in 1 .. n |-> KeyEvent(macro[i])]
             body == FlattenSeq(parts)
             args == After(body, Nothing)
  <1>0. Nothing \in Args /\ Nothing["byte"] = <<>> /\ "byte" \in Queues
    BY FillNothing DEF Queues
  <1>1. fields \in Seq(Simple)
    BY DEF Simple
  <1>2. macro \in Seq(KeyEvents) /\ macro # <<>>
    BY DEF Values, KeyEvents
  <1>3. /\ n \in Nat /\ n # 0 /\ DOMAIN macro = 1 .. n
        /\ \A i \in 1 .. n : macro[i] \in KeyEvents
        /\ \A i \in 1 .. n : macro[i] \in Structs(fields) /\ AppendFields(fields, macro[i]) = KeyEvent(macro[i])
    BY <1>2, LenProperties, EmptySeq, KeyEventFields
  <1> HIDE DEF fields
  <1>4. macro \in Seq(Structs(fields))
    <2>1. macro \in [1 .. n -> Structs(fields)]
      BY <1>2, <1>3, LenProperties
    <2> QED
      BY <1>3, <2>1, SeqDef
  <1>5. AppendStructs(fields, macro) = body /\ AppendMacro(macro) = body
    BY <1>3 DEF AppendStructs, AppendMacro, Each, KeyEvent
  <1>6. body \in Body /\ NextStructs(fields, n, args) = Got(macro, Nothing)
    <2>1. /\ AppendStructs(fields, macro) \in Body
          /\ NextStructs(fields, n, After(AppendStructs(fields, macro), Nothing)) = Got(macro, Nothing)
      BY <1>0, <1>1, <1>4, StructsArrive
    <2> HIDE DEF body, n
    <2> QED
      BY <1>5, <2>1
  <1>7. Len(args["byte"]) = 2 * n
    <2>1. \A i \in 1 .. n : parts[i] \in Body
      BY <1>0, <1>3, KeyEventBytes
    <2>2. parts \in Seq(Body) /\ Len(parts) = n
      <3>1. parts \in [1 .. n -> Body]
        BY <2>1
      <3> HIDE DEF parts, n
      <3>2. parts \in Seq(Body)
        BY <1>3, <3>1, SeqDef
      <3> QED
        BY <1>3, <3>1, <3>2, LenProperties
    <2>3. \A i \in 1 .. n : parts[i] = KeyEvent(macro[i])
      OBVIOUS
    <2> HIDE DEF parts, n
    <2>4. PICK rest : rest \in [0 .. n -> Args] /\ Leaves(rest, parts, Nothing)
      BY <1>0, <2>2, Traces
    <2> DEFINE f == [i \in 0 .. n |-> Len(rest[n - i]["byte"])]
               g == [i \in 0 .. n |-> 2 * i]
    <2>5. f[0] = g[0]
      <3>1. 0 \in 0 .. n /\ n - 0 = n /\ rest[n] = Nothing
        BY <1>3, <2>2, <2>4 DEF Leaves
      <3>2. Len(<<>>) = 0
        OBVIOUS
      <3> QED
        BY <1>0, <3>1, <3>2
    <2>6. ASSUME NEW i \in 1 .. n, f[i - 1] = g[i - 1] PROVE f[i] = g[i]
      <3> DEFINE j == n - (i - 1)
      <3>1. j \in 1 .. n /\ j \in 0 .. n /\ j - 1 = n - i /\ i \in 0 .. n /\ i - 1 \in 0 .. n
        BY <1>3
      <3> HIDE DEF j
      <3>2. rest[j] \in Args /\ macro[j] \in KeyEvents
        BY <1>3, <2>4, <3>1
      <3>3. rest[j - 1] = After(KeyEvent(macro[j]), rest[j])
        BY <2>2, <2>3, <2>4, <3>1 DEF Leaves
      <3>4. Len(rest[j - 1]["byte"]) = Len(rest[j]["byte"]) + 2
        BY <3>2, <3>3, KeyEventBytes
      <3>5. f[i] = Len(rest[j - 1]["byte"]) /\ f[i - 1] = Len(rest[j]["byte"])
        BY <3>1 DEF j
      <3>6. g[i] = 2 * i /\ g[i - 1] = 2 * (i - 1)
        BY <3>1
      <3> HIDE DEF f, g
      <3>7. f[i] = 2 * (i - 1) + 2
        BY <2>6, <3>4, <3>5, <3>6
      <3> QED
        BY <3>6, <3>7
    <2>7. f[n] = Len(rest[0]["byte"]) /\ g[n] = 2 * n /\ n \in 0 .. n
      <3>1. n \in 0 .. n /\ n - n = 0
        BY <1>3
      <3> QED
        BY <3>1
    <2> HIDE DEF f, g
    <2>8. f[n] = g[n]
      <3>1. \A i \in 1 .. n : f[i - 1] = g[i - 1] => f[i] = g[i]
        BY <2>6
      <3>2. n \in Nat
        BY <1>3
      <3>same. SameSteps(f, g, n)
        BY <3>1, <2>5 DEF SameSteps
      <3>3. \A i \in 0 .. n : f[i] = g[i]
        BY ONLY <3>2, <3>same, SameLoop
      <3> QED
        BY <2>7, <3>3
    <2>9. rest[0] = args
      BY <2>4 DEF Leaves
    <2> QED
      BY <2>7, <2>8, <2>9
  <1> HIDE DEF args, n, body
  <1>8. (Len(args["byte"]) + 1) \div 2 = n /\ Len(args["byte"]) # 0
    BY <1>3, <1>7
  <1>9. NextMacro(args) = NextStructs(fields, n, args)
    BY <1>8 DEF NextMacro, fields
  <1> QED
    BY <1>5, <1>6, <1>9 DEF args

-----------------------------------------------------------------------------
(* All the arguments of a message.                                         *)

(* Types that leave the queues as they found them: the others come last.   *)
Plain == Types \ {"as", "M"}

LEMMA PlainArrives ==
    ASSUME NEW type \in Plain, NEW value \in Values(type), NEW left \in Args
    PROVE  /\ AppendArgument(type, value) \in Body
           /\ NextArgument(type, After(AppendArgument(type, value), left)) = Got(value, left)
  <1>1. CASE type = "aG"
    BY <1>1, GKeysIDArrayArrives DEF AppendArgument, NextArgument
  <1>2. CASE type = "am"
    BY <1>2, MKeysIDArrayArrives DEF AppendArgument, NextArgument
  <1>3. CASE type = "aP"
    BY <1>3, LCDPPArrayArrives DEF AppendArgument, NextArgument
  <1>4. CASE type = "D"
    BY <1>4, GKDepsMapArrives DEF AppendArgument, NextArgument
  <1>5. CASE type \in {"b", "y", "q", "t", "s", "G", "m"}
    <2>1. type \in Simple /\ SimpleValues(type) = Values(type)
      BY <1>5 DEF Simple, SimpleValues
    <2>2. AppendSimple(type, value) = AppendArgument(type, value)
      BY <1>5 DEF AppendSimple
    <2>3. \A args : NextArgument(type, args) = NextSimple(type, args)
      BY <1>5 DEF NextArgument
    <2> QED
      BY <2>1, <2>2, <2>3, SimpleArrives
  <1> QED
    BY <1>1, <1>2, <1>3, <1>4, <1>5 DEF Plain, Types

LEMMA LastArrives ==
    ASSUME NEW type \in Types, NEW value \in Values(type)
    PROVE  /\ AppendArgument(type, value) \in Body
           /\ \E left : NextArgument(type, After(AppendArgument(type, value), Nothing)) = Got(value, left)
  <1>1. CASE type = "as"
    BY <1>1, StringArrayArrives DEF AppendArgument, NextArgument
  <1>2. CASE type = "M"
    BY <1>2, MacroArrives DEF AppendArgument, NextArgument
  <1>3. CASE type \in Plain
    BY <1>3, PlainArrives, FillNothing
  <1> QED
    BY <1>1, <1>2, <1>3 DEF Plain

(* Values of these types.                                                  *)
Fits(types, values) ==
  /\ types \in Seq(Types) /\ values \in Seq(UNION {Values(type) : type \in Types})
  /\ Len(values) = Len(types)
  /\ \A i \in 1 .. Len(types) : values[i] \in Values(types[i])

(* Only the last type is not plain.                                        *)
InOrder(types) == \A i \in 1 .. Len(types) - 1 : types[i] \in Plain

Appends(types, values) == [i \in 1 .. Len(types) |-> AppendArgument(types[i], values[i])]

LEMMA AppendsType ==
    ASSUME NEW types, NEW values, Fits(types, values)
    PROVE  /\ Appends(types, values) \in Seq(Body) /\ Len(Appends(types, values)) = Len(types)
           /\ AppendArguments(types, values) = FlattenSeq(Appends(types, values))
           /\ AppendArguments(types, values) \in Body
  <1> DEFINE n == Len(types)
             parts == Appends(types, values)
  <1>1. /\ n \in Nat /\ DOMAIN values = 1 .. n
        /\ \A i \in 1 .. n : types[i] \in Types /\ values[i] \in Values(types[i])
    BY LenProperties DEF Fits
  <1>2. parts \in [1 .. n -> Body]
    BY <1>1, LastArrives DEF Appends
  <1>3. AppendArguments(types, values) = FlattenSeq(parts)
    BY <1>1 DEF AppendArguments, Appends
  <1> HIDE DEF n, parts
  <1>4. parts \in Seq(Body)
    BY <1>1, <1>2, SeqDef
  <1>5. Len(parts) = n
    BY <1>1, <1>2, <1>4, LenProperties
  <1>6. FlattenSeq(parts) \in Body
    BY <1>4, FillNothing, Traces
  <1> QED
    BY <1>3, <1>4, <1>5, <1>6 DEF n, parts

LEMMA ArgumentsRead ==
    ASSUME NEW types, NEW values, Fits(types, values), InOrder(types)
    PROVE  \E left : NextArguments(types, FillInArguments(AppendArguments(types, values))) = Got(values, left)
  <1> DEFINE n == Len(types)
             parts == Appends(types, values)
             args == FillInArguments(AppendArguments(types, values))
  <1>1. /\ n \in Nat /\ Len(values) = n /\ values \in Seq(UNION {Values(type) : type \in Types})
        /\ \A i \in 1 .. n : types[i] \in Types /\ values[i] \in Values(types[i])
    BY LenProperties DEF Fits
  <1>2. parts \in Seq(Body) /\ Len(parts) = n /\ FlattenSeq(parts) \in Body
        /\ AppendArguments(types, values) = FlattenSeq(parts)
    BY AppendsType
  <1>3. \A i \in 1 .. n : parts[i] = AppendArgument(types[i], values[i])
    BY DEF Appends
  <1>4. \A i \in 1 .. n - 1 : types[i] \in Plain
    BY DEF InOrder
  <1> HIDE DEF parts
  <1>5. args = After(FlattenSeq(parts), Nothing)
    BY <1>2, FillFacts, FillNothing DEF After
  <1> HIDE DEF args, n
  <1>6. PICK rest : rest \in [0 .. n -> Args] /\ Leaves(rest, parts, Nothing)
    BY <1>2, FillNothing, Traces
  <1>7. rest[0] = args /\ rest[n] = Nothing
    BY <1>2, <1>5, <1>6 DEF Leaves
  <1>8. \E last : n # 0 => NextArgument(types[n], rest[n - 1]) = Got(values[n], last)
    <2>1. CASE n # 0
      <3>1. n \in 1 .. n
        BY <1>1, <2>1
      <3>2. rest[n - 1] = After(AppendArgument(types[n], values[n]), Nothing)
        BY <1>2, <1>3, <1>6, <1>7, <3>1 DEF Leaves
      <3> QED
        BY <1>1, <3>1, <3>2, LastArrives
    <2> QED
      BY <2>1
  <1>9. PICK last : n # 0 => NextArgument(types[n], rest[n - 1]) = Got(values[n], last)
    BY <1>8
  <1> DEFINE left == [i \in 0 .. n |-> IF i = n /\ n # 0 THEN last ELSE rest[i]]
  <1>10. ASSUME NEW i \in 1 .. n PROVE NextArgument(types[i], left[i - 1]) = Got(values[i], left[i])
    <2>1. left[i - 1] = rest[i - 1] /\ i \in 0 .. n
      BY <1>1
    <2>2. CASE i = n
      BY <1>9, <2>1, <2>2
    <2>3. CASE i # n
      <3>1. i \in 1 .. n - 1 /\ left[i] = rest[i]
        BY <1>1, <2>1, <2>3
      <3>2. rest[i] \in Args /\ types[i] \in Plain
        BY <1>4, <1>6, <2>1, <3>1
      <3>3. rest[i - 1] = After(AppendArgument(types[i], values[i]), rest[i])
        BY <1>2, <1>3, <1>6 DEF Leaves
      <3> HIDE DEF left
      <3> QED
        BY <1>1, <2>1, <3>1, <3>2, <3>3, PlainArrives
    <2> QED
      BY <2>2, <2>3
  <1>11. left[0] = args
    BY <1>1, <1>7
  <1> HIDE DEF left
  <1>12. NextArguments(types, left[0]) = Got(Prefix(values, n), left[n])
    BY <1>1, <1>10, ArgumentsInTurn DEF n
  <1>13. Prefix(values, n) = values
    BY <1>1, PrefixAll
  <1>14. NextArguments(types, args) = Got(values, left[n])
    BY <1>11, <1>12, <1>13
  <1> QED
    BY <1>14 DEF args

(* The arguments of a callback, then the async ones.                       *)
AppendsBoth(t, v, u, w) ==
  AppendArguments(t \o u, v \o w) = AppendArguments(t, v) \o AppendArguments(u, w)

LEMMA AppendsConcat ==
    ASSUME NEW t, NEW v, Fits(t, v), NEW u, NEW w, Fits(u, w)
    PROVE  Fits(t \o u, v \o w) /\ AppendsBoth(t, v, u, w)
  <1> DEFINE S == UNION {Values(type) : type \in Types}
             m == Len(t)
             n == Len(u)
  <1>1. /\ t \in Seq(Types) /\ v \in Seq(S) /\ Len(v) = m /\ m \in Nat /\ \A i \in 1 .. m : v[i] \in Values(t[i])
        /\ u \in Seq(Types) /\ w \in Seq(S) /\ Len(w) = n /\ n \in Nat /\ \A i \in 1 .. n : w[i] \in Values(u[i])
    BY LenProperties DEF Fits
  <1> HIDE DEF S, m, n
  <1>2. /\ t \o u \in Seq(Types) /\ Len(t \o u) = m + n
        /\ \A i \in 1 .. m + n : (t \o u)[i] = IF i <= m THEN t[i] ELSE u[i - m]
    BY <1>1, ConcatProperties DEF m, n
  <1>3. /\ v \o w \in Seq(S) /\ Len(v \o w) = m + n
        /\ \A i \in 1 .. m + n : (v \o w)[i] = IF i <= m THEN v[i] ELSE w[i - m]
    <2>1. ASSUME NEW x \in Seq(S), NEW y \in Seq(S)
          PROVE  /\ x \o y \in Seq(S) /\ Len(x \o y) = Len(x) + Len(y)
                 /\ \A i \in 1 .. Len(x) + Len(y) : (x \o y)[i] = IF i <= Len(x) THEN x[i] ELSE y[i - Len(x)]
      BY ConcatProperties
    <2>2. Len(v) = m /\ Len(w) = n
      BY <1>1
    <2>3. /\ v \o w \in Seq(S) /\ Len(v \o w) = Len(v) + Len(w)
          /\ \A i \in 1 .. Len(v) + Len(w) : (v \o w)[i] = IF i <= Len(v) THEN v[i] ELSE w[i - Len(v)]
      BY <1>1, <2>1
    <2> QED
      BY <2>2, <2>3
  <1>4. \A i \in 1 .. m + n : i <= m => i \in 1 .. m
    BY <1>1
  <1>5. \A i \in 1 .. m + n : ~(i <= m) => i - m \in 1 .. n
    BY <1>1
  <1>6. \A i \in 1 .. m + n : (v \o w)[i] \in Values((t \o u)[i])
    BY <1>1, <1>2, <1>3, <1>4, <1>5
  <1>7. Fits(t \o u, v \o w)
    BY <1>2, <1>3, <1>6 DEF Fits, S
  <1> DEFINE a == Appends(t, v)
             b == Appends(u, w)
             c == Appends(t \o u, v \o w)
  <1>8. /\ a \in Seq(Body) /\ Len(a) = m /\ b \in Seq(Body) /\ Len(b) = n /\ c \in Seq(Body) /\ Len(c) = m + n
        /\ AppendArguments(t, v) = FlattenSeq(a) /\ AppendArguments(u, w) = FlattenSeq(b)
        /\ AppendArguments(t \o u, v \o w) = FlattenSeq(c)
    BY <1>2, <1>7, AppendsType DEF m, n
  <1>9. /\ \A i \in 1 .. m : a[i] = AppendArgument(t[i], v[i])
        /\ \A i \in 1 .. n : b[i] = AppendArgument(u[i], w[i])
        /\ \A i \in 1 .. m + n : c[i] = AppendArgument((t \o u)[i], (v \o w)[i])
    BY <1>2 DEF Appends, m, n
  <1> HIDE DEF a, b, c
  <1>10. /\ a \o b \in Seq(Body) /\ Len(a \o b) = m + n
         /\ \A i \in 1 .. m + n : (a \o b)[i] = IF i <= m THEN a[i] ELSE b[i - m]
    <2>1. ASSUME NEW x \in Seq(Body), NEW y \in Seq(Body)
          PROVE  /\ x \o y \in Seq(Body) /\ Len(x \o y) = Len(x) + Len(y)
                 /\ \A i \in 1 .. Len(x) + Len(y) : (x \o y)[i] = IF i <= Len(x) THEN x[i] ELSE y[i - Len(x)]
      BY ConcatProperties
    <2>2. Len(a) = m /\ Len(b) = n
      BY <1>8
    <2>3. /\ a \o b \in Seq(Body) /\ Len(a \o b) = Len(a) + Len(b)
          /\ \A i \in 1 .. Len(a) + Len(b) : (a \o b)[i] = IF i <= Len(a) THEN a[i] ELSE b[i - Len(a)]
      BY <1>8, <2>1
    <2> QED
      BY <2>2, <2>3
  <1>11. ASSUME NEW i \in 1 .. m + n PROVE c[i] = (a \o b)[i]
    <2>1. CASE i <= m
      BY <1>2, <1>3, <1>4, <1>9, <1>10, <2>1
    <2>2. CASE ~(i <= m)
      BY <1>2, <1>3, <1>5, <1>9, <1>10, <2>2
    <2> QED
      BY <2>1, <2>2
  <1>12. c = a \o b
    <2>1. Len(c) = Len(a \o b) /\ \A i \in 1 .. Len(c) : c[i] = (a \o b)[i]
      BY <1>8, <1>10, <1>11
    <2> QED
      BY <1>8, <1>10, <2>1, SeqEqual
  <1>13. FlattenSeq(a \o b) = FlattenSeq(a) \o FlattenSeq(b)
    BY <1>8, FlattenConcat DEF Body
  <1> QED
    BY <1>7, <1>8, <1>12, <1>13 DEF AppendsBoth

(* Strings and integers are appended again as they are.                    *)
AsyncBody == Seq([type : {"string", "uint64"}, value : Nat])

LEMMA AsyncAppends ==
    ASSUME NEW types \in Seq({"s", "t"}), NEW values, Fits(types, values)
    PROVE  AppendArguments(types, values) \in AsyncBody
  <1> DEFINE n == Len(types)
             parts == Appends(types, values)
  <1>1. n \in Nat /\ \A i \in 1 .. n : types[i] \in {"s", "t"} /\ values[i] \in Values(types[i])
    BY LenProperties DEF Fits
  <1>2. ASSUME NEW i \in 1 .. n PROVE parts[i] \in AsyncBody
    <2>1. values[i] \in Nat
      BY <1>1 DEF Values
    <2>2. \A type \in {"string", "uint64"} : Item(type, values[i]) \in AsyncBody
      BY <2>1 DEF Item, AsyncBody
    <2>3. AppendArgument(types[i], values[i]) \in AsyncBody
      <3>1. CASE types[i] = "s"
        BY <2>1, <2>2, <3>1 DEF AppendArgument, AppendString, AppendUInt64
      <3>2. CASE types[i] = "t"
        BY <2>1, <2>2, <3>2 DEF AppendArgument, AppendUInt64
      <3> QED
        BY <1>1, <3>1, <3>2
    <2> QED
      BY <2>3 DEF Appends
  <1>3. /\ parts \in Seq(Body) /\ Len(parts) = n
        /\ AppendArguments(types, values) = FlattenSeq(parts)
    BY AppendsType
  <1> HIDE DEF parts, n
  <1>4. parts \in Seq(AsyncBody)
    <2>1. parts \in [1 .. n -> AsyncBody]
      BY <1>2, <1>3, LenProperties
    <2> QED
      BY <1>1, <2>1, SeqDef
  <1> QED
    BY <1>3, <1>4, FlattenType DEF AsyncBody

LEMMA AppendAsyncAgain ==
    ASSUME NEW container \in AsyncBody
    PROVE  AppendAsyncArgs(container) = container /\ container \in Body
  <1>1. /\ Len(container) \in Nat /\ DOMAIN container = 1 .. Len(container)
        /\ \A i \in 1 .. Len(container) : container[i] \in [type : {"string", "uint64"}, value : Nat]
    BY LenProperties DEF AsyncBody
  <1>2. AppendAsyncArgs(container) = FlattenSeq([i \in 1 .. Len(container) |-> <<container[i]>>])
    BY <1>1 DEF AppendAsyncArgs, Each
  <1>3. AppendAsyncArgs(container) = container
    BY <1>2, FlattenSingles DEF AsyncBody
  <1>4. \A item \in [type : {"string", "uint64"}, value : Nat] : item \in BodyItem
    BY DEF BodyItem
  <1>5. container \in Body
    <2>1. container \in [1 .. Len(container) -> BodyItem]
      BY <1>1, <1>4, LenProperties DEF AsyncBody
    <2> QED
      BY <1>1, <2>1, SeqDef DEF Body
  <1> QED
    BY <1>3, <1>5

-----------------------------------------------------------------------------
(* The tuples of values a program sends.                                   *)

LEMMA ArgumentsFit ==
    ASSUME NEW types \in Seq(Types), NEW tuple \in ArgumentsOf(types)
    PROVE  Fits(types, tuple)
  <1> DEFINE S == UNION {Values(type) : type \in Types}
             n == Len(types)
             Longer(shorter, type) == {Append(t, value) : t \in shorter, value \in ValuesOf(type)}
             Def(f) == [i \in 0 .. n |-> IF i = 0 THEN {<<>>} ELSE Longer(f[i - 1], types[i])]
             tuples == CHOOSE f : f = Def(f)
             Good(i) == {t \in Seq(S) : Len(t) = i /\ \A j \in 1 .. i : t[j] \in Values(types[j])}
             step == [x \in (SUBSET Seq(S)) \X (1 .. n) |-> Longer(x[1], types[x[2]])]
  <1>1. n \in Nat /\ \A i \in 1 .. n : types[i] \in Types
    BY LenProperties
  <1>2. \A i \in 1 .. n : ValuesOf(types[i]) \subseteq Values(types[i]) /\ Values(types[i]) \subseteq S
    BY <1>1, ExchangeAssumption
  <1>3. ArgumentsOf(types) = tuples[n]
    BY DEF ArgumentsOf
  <1>4. <<>> \in Seq(S)
    BY EmptySeq
  <1> HIDE DEF S, n
  <1>5. ASSUME NEW i \in 1 .. n, NEW shorter \in SUBSET Seq(S)
        PROVE  Longer(shorter, types[i]) \in SUBSET Seq(S)
    BY <1>2, AppendProperties
  <1>6. step \in [(SUBSET Seq(S)) \X (1 .. n) -> SUBSET Seq(S)]
    <2> HIDE DEF Longer
    <2> QED
      BY <1>5
  <1>7. {<<>>} \in SUBSET Seq(S)
    BY <1>4
  <1>8. \A i \in 1 .. n, x \in SUBSET Seq(S) : step[<<x, i>>] = Longer(x, types[i])
    <2> HIDE DEF Longer
    <2> QED
      OBVIOUS
  <1> HIDE DEF step, Longer
  <1>9. PICK f : f \in [0 .. n -> SUBSET Seq(S)] /\ IsLoop(f, n, {<<>>}, step)
    BY <1>1, <1>6, <1>7, Loop
  <1>10. f[0] = {<<>>} /\ \A i \in 1 .. n : f[i] = Longer(f[i - 1], types[i])
    <2>1. ASSUME NEW i \in 1 .. n PROVE f[i] = Longer(f[i - 1], types[i])
      <3>1. f[i] = step[<<f[i - 1], i>>]
        BY <1>9 DEF IsLoop
      <3>2. i - 1 \in 0 .. n
        BY <1>1
      <3>3. f[i - 1] \in SUBSET Seq(S)
        BY <1>9, <3>2
      <3> QED
        BY <1>8, <3>1, <3>3
    <2> QED
      BY <1>9, <2>1 DEF IsLoop
  <1>11. f = Def(f)
    <2>1. \A i \in 0 .. n : i # 0 => i \in 1 .. n
      BY <1>1
    <2>2. \A i \in 0 .. n : f[i] = IF i = 0 THEN {<<>>} ELSE Longer(f[i - 1], types[i])
      BY <1>10, <2>1
    <2> QED
      BY <1>9, <2>2
  <1>12. tuples = Def(tuples)
    BY <1>11
  <1> HIDE DEF tuples
  <1>13. tuples[0] = {<<>>} /\ \A i \in 1 .. n : tuples[i] = Longer(tuples[i - 1], types[i])
    <2>1. \A i \in 0 .. n : tuples[i] = IF i = 0 THEN {<<>>} ELSE Longer(tuples[i - 1], types[i])
      BY <1>12
    <2>2. 0 \in 0 .. n /\ \A i \in 1 .. n : i \in 0 .. n /\ i # 0
      BY <1>1
    <2> QED
      BY <2>1, <2>2
  <1> DEFINE P == {i \in 0 .. n : tuples[i] \subseteq Good(i)}
  <1>14. 0 \in P
    <2>1. 0 \in 0 .. n /\ Len(<<>>) = 0
      BY <1>1
    <2>2. <<>> \in Good(0)
      BY <1>4, <2>1
    <2> HIDE DEF Good
    <2>3. tuples[0] \subseteq Good(0)
      BY <1>13, <2>2
    <2> QED
      BY <2>1, <2>3
  <1>15. ASSUME NEW i \in 1 .. n, i - 1 \in P PROVE i \in P
    <2>1. i \in 0 .. n /\ tuples[i - 1] \subseteq Good(i - 1)
      BY <1>1, <1>15
    <2>2. ASSUME NEW t \in Good(i - 1), NEW value \in ValuesOf(types[i])
          PROVE  Append(t, value) \in Good(i)
      <3>1. t \in Seq(S) /\ Len(t) = i - 1 /\ value \in S /\ value \in Values(types[i])
        BY <1>2
      <3>2. /\ Append(t, value) \in Seq(S) /\ Len(Append(t, value)) = i
            /\ \A j \in 1 .. i - 1 : Append(t, value)[j] = t[j]
            /\ Append(t, value)[i] = value
        BY <3>1, AppendProperties
      <3>3. \A j \in 1 .. i : j = i \/ j \in 1 .. i - 1
        BY <1>1
      <3> QED
        BY <3>1, <3>2, <3>3
    <2>3. tuples[i] \subseteq Good(i)
      <3> HIDE DEF Good
      <3> SUFFICES ASSUME NEW x \in tuples[i] PROVE x \in Good(i)
        OBVIOUS
      <3>1. PICK t \in tuples[i - 1], value \in ValuesOf(types[i]) : x = Append(t, value)
        BY <1>13 DEF Longer
      <3>2. t \in Good(i - 1)
        BY <2>1
      <3> QED
        BY <2>2, <3>1, <3>2
    <2> HIDE DEF Good
    <2> QED
      BY <2>1, <2>3
  <1>16. tuples[n] \subseteq Good(n)
    <2> HIDE DEF Good
    <2>1. n \in 0 .. n
      BY <1>1
    <2>2. \A i \in P : tuples[i] \subseteq Good(i)
      OBVIOUS
    <2> HIDE DEF P
    <2>3. \A i \in 1 .. n : i - 1 \in P => i \in P
      BY <1>15
    <2>4. \A i \in 0 .. n : i \in P
      BY <1>1, <1>14, <2>3, Induction
    <2> QED
      BY <2>1, <2>2, <2>4
  <1> QED
    BY <1>3, <1>16 DEF Fits, S, n

(* Macros and arrays of strings only come last.                            *)
LEMMA ShortTypes ==
    ASSUME NEW types,
           \/ types = <<>>
           \/ \E a \in Types : types = <<a>>
           \/ \E a \in Plain, b \in Types : types = <<a, b>>
           \/ \E a \in Plain, b \in Plain, c \in Types : types = <<a, b, c>>
           \/ \E a \in Plain, b \in Plain, c \in Plain, d \in Types : types = <<a, b, c, d>>
           \/ \E a \in Plain, b \in Plain, c \in Plain, d \in Plain, e \in Types : types = <<a, b, c, d, e>>
    PROVE  types \in Seq(Types) /\ InOrder(types)
  <1>1. Plain \subseteq Types
    BY DEF Plain
  <1>2. CASE types = <<>>
    BY <1>2 DEF InOrder
  <1>3. ASSUME NEW a \in Types, types = <<a>> PROVE types \in Seq(Types) /\ InOrder(types)
    BY <1>3 DEF InOrder
  <1>4. ASSUME NEW a \in Plain, NEW b \in Types, types = <<a, b>> PROVE types \in Seq(Types) /\ InOrder(types)
    BY <1>1, <1>4 DEF InOrder
  <1>5. ASSUME NEW a \in Plain, NEW b \in Plain, NEW c \in Types, types = <<a, b, c>>
        PROVE  types \in Seq(Types) /\ InOrder(types)
    BY <1>1, <1>5 DEF InOrder
  <1>6. ASSUME NEW a \in Plain, NEW b \in Plain, NEW c \in Plain, NEW d \in Types, types = <<a, b, c, d>>
        PROVE  types \in Seq(Types) /\ InOrder(types)
    BY <1>1, <1>6 DEF InOrder
  <1>7. ASSUME NEW a \in Plain, NEW b \in Plain, NEW c \in Plain, NEW d \in Plain, NEW e \in Types,
               types = <<a, b, c, d, e>>
        PROVE  types \in Seq(Types) /\ InOrder(types)
    BY <1>1, <1>7 DEF InOrder
  <1> QED
    BY <1>2, <1>3, <1>4, <1>5, <1>6, <1>7

LEMMA SentTypes ==
    ASSUME NEW sig \in Methods \cup Signals
    PROVE  sig.in \in Seq(Types) /\ InOrder(sig.in)
  <1>1. /\ {"b", "y", "q", "t", "s", "as", "G", "m", "M"} \subseteq Types
        /\ {"b", "y", "q", "t", "s", "G", "m"} \subseteq Plain
    BY DEF Plain, Types
  <1>2. sig.in \in {<<>>, <<"b">>, <<"q">>, <<"s">>, <<"as">>, <<"s", "s">>, <<"s", "m">>, <<"s", "G">>,
                    <<"s", "G", "M">>, <<"s", "s", "y", "t">>, <<"s", "s", "y", "y", "y">>}
    BY DEF Methods, Signals, Signature, SIGv2v, SIGb2v, SIGq2v, SIGs2v, SIGas2v, SIGss2v, SIGsm2v, SIGsG2v,
           SIGsGM2v, SIGs2b, SIGs2s, SIGs2as, SIGs2D, SIGss2b, SIGss2s, SIGss2aG, SIGss2am, SIGss2aP,
           SIGssyt2b, SIGssyyy2b
  <1> QED
    BY <1>1, <1>2, ShortTypes

LEMMA ReturnedTypes ==
    ASSUME NEW sig \in Methods
    PROVE  sig.out = <<>> \/ \E type \in {"b", "s", "as", "D", "aG", "am", "aP"} : sig.out = <<type>>
  BY DEF Methods, Signature, SIGs2b, SIGs2s, SIGs2as, SIGs2D, SIGss2b, SIGss2s, SIGss2v, SIGss2aG, SIGss2am,
         SIGss2aP, SIGssyt2b, SIGssyyy2b

LEMMA DefaultsFit ==
    ASSUME NEW sig \in Methods
    PROVE  sig.out \in Seq(Types) /\ InOrder(sig.out) /\ Fits(sig.out, Defaults(sig.out))
  <1> DEFINE S == UNION {Values(type) : type \in Types}
  <1>1. CASE sig.out = <<>>
    <2>1. Defaults(<<>>) = <<>>
      BY DEF Defaults
    <2> QED
      BY <1>1, <2>1, ShortTypes DEF Fits
  <1>2. ASSUME NEW type \in {"b", "s", "as", "D", "aG", "am", "aP"}, sig.out = <<type>>
        PROVE  sig.out \in Seq(Types) /\ InOrder(sig.out) /\ Fits(sig.out, Defaults(sig.out))
    <2>1. type \in Types
      BY DEF Types
    <2>2. sig.out \in Seq(Types) /\ InOrder(sig.out)
      BY <1>2, <2>1, ShortTypes
    <2>3. Default(type) \in Values(type)
      <3>1. \A X : <<>> \in Seq(X)
        BY EmptySeq
      <3>2. Len(<<>>) \in Bytes
        BY DEF Bytes, UINT8_MAX
      <3>3. CASE type \in {"b", "s"}
        BY <3>3 DEF Default, Values
      <3>4. CASE type \in {"as", "aP"}
        BY <3>1, <3>4 DEF Default, Values
      <3>5. CASE type = "D"
        <4>1. DOMAIN <<>> = {}
          OBVIOUS
        <4> QED
          BY <3>1, <3>5, <4>1 DEF Default, Values
      <3>6. CASE type \in {"aG", "am"}
        BY <3>1, <3>2, <3>6 DEF Default, Values
      <3> QED
        BY <3>3, <3>4, <3>5, <3>6
    <2>4. Defaults(<<type>>) = <<Default(type)>>
      BY DEF Defaults
    <2>5. Default(type) \in S
      BY <2>1, <2>3
    <2> HIDE DEF S
    <2>6. <<Default(type)>> \in Seq(S) /\ Len(<<Default(type)>>) = 1 /\ <<Default(type)>>[1] = Default(type)
      BY <2>5
    <2>7. <<type>> \in Seq(Types) /\ Len(<<type>>) = 1 /\ <<type>>[1] = type
      BY <2>1
    <2>8. \A i \in 1 .. 1 : i = 1
      OBVIOUS
    <2>9. Fits(<<type>>, <<Default(type)>>)
      BY <2>3, <2>6, <2>7, <2>8 DEF Fits, S
    <2> QED
      BY <1>2, <2>2, <2>4, <2>9
  <1> QED
    BY <1>1, <1>2, ReturnedTypes

(* The values of a callback and its async arguments.                       *)
LEMMA AsyncFit ==
    ASSUME NEW sig \in Methods, NEW call, call.out = sig.out, NEW a \in AsyncOf(call)
    PROVE  /\ a.types \in Seq({"s", "t"}) /\ Fits(a.types, a.values)
           /\ \A value \in ArgumentsOf(call.out) :
                Fits(call.out \o a.types, value \o a.values) /\ InOrder(call.out \o a.types)
  <1>1. call.out \in Seq(Types)
    BY DefaultsFit
  <1>2. {"s", "t"} \subseteq Plain /\ Plain \subseteq Types /\ "b" \in Plain
    BY DEF Types, Plain
  <1>3. CASE call.out \notin {<<>>, <<"b">>}
    <2>1. a.types = <<>> /\ a.values = <<>>
      BY <1>3 DEF AsyncOf, NoAsync
    <2>2. Fits(<<>>, <<>>)
      BY DEF Fits
    <2>3. ASSUME NEW value \in ArgumentsOf(call.out)
          PROVE  Fits(call.out \o a.types, value \o a.values) /\ InOrder(call.out \o a.types)
      <3>1. Fits(call.out, value)
        BY <1>1, ArgumentsFit
      <3>2. call.out \o <<>> = call.out
        BY <1>1, ConcatEmptySeq
      <3>3. InOrder(call.out)
        BY DefaultsFit
      <3>4. Fits(call.out \o a.types, value \o a.values)
        BY <2>1, <2>2, <3>1, AppendsConcat
      <3> QED
        BY <2>1, <3>2, <3>3, <3>4
    <2> QED
      BY <2>1, <2>2, <2>3, EmptySeq
  <1>4. CASE call.out \in {<<>>, <<"b">>}
    <2>1. a \in AsyncArguments
      BY <1>4 DEF AsyncOf
    <2>2. a.types \in Seq({"s", "t"}) /\ a.values \in ArgumentsOf(a.types)
      BY <2>1, ExchangeAssumption
    <2>3. a.types \in Seq(Types) /\ a.types \in Seq(Plain)
      <3>1. a.types \in [1 .. Len(a.types) -> {"s", "t"}] /\ Len(a.types) \in Nat
        BY <2>2, LenProperties
      <3>2. a.types \in [1 .. Len(a.types) -> Types] /\ a.types \in [1 .. Len(a.types) -> Plain]
        BY <1>2, <3>1
      <3> QED
        BY <3>1, <3>2, SeqDef
    <2>4. Fits(a.types, a.values)
      BY <2>2, <2>3, ArgumentsFit
    <2>5. call.out \in Seq(Plain)
      <3>1. \A x \in Plain : <<x>> \in Seq(Plain)
        OBVIOUS
      <3> QED
        BY <1>2, <1>4, <3>1, EmptySeq
    <2>6. InOrder(call.out \o a.types)
      <3>1. call.out \o a.types \in Seq(Plain)
        BY <2>3, <2>5, ConcatProperties
      <3> DEFINE t == call.out \o a.types
      <3>2. Len(t) \in Nat /\ \A i \in 1 .. Len(t) : t[i] \in Plain
        BY <3>1, LenProperties
      <3> HIDE DEF t
      <3>3. InOrder(t)
        BY <3>2 DEF InOrder
      <3> QED
        BY <3>3 DEF t
    <2>7. ASSUME NEW value \in ArgumentsOf(call.out) PROVE Fits(call.out \o a.types, value \o a.values)
      <3>1. Fits(call.out, value)
        BY <1>1, ArgumentsFit
      <3> QED
        BY <2>4, <3>1, AppendsConcat
    <2> QED
      BY <2>2, <2>4, <2>6, <2>7
  <1> QED
    BY <1>3, <1>4

-----------------------------------------------------------------------------
(* The messages on their way.                                              *)

Meanings == Seq(UNION {Values(type) : type \in Types})

(* The body is what the meaning is written to.                             *)
Faithful(m) ==
  /\ Fits(m.types, m.meant) /\ InOrder(m.types)
  /\ m.body = AppendArguments(m.types, m.meant)

Calls(n) ==
  {m \in [kind : {"call"}, serial : 1 .. n, types : Seq(Types), out : Seq(Types), body : Body,
          meant : Meanings] :
     Faithful(m) /\ \E sig \in Methods : m.out = sig.out}

Errors(n) == {ErrorReply(serial) : serial \in 1 .. n}

Returns(n) ==
  {m \in [kind : {"return"}, serial : 1 .. n, types : Seq(Types), body : Body,
          meant : Meanings \cup {Thrown}] :
     m.meant # Thrown => Faithful(m)}

(* Several threads may garble each other's signals.                        *)
Broadcasts ==
  {m \in [kind : {"signal"}, serial : {0}, types : Seq(Types), body : Body, meant : Meanings] :
     Threads = {Main} => Faithful(m)}

Sent(n) == Errors(n) \cup Returns(n) \cup Broadcasts

LEMMA FaithfulIsRead ==
    ASSUME NEW m, Faithful(m)
    PROVE  ReadBack(m) = m.meant /\ m.body \in Body /\ m.meant \in Meanings
  <1>1. PICK left : NextArguments(m.types, FillInArguments(m.body)) = Got(m.meant, left)
    BY ArgumentsRead DEF Faithful
  <1>2. ReadBack(m) = m.meant
    BY <1>1, GotFacts DEF ReadBack
  <1>3. m.body \in Body
    BY AppendsType DEF Faithful
  <1> QED
    BY <1>2, <1>3 DEF Faithful, Fits, Meanings

LEMMA SeqMonotone ==
    ASSUME NEW S, NEW T, S \subseteq T, NEW s \in Seq(S)
    PROVE  s \in Seq(T)
  <1>1. s \in [1 .. Len(s) -> S] /\ Len(s) \in Nat
    BY LenProperties
  <1>2. s \in [1 .. Len(s) -> T]
    BY <1>1
  <1> QED
    BY <1>1, <1>2, SeqDef

LEMMA RemoveAtType ==
    ASSUME NEW S, NEW s \in Seq(S), NEW i \in 1 .. Len(s)
    PROVE  RemoveAt(s, i) \in Seq(S)
  <1>1. SubSeq(s, 1, i - 1) \in Seq(S)
    BY LenProperties
  <1>2. SubSeq(s, i + 1, Len(s)) \in Seq(S)
    BY LenProperties
  <1> HIDE DEF RemoveAt
  <1>3. ASSUME NEW a \in Seq(S), NEW b \in Seq(S) PROVE a \o b \in Seq(S)
    BY ConcatProperties
  <1> QED
    BY <1>1, <1>2, <1>3 DEF RemoveAt

LEMMA LaterMessages ==
    ASSUME NEW m \in Nat, NEW n \in Nat, m <= n
    PROVE  Calls(m) \subseteq Calls(n) /\ Sent(m) \subseteq Sent(n)
  <1>1. 1 .. m \subseteq 1 .. n
    OBVIOUS
  <1>2. Calls(m) \subseteq Calls(n)
    BY <1>1 DEF Calls
  <1>3. Errors(m) \subseteq Errors(n)
    BY <1>1 DEF Errors
  <1>4. Returns(m) \subseteq Returns(n)
    BY <1>1 DEF Returns
  <1> QED
    BY <1>2, <1>3, <1>4 DEF Sent

(* The default value behind an error is not the first reply that the       *)
(* caller finds.                                                           *)
Reported(box, serial) ==
  \A i \in DOMAIN box :
    box[i].kind = "return" /\ box[i].meant = Thrown /\ box[i].serial = serial
      => \E j \in 1 .. i - 1 : box[j] = ErrorReply(serial)

LEMMA KindsOfMessages ==
    ASSUME NEW n \in Nat, NEW m \in Sent(n)
    PROVE  /\ m.kind \in {"error", "return", "signal"} /\ m.body \in Body
           /\ m.kind = "return" => m \in Returns(n)
           /\ m.kind = "signal" => m \in Broadcasts
  <1>1. CASE m \in Errors(n)
    <2>1. m.kind = "error" /\ m.body = <<>>
      BY <1>1 DEF Errors, ErrorReply
    <2> QED
      BY <2>1, EmptySeq DEF Body
  <1>2. CASE m \in Returns(n)
    BY <1>2 DEF Returns
  <1>3. CASE m \in Broadcasts
    BY <1>3 DEF Broadcasts
  <1> QED
    BY <1>1, <1>2, <1>3 DEF Sent

LEMMA NobodyWaits ==
    ASSUME NEW n \in Nat, NEW box \in Seq(Sent(n)), NEW serial, serial \notin 1 .. n
    PROVE  Reported(box, serial)
  <1>1. \A i \in DOMAIN box : box[i] \in Sent(n)
    BY LenProperties
  <1>2. \A i \in DOMAIN box : box[i].kind = "return" => box[i].serial \in 1 .. n
    BY <1>1, KindsOfMessages DEF Returns
  <1> QED
    BY <1>2 DEF Reported

LEMMA ReportedMore ==
    ASSUME NEW S, NEW box \in Seq(S), NEW more \in Seq(S), NEW serial,
           Reported(box, serial), Reported(more, serial)
    PROVE  Reported(box \o more, serial)
  <1> DEFINE all == box \o more
             m == Len(box)
             n == Len(more)
  <1>1. /\ all \in Seq(S) /\ Len(all) = m + n /\ m \in Nat /\ n \in Nat
        /\ \A i \in 1 .. m + n : all[i] = IF i <= m THEN box[i] ELSE more[i - m]
    BY ConcatProperties, LenProperties
  <1>2. DOMAIN all = 1 .. m + n /\ DOMAIN box = 1 .. m /\ DOMAIN more = 1 .. n
    BY <1>1, LenProperties
  <1> HIDE DEF all, m, n
  <1> SUFFICES ASSUME NEW i \in 1 .. m + n, all[i].kind = "return", all[i].meant = Thrown, all[i].serial = serial
               PROVE  \E j \in 1 .. i - 1 : all[j] = ErrorReply(serial)
    BY <1>2 DEF Reported, all
  <1>3. CASE i <= m
    <2>1. i \in 1 .. m /\ all[i] = box[i]
      BY <1>1, <1>3
    <2>2. PICK j \in 1 .. i - 1 : box[j] = ErrorReply(serial)
      BY <1>2, <2>1 DEF Reported
    <2>3. all[j] = box[j]
      BY <1>1, <2>1
    <2> QED
      BY <2>2, <2>3
  <1>4. CASE ~(i <= m)
    <2>1. i - m \in 1 .. n /\ all[i] = more[i - m]
      BY <1>1, <1>4
    <2>2. PICK j \in 1 .. (i - m) - 1 : more[j] = ErrorReply(serial)
      BY <1>2, <2>1 DEF Reported
    <2>3. m + j \in 1 .. m + n /\ m + j \in 1 .. i - 1 /\ ~(m + j <= m) /\ (m + j) - m = j
      BY <1>1, <2>1
    <2>4. all[m + j] = more[j]
      BY <1>1, <2>3
    <2> QED
      BY <2>2, <2>3, <2>4
  <1> QED
    BY <1>3, <1>4

-----------------------------------------------------------------------------
(* The answers to a call.                                                  *)

LEMMA ReplyFacts ==
    ASSUME NEW n \in Nat, NEW call \in Calls(n), NEW returned \in Returned(call) \cup {Thrown},
           NEW more \in Appended(call, returned)
    PROVE  /\ Reply(call, returned, more) \in Returns(n)
           /\ returned # Thrown => Reply(call, returned, more).meant # Thrown
  <1>1. PICK sig \in Methods : call.out = sig.out
    BY DEF Calls
  <1>2. call.out \in Seq(Types) /\ call.serial \in 1 .. n /\ Fits(call.out, Defaults(call.out))
    BY <1>1, DefaultsFit DEF Calls
  <1>3. CASE returned = Thrown
    <2>1. PICK a \in AsyncOf(call) : more = AppendArguments(a.types, a.values)
      BY <1>3 DEF Appended
    <2>2. a.types \in Seq({"s", "t"}) /\ Fits(a.types, a.values)
      BY <1>1, AsyncFit
    <2>3. AppendAsyncArgs(more) \in Body
      BY <2>1, <2>2, AsyncAppends, AppendAsyncAgain
    <2>4. AppendArguments(call.out, Defaults(call.out)) \in Body
      BY <1>2, AppendsType
    <2> DEFINE body == AppendArguments(call.out, Defaults(call.out)) \o AppendAsyncArgs(more)
    <2>5. body \in Body
      BY <2>3, <2>4, ConcatProperties DEF Body
    <2>6. Reply(call, returned, more) = Return(call.serial, call.out, body, Thrown)
      BY <1>3 DEF Reply
    <2> HIDE DEF body
    <2> QED
      BY <1>2, <1>3, <2>5, <2>6 DEF Returns, Return
  <1>4. CASE returned # Thrown
    <2>1. PICK v \in ArgumentsOf(call.out), a \in AsyncOf(call) :
            returned = [value |-> v, types |-> a.types, async |-> a.values]
      BY <1>4 DEF Returned
    <2>2. /\ a.types \in Seq({"s", "t"}) /\ Fits(a.types, a.values)
          /\ Fits(call.out \o a.types, v \o a.values) /\ InOrder(call.out \o a.types)
      BY <1>1, AsyncFit
    <2>3. more = AppendArguments(a.types, a.values)
      BY <1>4, <2>1 DEF Appended
    <2>4. AppendAsyncArgs(more) = more
      BY <2>2, <2>3, AsyncAppends, AppendAsyncAgain
    <2>5. Fits(call.out, v)
      BY <1>2, ArgumentsFit
    <2> DEFINE types == call.out \o a.types
               value == v \o a.values
               body == AppendArguments(types, value)
    <2>6. body = AppendArguments(call.out, v) \o AppendAsyncArgs(more)
      <3>1. Fits(call.out, v) /\ Fits(a.types, a.values)
        BY <2>2, <2>5
      <3>2. AppendsBoth(call.out, v, a.types, a.values)
        BY <3>1, AppendsConcat
      <3> QED
        BY <2>3, <2>4, <3>2 DEF AppendsBoth
    <2>7. Reply(call, returned, more) = Return(call.serial, types, body, value)
      BY <1>4, <2>1, <2>6 DEF Reply
    <2>8. body \in Body /\ types \in Seq(Types) /\ value \in Meanings
      BY <2>2, AppendsType DEF Fits, Meanings
    <2>9. value # Thrown
      <3>1. a \in AsyncArguments
        BY ExchangeAssumption DEF AsyncOf
      <3> QED
        BY <1>1, <3>1, ExchangeAssumption
    <2>10. Fits(types, value) /\ InOrder(types)
      BY <2>2
    <2>11. body = AppendArguments(types, value)
      OBVIOUS
    <2> HIDE DEF body, types, value
    <2> QED
      BY <1>2, <2>7, <2>8, <2>9, <2>10, <2>11 DEF Returns, Return, Faithful
  <1> QED
    BY <1>3, <1>4

LEMMA AnswersFacts ==
    ASSUME NEW n \in Nat, NEW call \in Calls(n), NEW returned \in Returned(call) \cup {Thrown},
           NEW more \in Appended(call, returned), NEW serial
    PROVE  /\ Answers(call, returned, more) \in Seq(Sent(n))
           /\ Reported(Answers(call, returned, more), serial)
           /\ Undelivered(call, returned, more) \subseteq Seq(Sent(n))
  <1> DEFINE reply == Reply(call, returned, more)
             error == ErrorReply(call.serial)
             answers == Answers(call, returned, more)
  <1>1. reply \in Returns(n) /\ (returned # Thrown => reply.meant # Thrown)
    BY ReplyFacts
  <1>2. call.serial \in 1 .. n
    BY DEF Calls
  <1>3. reply \in Sent(n) /\ error \in Sent(n)
    BY <1>1, <1>2 DEF Sent, Errors
  <1>4. answers = IF returned = Thrown THEN <<error>> \o <<reply>> ELSE <<>> \o <<reply>>
    BY DEF Answers
  <1>5. returned = Thrown => reply.serial = error.serial /\ error.serial = call.serial
    BY DEF Reply, Return, ErrorReply
  <1> HIDE DEF reply, error
  <1>6. /\ <<reply>> \in Seq(Sent(n)) /\ <<error>> \in Seq(Sent(n))
        /\ <<error>> \o <<reply>> = <<error, reply>> /\ <<>> \o <<reply>> = <<reply>>
        /\ <<error>> \o <<error>> \in Seq(Sent(n)) /\ <<error, reply>> \in Seq(Sent(n))
    <2>1. ASSUME NEW S, NEW a \in S, NEW b \in S
          PROVE  <<a>> \in Seq(S) /\ <<a>> \o <<b>> \in Seq(S) /\ <<a>> \o <<b>> = <<a, b>>
      <3>1. <<a>> \in Seq(S) /\ <<b>> \in Seq(S)
        OBVIOUS
      <3>2. <<a>> \o <<b>> = Append(<<a>>, b)
        BY <3>1
      <3>3. <<a, b>> = Append(<<a>>, b)
        BY <3>1
      <3>4. <<a>> \o <<b>> \in Seq(S)
        BY <3>1, ConcatProperties
      <3> QED
        BY <3>1, <3>2, <3>3, <3>4
    <2>2. \A S : \A s \in Seq(S) : <<>> \o s = s
      BY ConcatEmptySeq
    <2>3. <<reply>> \in Seq(Sent(n)) /\ <<error>> \in Seq(Sent(n))
      BY <1>3, <2>1
    <2>4. <<error>> \o <<reply>> \in Seq(Sent(n)) /\ <<error>> \o <<reply>> = <<error, reply>>
      BY <1>3, <2>1
    <2>5. <<error>> \o <<error>> \in Seq(Sent(n))
      BY <1>3, <2>1
    <2>6. <<>> \o <<reply>> = <<reply>>
      BY <2>2, <2>3
    <2> QED
      BY <2>3, <2>4, <2>5, <2>6
  <1>7. answers \in Seq(Sent(n))
    BY <1>4, <1>6
  <1>8. Reported(answers, serial)
    <2>1. CASE returned = Thrown
      <3>1. answers = <<error, reply>>
        BY <1>4, <1>6, <2>1
      <3>2. error.kind = "error"
        BY DEF error, ErrorReply
      <3>3. error = ErrorReply(call.serial)
        BY DEF error
      <3> DEFINE box == <<error, reply>>
      <3>4. DOMAIN box = 1 .. 2 /\ box[1] = error /\ box[2] = reply
        OBVIOUS
      <3> HIDE DEF box
      <3> SUFFICES ASSUME NEW i \in 1 .. 2, box[i].kind = "return", box[i].serial = serial
                   PROVE  \E j \in 1 .. i - 1 : box[j] = ErrorReply(serial)
        BY <3>1, <3>4 DEF Reported, box
      <3>5. i = 2
        BY <3>2, <3>4
      <3>6. serial = call.serial
        BY <1>5, <2>1, <3>4, <3>5
      <3>7. 1 \in 1 .. i - 1
        BY <3>5
      <3> QED
        BY <3>3, <3>4, <3>6, <3>7
    <2>2. CASE returned # Thrown
      <3>1. answers = <<reply>>
        BY <1>4, <1>6, <2>2
      <3>2. reply.meant # Thrown
        BY <1>1, <2>2
      <3> DEFINE box == <<reply>>
      <3>3. DOMAIN box = 1 .. 1 /\ box[1] = reply
        OBVIOUS
      <3> HIDE DEF box
      <3>4. \A i \in 1 .. 1 : i = 1
        OBVIOUS
      <3>5. Reported(box, serial)
        BY <3>2, <3>3, <3>4 DEF Reported
      <3> QED
        BY <3>1, <3>5 DEF box
    <2> QED
      BY <2>1, <2>2
  <1>9. ASSUME NEW sent \in Undelivered(call, returned, more) PROVE sent \in Seq(Sent(n))
    <2>1. \/ \E i \in DOMAIN answers : sent = RemoveAt(answers, i)
          \/ sent = <<error>> \o <<error>>
          \/ sent = <<error>>
      BY DEF Undelivered, error
    <2>2. DOMAIN answers = 1 .. Len(answers)
      BY <1>7, LenProperties
    <2>3. \A i \in DOMAIN answers : RemoveAt(answers, i) \in Seq(Sent(n))
      BY <1>7, <2>2, RemoveAtType
    <2> QED
      BY <1>6, <2>1, <2>3
  <1> QED
    BY <1>7, <1>8, <1>9

-----------------------------------------------------------------------------
(* The first values of a signal, as its only builder appends them.         *)
Built(types, values, k) == FlattenSeq([i \in 1 .. k |-> AppendArgument(types[i], values[i])])

LEMMA BuiltFacts ==
    ASSUME NEW types, NEW values, Fits(types, values)
    PROVE  /\ Built(types, values, 0) = <<>>
           /\ Built(types, values, Len(values)) = AppendArguments(types, values)
           /\ \A k \in 1 .. Len(values) :
                Built(types, values, k) = Built(types, values, k - 1) \o AppendArgument(types[k], values[k])
  <1> DEFINE n == Len(values)
             part(i) == AppendArgument(types[i], values[i])
             parts(k) == [i \in 1 .. k |-> part(i)]
  <1>1. n \in Nat /\ DOMAIN values = 1 .. n /\ \A i \in 1 .. n : types[i] \in Types /\ values[i] \in Values(types[i])
    BY LenProperties DEF Fits
  <1>2. \A i \in 1 .. n : part(i) \in Body
    BY <1>1, LastArrives
  <1>3. \A k \in 0 .. n : Built(types, values, k) = FlattenSeq(parts(k))
    BY DEF Built
  <1>4. Built(types, values, n) = AppendArguments(types, values)
    BY <1>1 DEF Built, AppendArguments
  <1> HIDE DEF n, part
  <1>5. ASSUME NEW k \in 0 .. n
        PROVE  parts(k) \in Seq(Body) /\ Len(parts(k)) = k
    <2>1. k \in Nat /\ parts(k) \in [1 .. k -> Body]
      BY <1>1, <1>2
    <2> HIDE DEF parts
    <2>2. parts(k) \in Seq(Body)
      BY <2>1, SeqDef
    <2> QED
      BY <2>1, <2>2, LenProperties
  <1>6. FlattenSeq(parts(0)) = <<>>
    BY DEF FlattenSeq
  <1>7. ASSUME NEW k \in 1 .. n
        PROVE  FlattenSeq(parts(k)) = FlattenSeq(parts(k - 1)) \o part(k)
    <2>1. k - 1 \in 0 .. n /\ k \in 0 .. n
      BY <1>1
    <2> DEFINE s == parts(k - 1)
    <2>2. s \in Seq(Body) /\ Len(s) = k - 1 /\ part(k) \in Body
      BY <1>2, <1>5, <2>1
    <2>3. parts(k) = Append(s, part(k))
      <3>1. /\ Append(s, part(k)) \in Seq(Body) /\ Len(Append(s, part(k))) = k
            /\ \A j \in 1 .. k - 1 : Append(s, part(k))[j] = s[j]
            /\ Append(s, part(k))[k] = part(k)
        <4> HIDE DEF s
        <4> QED
          BY <2>2, AppendProperties
      <3>2. \A j \in 1 .. k : parts(k)[j] = part(j)
        OBVIOUS
      <3>3. \A j \in 1 .. k - 1 : s[j] = part(j)
        OBVIOUS
      <3>4. \A j \in 1 .. k : j = k \/ j \in 1 .. k - 1
        BY <1>1
      <3> HIDE DEF s
      <3>5. \A j \in 1 .. k : parts(k)[j] = Append(s, part(k))[j]
        BY <3>1, <3>2, <3>3, <3>4
      <3>6. parts(k) \in Seq(Body) /\ Len(parts(k)) = k
        BY <1>5, <2>1
      <3> HIDE DEF parts
      <3> QED
        BY <3>1, <3>5, <3>6, SeqEqual
    <2> HIDE DEF s, parts
    <2>4. Append(s, part(k)) = s \o <<part(k)>>
      BY <2>2
    <2>5. s \in Seq(Seq(BodyItem)) /\ <<part(k)>> \in Seq(Seq(BodyItem)) /\ part(k) \in Seq(BodyItem)
      BY <2>2 DEF Body
    <2>6. FlattenSeq(s \o <<part(k)>>) = FlattenSeq(s) \o FlattenSeq(<<part(k)>>)
      BY <2>5, FlattenConcat
    <2>7. FlattenSeq(<<part(k)>>) = part(k)
      BY <2>5, FlattenOne
    <2> QED
      BY <2>3, <2>4, <2>6, <2>7 DEF s
  <1> HIDE DEF parts
  <1>8. 0 \in 0 .. n /\ \A k \in 1 .. n : k \in 0 .. n /\ k - 1 \in 0 .. n
    BY <1>1
  <1>9. Built(types, values, 0) = <<>>
    BY <1>3, <1>6, <1>8
  <1>10. \A k \in 1 .. n : Built(types, values, k) = Built(types, values, k - 1) \o part(k)
    BY <1>3, <1>7, <1>8
  <1> QED
    BY <1>4, <1>9, <1>10 DEF n, part

-----------------------------------------------------------------------------
(* The invariant of the exchange.                                          *)

(* A signal that a thread is to build.                                     *)
Works ==
  {w \in [sig : Signals, args : Meanings, next : Nat] :
     Fits(w.sig.in, w.args) /\ w.next \in 1 .. Len(w.args) + 1}

BuiltBy(w) ==
  signal.types = w.sig.in /\ signal.body = Built(w.sig.in, w.args, w.next - 1)

BuilderInv ==
  /\ work \in [Threads -> Works \cup {Null}]
  /\ signal \in [types : Seq(Types), body : Body] \cup {Null}
  /\ Threads = {Main} => (signal # Null /\ work[Main] # Null => BuiltBy(work[Main]))

MessagesInv ==
  /\ async = <<>>
  /\ inbox \in Seq(Calls(started)) /\ outbox \in Seq(Sent(started))
  /\ waiting \in Serials \cup {Null} /\ pending \in BOOLEAN /\ (pending => waiting # Null)
  /\ started \in 0 .. MaxMessages /\ failures \in 0 .. MaxFailures

ReportedInv == failures = 0 => Reported(outbox, waiting)

ExchangeInv == BuilderInv /\ MessagesInv /\ ReportedInv

LEMMA RangeOfBoth ==
    ASSUME NEW S, NEW T, NEW a \in Seq(S), NEW b \in Seq(T), NEW m \in Range(a \o b)
    PROVE  m \in S \/ m \in T
  <1>1. a \in Seq(S \cup T) /\ b \in Seq(S \cup T)
    BY SeqMonotone
  <1> DEFINE c == a \o b
  <1>2. /\ c \in Seq(S \cup T) /\ Len(c) = Len(a) + Len(b)
        /\ \A i \in 1 .. Len(a) + Len(b) : c[i] = IF i <= Len(a) THEN a[i] ELSE b[i - Len(a)]
    BY <1>1, ConcatProperties
  <1> HIDE DEF c
  <1>3. /\ Len(a) \in Nat /\ Len(b) \in Nat /\ DOMAIN c = 1 .. Len(c)
        /\ \A i \in 1 .. Len(a) : a[i] \in S
        /\ \A i \in 1 .. Len(b) : b[i] \in T
    BY <1>2, LenProperties
  <1>4. PICK i \in 1 .. Len(c) : m = c[i]
    BY <1>3 DEF Range, c
  <1> QED
    BY <1>2, <1>3, <1>4

LEMMA ExchangeInit == Init => ExchangeInv
  <1> SUFFICES ASSUME Init PROVE ExchangeInv
    OBVIOUS
  <1>1. BuilderInv
    BY DEF Init, BuilderInv
  <1>2. MessagesInv
    <2>1. MaxMessages \in Nat /\ MaxFailures \in Nat
      BY ExchangeAssumption
    <2>2. \A S : <<>> \in Seq(S)
      BY EmptySeq
    <2>3. inbox \in Seq(Calls(started)) /\ outbox \in Seq(Sent(started))
      BY <2>2 DEF Init
    <2>4. started \in 0 .. MaxMessages /\ failures \in 0 .. MaxFailures
      BY <2>1 DEF Init
    <2> QED
      BY <2>3, <2>4 DEF Init, MessagesInv
  <1>3. ReportedInv
    BY DEF Init, ReportedInv, Reported
  <1> QED
    BY <1>1, <1>2, <1>3 DEF ExchangeInv

LEMMA ExchangeTypes ==
    ASSUME ExchangeInv
    PROVE  TypeOK
  <1>1. ASSUME NEW t \in Threads, work[t] # Null
        PROVE  work[t].next \in 1 .. Len(work[t].args) + 1
    BY <1>1 DEF ExchangeInv, BuilderInv, Works
  <1>2. signal # Null => signal.body \in Seq(BodyItem)
    BY DEF ExchangeInv, BuilderInv, Body
  <1>3. ASSUME NEW m \in Range(inbox \o outbox)
        PROVE  m.kind \in {"call", "signal", "return", "error"} /\ m.body \in Seq(BodyItem)
    <2>1. inbox \in Seq(Calls(started)) /\ outbox \in Seq(Sent(started)) /\ started \in Nat
      BY DEF ExchangeInv, MessagesInv
    <2>2. m \in Calls(started) \/ m \in Sent(started)
      BY <1>3, <2>1, RangeOfBoth
    <2>3. CASE m \in Calls(started)
      BY <2>3 DEF Calls, Body
    <2>4. CASE m \in Sent(started)
      BY <2>1, <2>4, KindsOfMessages DEF Body
    <2> QED
      BY <2>2, <2>3, <2>4
  <1> QED
    BY <1>1, <1>2, <1>3 DEF ExchangeInv, MessagesInv, TypeOK

(* Whatever the threads of the daemon broadcast, the calls of the service  *)
(* and their answers are not signals.                                      *)
CallsArrive == \A m \in Range(inbox) : ReadBack(m) = m.meant

LEMMA CallsAndAnswers ==
    ASSUME ExchangeInv
    PROVE  CallsArrive /\ ReturnArrives /\ FailureIsReported
  <1>1. inbox \in Seq(Calls(started)) /\ outbox \in Seq(Sent(started)) /\ started \in Nat
    BY DEF ExchangeInv, MessagesInv
  <1>2. ASSUME NEW m \in Range(inbox) PROVE ReadBack(m) = m.meant
    <2>1. m \in Calls(started)
      BY <1>1, <1>2, LenProperties DEF Range
    <2> QED
      BY <2>1, FaithfulIsRead DEF Calls
  <1>3. ASSUME NEW m \in Range(outbox), m.kind = "return", m.meant # Thrown
        PROVE  ReadBack(m) = m.meant
    <2>1. m \in Sent(started)
      BY <1>1, <1>3, LenProperties DEF Range
    <2>2. m \in Returns(started)
      BY <1>1, <1>3, <2>1, KindsOfMessages
    <2> QED
      BY <1>3, <2>2, FaithfulIsRead DEF Returns
  <1>4. FailureIsReported
    BY DEF ExchangeInv, ReportedInv, Reported, FailureIsReported, IsReply
  <1> QED
    BY <1>2, <1>3, <1>4 DEF CallsArrive, ReturnArrives

LEMMA ExchangeArrives ==
    ASSUME ExchangeInv, Threads = {Main}
    PROVE  ValuesArrive
  <1>1. inbox \in Seq(Calls(started)) /\ outbox \in Seq(Sent(started)) /\ started \in Nat
    BY DEF ExchangeInv, MessagesInv
  <1>2. ASSUME NEW m \in Range(inbox \o outbox), m.kind \in {"call", "signal"}
        PROVE  ReadBack(m) = m.meant
    <2>1. m \in Calls(started) \/ m \in Sent(started)
      BY <1>1, <1>2, RangeOfBoth
    <2>2. CASE m \in Calls(started)
      BY <2>2, FaithfulIsRead DEF Calls
    <2>3. CASE m \in Sent(started)
      <3>1. m \in Broadcasts
        BY <1>1, <1>2, <2>3, KindsOfMessages
      <3> QED
        BY <3>1, FaithfulIsRead DEF Broadcasts
    <2> QED
      BY <2>1, <2>2, <2>3
  <1> QED
    BY <1>2, CallsAndAnswers DEF ValuesArrive, ArgumentsArrive

-----------------------------------------------------------------------------
(* Each step keeps it.                                                     *)

LEMMA BuilderUnchanged ==
    ASSUME BuilderInv, UNCHANGED <<work, signal>>
    PROVE  BuilderInv'
  BY DEF BuilderInv, BuiltBy

LEMMA StartsFacts ==
    ASSUME MessagesInv, Starts
    PROVE  /\ started \in Nat /\ started' = started + 1
           /\ started' \in Serials /\ started' \in 0 .. MaxMessages
           /\ inbox \in Seq(Calls(started')) /\ outbox \in Seq(Sent(started'))
  <1>1. MaxMessages \in Nat
    BY ExchangeAssumption
  <1>2. /\ started \in Nat /\ started' = started + 1 /\ started' \in Nat
        /\ started' \in Serials /\ started' \in 0 .. MaxMessages
    BY <1>1 DEF MessagesInv, Starts, Serials
  <1>3. Calls(started) \subseteq Calls(started') /\ Sent(started) \subseteq Sent(started')
    <2>1. started <= started'
      BY <1>2
    <2> QED
      BY <1>2, <2>1, LaterMessages
  <1>4. inbox \in Seq(Calls(started)) /\ outbox \in Seq(Sent(started))
    BY DEF MessagesInv
  <1>5. inbox \in Seq(Calls(started'))
    BY <1>3, <1>4, SeqMonotone
  <1>6. outbox \in Seq(Sent(started'))
    BY <1>3, <1>4, SeqMonotone
  <1> QED
    BY <1>2, <1>5, <1>6

LEMMA FailsFacts ==
    ASSUME MessagesInv, Fails
    PROVE  failures' \in 0 .. MaxFailures /\ failures' # 0
  <1>1. MaxFailures \in Nat
    BY ExchangeAssumption
  <1> QED
    BY <1>1 DEF MessagesInv, Fails

LEMMA AppendedType ==
    ASSUME NEW S, NEW s \in Seq(S), NEW m \in S
    PROVE  Append(s, m) \in Seq(S)
  BY AppendProperties

LEMMA RemoteMethodCallStep ==
    ASSUME ExchangeInv, NEW sig \in Methods, NEW args \in ArgumentsOf(sig.in), RemoteMethodCall(sig, args)
    PROVE  ExchangeInv'
  <1>1. BuilderInv /\ MessagesInv /\ Starts
    BY DEF ExchangeInv, RemoteMethodCall
  <1>2. /\ started \in Nat /\ started' = started + 1 /\ started' \in Serials /\ started' \in 0 .. MaxMessages
        /\ inbox \in Seq(Calls(started')) /\ outbox \in Seq(Sent(started'))
    BY <1>1, StartsFacts
  <1>3. /\ inbox' = Append(inbox, Call(started', sig, AppendArguments(sig.in, args), args))
        /\ waiting' = started' /\ pending' = TRUE
        /\ UNCHANGED <<work, signal, async, outbox, failures>>
    BY DEF RemoteMethodCall
  <1>4. Call(started', sig, AppendArguments(sig.in, args), args) \in Calls(started')
    <2>1. sig.in \in Seq(Types) /\ InOrder(sig.in)
      BY SentTypes
    <2>2. Fits(sig.in, args)
      BY <2>1, ArgumentsFit
    <2>3. AppendArguments(sig.in, args) \in Body
      BY <2>2, AppendsType
    <2>4. args \in Meanings
      BY <2>2 DEF Fits, Meanings
    <2>5. sig.out \in Seq(Types)
      BY DefaultsFit
    <2>6. started' \in 1 .. started'
      BY <1>2
    <2> DEFINE body == AppendArguments(sig.in, args)
    <2>7. body = AppendArguments(sig.in, args)
      OBVIOUS
    <2> HIDE DEF body
    <2>8. Call(started', sig, body, args) \in Calls(started')
      BY <2>1, <2>2, <2>3, <2>4, <2>5, <2>6, <2>7 DEF Calls, Call, Faithful
    <2> QED
      BY <2>8 DEF body
  <1>5. inbox' \in Seq(Calls(started'))
    BY <1>2, <1>3, <1>4, AppendedType
  <1>6. MessagesInv'
    <2>1. waiting' # Null
      BY <1>2, <1>3, ExchangeAssumption
    <2> QED
      BY <1>1, <1>2, <1>3, <1>5, <2>1 DEF MessagesInv
  <1>7. Reported(outbox, started')
    <2>1. started' \notin 1 .. started /\ outbox \in Seq(Sent(started))
      BY <1>1, <1>2 DEF MessagesInv
    <2> QED
      BY <1>2, <2>1, NobodyWaits
  <1>8. ReportedInv'
    BY <1>3, <1>7 DEF ReportedInv
  <1> QED
    BY <1>1, <1>3, <1>6, <1>8, BuilderUnchanged DEF ExchangeInv

LEMMA CallFailsStep ==
    ASSUME ExchangeInv, CallIsNotBuilt \/ CallIsNotSent
    PROVE  ExchangeInv'
  <1>1. /\ BuilderInv /\ MessagesInv /\ Starts /\ Fails
        /\ waiting = Null /\ waiting' \in {waiting, started'}
        /\ UNCHANGED <<work, signal, async, inbox, outbox, pending>>
    BY DEF ExchangeInv, CallIsNotBuilt, CallIsNotSent, ServiceIsIdle
  <1>2. /\ started' \in Serials /\ started' \in 0 .. MaxMessages
        /\ inbox \in Seq(Calls(started')) /\ outbox \in Seq(Sent(started'))
    BY <1>1, StartsFacts
  <1>3. failures' \in 0 .. MaxFailures /\ failures' # 0
    BY <1>1, FailsFacts
  <1>4. MessagesInv'
    BY <1>1, <1>2, <1>3 DEF MessagesInv
  <1> QED
    BY <1>1, <1>3, <1>4, BuilderUnchanged DEF ExchangeInv, ReportedInv

LEMMA ServiceReadsStep ==
    ASSUME ExchangeInv, WaitForRemoteMethodCallReply \/ ReplyTimesOut \/ ServiceReadsMessage
    PROVE  ExchangeInv'
  <1>1. /\ BuilderInv /\ MessagesInv
        /\ UNCHANGED <<work, signal, async, inbox, started, failures>>
        /\ waiting' = Null /\ pending' \in {pending, FALSE}
        /\ pending' => waiting = Null
    BY DEF ExchangeInv, WaitForRemoteMethodCallReply, ReplyTimesOut, ServiceReadsMessage, ServiceIsIdle
  <1>2. outbox \in Seq(Sent(started)) /\ started \in Nat
    BY <1>1 DEF MessagesInv
  <1>3. outbox' \in Seq(Sent(started))
    <2>1. CASE WaitForRemoteMethodCallReply
      <3>1. PICK i \in DOMAIN outbox : outbox' = RemoveAt(outbox, i)
        BY <2>1 DEF WaitForRemoteMethodCallReply
      <3>2. i \in 1 .. Len(outbox)
        BY <1>2, LenProperties
      <3> QED
        BY <1>2, <3>1, <3>2, RemoveAtType
    <2>2. CASE ReplyTimesOut
      BY <1>2, <2>2 DEF ReplyTimesOut
    <2>3. CASE ServiceReadsMessage
      BY <1>2, <2>3, HeadTailProperties DEF ServiceReadsMessage
    <2> QED
      BY <2>1, <2>2, <2>3
  <1>4. pending' = FALSE
    BY <1>1 DEF MessagesInv, WaitForRemoteMethodCallReply, ReplyTimesOut, ServiceReadsMessage, ServiceIsIdle
  <1>5. waiting' \in Serials \cup {Null}
    BY <1>1
  <1>6. MessagesInv'
    BY <1>1, <1>3, <1>4, <1>5 DEF MessagesInv
  <1>7. Reported(outbox', Null)
    <2>1. Null \notin 1 .. started
      <3>1. MaxMessages \in Nat /\ Null \notin Serials
        BY ExchangeAssumption
      <3> QED
        BY <1>1, <3>1 DEF MessagesInv, Serials
    <2> QED
      BY <1>2, <1>3, <2>1, NobodyWaits
  <1> QED
    BY <1>1, <1>6, <1>7, BuilderUnchanged DEF ExchangeInv, ReportedInv

LEMMA AppendedBody ==
    ASSUME NEW n, NEW call \in Calls(n), NEW returned \in Returned(call) \cup {Thrown},
           NEW more \in Appended(call, returned)
    PROVE  more \in Body
  <1>1. PICK sig \in Methods : call.out = sig.out
    BY DEF Calls
  <1>2. \E a \in AsyncOf(call) : more = AppendArguments(a.types, a.values)
    BY DEF Appended, Returned
  <1> QED
    BY <1>1, <1>2, AsyncFit, AppendsType

LEMMA CheckDBusMessageStep ==
    ASSUME ExchangeInv, CheckDBusMessage
    PROVE  ExchangeInv'
  <1> DEFINE call == Head(inbox)
  <1>1. /\ BuilderInv /\ MessagesInv /\ ReportedInv
        /\ inbox # <<>> /\ inbox' = Tail(inbox) /\ async' = <<>>
        /\ UNCHANGED <<work, signal, waiting, pending, started>>
    BY DEF ExchangeInv, CheckDBusMessage
  <1>2. /\ started \in Nat /\ async = <<>> /\ outbox \in Seq(Sent(started))
        /\ call \in Calls(started) /\ inbox' \in Seq(Calls(started))
    <2>1. inbox \in Seq(Calls(started))
      BY <1>1 DEF MessagesInv
    <2>2. Head(inbox) \in Calls(started) /\ Tail(inbox) \in Seq(Calls(started))
      BY <1>1, <2>1, HeadTailProperties
    <2> QED
      BY <1>1, <2>2 DEF MessagesInv
  <1>3. PICK returned \in Returned(call) \cup {Thrown} :
          \E more \in Appended(call, returned) :
            \/ outbox' = outbox \o Answers(call, returned, async \o more) /\ UNCHANGED failures
            \/ /\ \E answers \in Undelivered(call, returned, async \o more) : outbox' = outbox \o answers
               /\ Fails
    BY DEF CheckDBusMessage
  <1>4. PICK more \in Appended(call, returned) :
          \/ outbox' = outbox \o Answers(call, returned, async \o more) /\ UNCHANGED failures
          \/ /\ \E answers \in Undelivered(call, returned, async \o more) : outbox' = outbox \o answers
             /\ Fails
    BY <1>3
  <1> HIDE DEF call
  <1>5. async \o more = more
    <2>1. more \in Body
      BY <1>2, AppendedBody
    <2> QED
      BY <1>2, <2>1, ConcatEmptySeq DEF Body
  <1>6. /\ Answers(call, returned, more) \in Seq(Sent(started))
        /\ Reported(Answers(call, returned, more), waiting)
        /\ Undelivered(call, returned, more) \subseteq Seq(Sent(started))
    BY <1>2, AnswersFacts
  <1>7. CASE outbox' = outbox \o Answers(call, returned, more) /\ UNCHANGED failures
    <2>1. outbox' \in Seq(Sent(started))
      BY <1>2, <1>6, <1>7, ConcatProperties
    <2>2. MessagesInv'
      BY <1>1, <1>2, <1>7, <2>1 DEF MessagesInv
    <2>3. failures = 0 => Reported(outbox', waiting)
      BY <1>1, <1>2, <1>6, <1>7, ReportedMore DEF ReportedInv
    <2> QED
      BY <1>1, <1>7, <2>2, <2>3, BuilderUnchanged DEF ExchangeInv, ReportedInv
  <1>8. CASE /\ \E answers \in Undelivered(call, returned, more) : outbox' = outbox \o answers
             /\ Fails
    <2>1. PICK answers \in Seq(Sent(started)) : outbox' = outbox \o answers
      BY <1>6, <1>8
    <2>2. outbox' \in Seq(Sent(started))
      BY <1>2, <2>1, ConcatProperties
    <2>3. failures' \in 0 .. MaxFailures /\ failures' # 0
      BY <1>1, <1>8, FailsFacts
    <2>4. MessagesInv'
      BY <1>1, <1>2, <2>2, <2>3 DEF MessagesInv
    <2> QED
      BY <1>1, <2>3, <2>4, BuilderUnchanged DEF ExchangeInv, ReportedInv
  <1> QED
    BY <1>4, <1>5, <1>7, <1>8

-----------------------------------------------------------------------------
(* The steps of a signal.                                                  *)

LEMMA MessagesUnchanged ==
    ASSUME MessagesInv, started' \in 0 .. MaxMessages, failures' \in 0 .. MaxFailures,
           inbox' \in Seq(Calls(started')), outbox' \in Seq(Sent(started')),
           UNCHANGED <<async, waiting, pending>>
    PROVE  MessagesInv'
  BY DEF MessagesInv

LEMMA Abandoned ==
    ASSUME BuilderInv, NEW t \in Threads, Abandon(t)
    PROVE  BuilderInv'
  <1>1. work' \in [Threads -> Works \cup {Null}] /\ signal' = Null
    BY DEF BuilderInv, Abandon
  <1> QED
    BY <1>1 DEF BuilderInv

LEMMA InitializeSignalStep ==
    ASSUME ExchangeInv, NEW t \in Threads, NEW sig \in Signals, NEW args \in ArgumentsOf(sig.in),
           InitializeBroadcastSignal(t, sig, args)
    PROVE  ExchangeInv'
  <1>1. /\ BuilderInv /\ MessagesInv /\ ReportedInv /\ Starts
        /\ UNCHANGED <<async, inbox, outbox, waiting, pending, failures>>
    BY DEF ExchangeInv, InitializeBroadcastSignal
  <1>2. /\ started' \in 0 .. MaxMessages
        /\ inbox \in Seq(Calls(started')) /\ outbox \in Seq(Sent(started'))
    BY <1>1, StartsFacts
  <1>3. MessagesInv'
    <2>1. failures' \in 0 .. MaxFailures
      BY <1>1 DEF MessagesInv
    <2> QED
      BY <1>1, <1>2, <2>1, MessagesUnchanged
  <1>4. BuilderInv'
    <2>1. CASE signal # Null
      BY <1>1, <2>1, Abandoned DEF InitializeBroadcastSignal
    <2>2. CASE signal = Null
      <3> DEFINE w == [sig |-> sig, args |-> args, next |-> 1]
      <3>1. signal' = [types |-> sig.in, body |-> <<>>] /\ work' = [work EXCEPT ![t] = w]
        BY <2>2 DEF InitializeBroadcastSignal
      <3>2. sig.in \in Seq(Types) /\ Fits(sig.in, args)
        BY SentTypes, ArgumentsFit
      <3>3. args \in Meanings /\ Len(args) \in Nat
        BY <3>2, LenProperties DEF Fits, Meanings
      <3>4. w \in Works
        BY <3>2, <3>3 DEF Works
      <3>5. work' \in [Threads -> Works \cup {Null}]
        <4> HIDE DEF w
        <4> QED
          BY <1>1, <3>1, <3>4 DEF BuilderInv
      <3>6. signal' \in [types : Seq(Types), body : Body]
        BY <3>1, <3>2, EmptySeq DEF Body
      <3>7. ASSUME Threads = {Main} PROVE BuiltBy(work[Main])'
        <4>1. work'[Main] = w
          <5> HIDE DEF w
          <5> QED
            BY <1>1, <3>1, <3>7 DEF BuilderInv
        <4>2. Built(sig.in, args, 0) = <<>>
          BY <3>2, BuiltFacts
        <4>3. w.next - 1 = 0 /\ w.sig = sig /\ w.args = args
          OBVIOUS
        <4>4. signal'.types = sig.in /\ signal'.body = <<>>
          BY <3>1
        <4> HIDE DEF w
        <4> QED
          BY <4>1, <4>2, <4>3, <4>4 DEF BuiltBy
      <3> QED
        BY <3>5, <3>6, <3>7 DEF BuilderInv
    <2> QED
      BY <2>1, <2>2
  <1> QED
    BY <1>1, <1>3, <1>4 DEF ExchangeInv, ReportedInv

LEMMA AppendToSignalStep ==
    ASSUME ExchangeInv, NEW t \in Threads, AppendToBroadcastSignal(t)
    PROVE  ExchangeInv'
  <1> DEFINE w == work[t]
             k == w.next
             part == AppendArgument(w.sig.in[k], w.args[k])
  <1>1. /\ BuilderInv /\ MessagesInv /\ ReportedInv
        /\ UNCHANGED <<async, inbox, outbox, waiting, pending, started, failures>>
    BY DEF ExchangeInv, AppendToBroadcastSignal
  <1>2. /\ w \in Works /\ k <= Len(w.args)
        /\ work' = [work EXCEPT ![t] = [w EXCEPT !.next = k + 1]]
        /\ signal' = IF signal = Null THEN Null ELSE [signal EXCEPT !.body = @ \o part]
    BY <1>1 DEF AppendToBroadcastSignal, BuilderInv
  <1>3. /\ Fits(w.sig.in, w.args) /\ Len(w.args) \in Nat /\ k \in 1 .. Len(w.args)
        /\ w \in [sig : Signals, args : Meanings, next : Nat]
    <2>1. Fits(w.sig.in, w.args) /\ w \in [sig : Signals, args : Meanings, next : Nat] /\ k \in 1 .. Len(w.args) + 1
      BY <1>2 DEF Works
    <2>2. Len(w.args) \in Nat
      BY <2>1, LenProperties DEF Fits
    <2> QED
      BY <1>2, <2>1, <2>2
  <1>4. part \in Body
    <2>1. w.sig.in[k] \in Types /\ w.args[k] \in Values(w.sig.in[k])
      BY <1>3, LenProperties DEF Fits
    <2> QED
      BY <2>1, LastArrives
  <1> DEFINE v == [w EXCEPT !.next = k + 1]
  <1>5. /\ v \in [sig : Signals, args : Meanings, next : Nat]
        /\ v.sig = w.sig /\ v.args = w.args /\ v.next = k + 1
    BY <1>3
  <1>6. v \in Works
    <2>1. k + 1 \in 1 .. Len(w.args) + 1
      BY <1>3
    <2> HIDE DEF v
    <2> QED
      BY <1>3, <1>5, <2>1 DEF Works
  <1> HIDE DEF v, part
  <1>7. work' \in [Threads -> Works \cup {Null}] /\ work'[t] = v
    BY <1>1, <1>2, <1>6 DEF BuilderInv, v
  <1>8. ASSUME signal # Null
        PROVE  /\ signal' \in [types : Seq(Types), body : Body]
               /\ signal'.types = signal.types /\ signal'.body = signal.body \o part
    <2>1. signal \in [types : Seq(Types), body : Body]
      BY <1>1, <1>8 DEF BuilderInv
    <2>2. signal.body \o part \in Body
      BY <1>4, <2>1, ConcatProperties DEF Body
    <2> DEFINE body == signal.body \o part
    <2>3. signal' = [signal EXCEPT !.body = body]
      BY <1>2, <1>8
    <2>4. body \in Body
      BY <2>2
    <2> HIDE DEF body
    <2>5. signal' \in [types : Seq(Types), body : Body] /\ signal'.types = signal.types /\ signal'.body = body
      BY <2>1, <2>3, <2>4
    <2> QED
      BY <2>5 DEF body
  <1>9. ASSUME Threads = {Main}, signal # Null
        PROVE  BuiltBy(work[Main])'
    <2>1. t = Main /\ w # Null
      BY <1>9 DEF AppendToBroadcastSignal
    <2>2. signal.types = w.sig.in /\ signal.body = Built(w.sig.in, w.args, k - 1)
      BY <1>1, <1>9, <2>1 DEF BuilderInv, BuiltBy
    <2>3. Built(w.sig.in, w.args, k) = Built(w.sig.in, w.args, k - 1) \o part
      BY <1>3, BuiltFacts DEF part
    <2>4. v.next - 1 = k
      BY <1>3, <1>5
    <2>5. signal'.types = v.sig.in /\ signal'.body = Built(v.sig.in, v.args, v.next - 1)
      <3> HIDE DEF k, w
      <3> QED
        BY <1>5, <1>8, <1>9, <2>2, <2>3, <2>4
    <2> QED
      BY <1>7, <2>1, <2>5 DEF BuiltBy
  <1>10. BuilderInv'
    <2>1. signal = Null => signal' = Null
      BY <1>2
    <2> QED
      BY <1>7, <1>8, <1>9, <2>1 DEF BuilderInv
  <1>11. MessagesInv'
    BY <1>1 DEF MessagesInv
  <1> QED
    BY <1>1, <1>10, <1>11 DEF ExchangeInv, ReportedInv

LEMMA SignalIsNotBuiltStep ==
    ASSUME ExchangeInv, NEW t \in Threads, SignalIsNotBuilt(t)
    PROVE  ExchangeInv'
  <1>1. /\ BuilderInv /\ MessagesInv /\ Abandon(t) /\ Fails
        /\ UNCHANGED <<async, inbox, outbox, waiting, pending, started>>
    BY DEF ExchangeInv, SignalIsNotBuilt
  <1>2. failures' \in 0 .. MaxFailures /\ failures' # 0
    BY <1>1, FailsFacts
  <1>3. MessagesInv'
    BY <1>1, <1>2 DEF MessagesInv
  <1> QED
    BY <1>1, <1>2, <1>3, Abandoned DEF ExchangeInv, ReportedInv

LEMMA SendSignalStep ==
    ASSUME ExchangeInv, NEW t \in Threads, SendBroadcastSignal(t)
    PROVE  ExchangeInv'
  <1> DEFINE w == work[t]
             message == Signal([in |-> signal.types], signal.body, w.args)
  <1>1. /\ BuilderInv /\ MessagesInv /\ ReportedInv /\ Abandon(t) /\ w \in Works /\ w.next > Len(w.args)
        /\ outbox' = IF signal = Null THEN outbox ELSE Append(outbox, message)
        /\ UNCHANGED <<async, inbox, waiting, pending, started, failures>>
    BY DEF ExchangeInv, SendBroadcastSignal, BuilderInv
  <1>2. outbox \in Seq(Sent(started)) /\ started \in Nat
    BY <1>1 DEF MessagesInv
  <1>3. ASSUME signal # Null PROVE message \in Sent(started) /\ message.kind = "signal"
    <2>1. signal \in [types : Seq(Types), body : Body]
      BY <1>1, <1>3 DEF BuilderInv
    <2>2. message = [kind |-> "signal", serial |-> 0, types |-> signal.types, body |-> signal.body, meant |-> w.args]
      BY DEF Signal
    <2>3. w.args \in Meanings /\ w.sig \in Signals /\ Fits(w.sig.in, w.args) /\ w.next - 1 = Len(w.args)
      <3>1. w \in [sig : Signals, args : Meanings, next : Nat] /\ w.next \in 1 .. Len(w.args) + 1
            /\ Fits(w.sig.in, w.args)
        BY <1>1 DEF Works
      <3>2. Len(w.args) \in Nat
        BY <3>1, LenProperties DEF Fits
      <3> QED
        BY <1>1, <3>1, <3>2
    <2>4. ASSUME Threads = {Main} PROVE Faithful(message)
      <3>1. t = Main /\ w # Null
        BY <2>4 DEF SendBroadcastSignal
      <3>2. signal.types = w.sig.in /\ signal.body = Built(w.sig.in, w.args, Len(w.args))
        BY <1>1, <1>3, <2>3, <2>4, <3>1 DEF BuilderInv, BuiltBy
      <3>3. signal.body = AppendArguments(w.sig.in, w.args)
        BY <2>3, <3>2, BuiltFacts
      <3>4. InOrder(w.sig.in)
        BY <2>3, SentTypes
      <3> HIDE DEF message
      <3> QED
        BY <2>2, <2>3, <3>2, <3>3, <3>4 DEF Faithful
    <2> HIDE DEF message, w
    <2>5. message \in [kind : {"signal"}, serial : {0}, types : Seq(Types), body : Body, meant : Meanings]
      BY <2>1, <2>2, <2>3
    <2>6. message \in Broadcasts
      BY <2>4, <2>5 DEF Broadcasts
    <2> QED
      BY <2>2, <2>6 DEF Sent
  <1> HIDE DEF message
  <1>4. CASE signal = Null
    <2>1. MessagesInv'
      BY <1>1, <1>4 DEF MessagesInv
    <2> QED
      BY <1>1, <1>4, <2>1, Abandoned DEF ExchangeInv, ReportedInv
  <1>5. CASE signal # Null
    <2>1. outbox' \in Seq(Sent(started))
      BY <1>1, <1>2, <1>3, <1>5, AppendedType
    <2>2. MessagesInv'
      BY <1>1, <2>1 DEF MessagesInv
    <2>3. outbox' = outbox \o <<message>> /\ <<message>> \in Seq(Sent(started))
      BY <1>1, <1>2, <1>3, <1>5
    <2>4. Reported(<<message>>, waiting)
      BY <1>3, <1>5 DEF Reported
    <2>5. failures = 0 => Reported(outbox', waiting)
      BY <1>1, <1>2, <2>3, <2>4, ReportedMore DEF ReportedInv
    <2> QED
      BY <1>1, <2>2, <2>5, Abandoned DEF ExchangeInv, ReportedInv
  <1> QED
    BY <1>4, <1>5

LEMMA ExchangeStep ==
    ASSUME ExchangeInv, Next
    PROVE  ExchangeInv'
  <1>1. CASE \E sig \in Methods : \E args \in ArgumentsOf(sig.in) : RemoteMethodCall(sig, args)
    BY <1>1, RemoteMethodCallStep
  <1>2. CASE CallIsNotBuilt \/ CallIsNotSent
    BY <1>2, CallFailsStep
  <1>3. CASE WaitForRemoteMethodCallReply \/ ReplyTimesOut \/ ServiceReadsMessage
    BY <1>3, ServiceReadsStep
  <1>4. CASE CheckDBusMessage
    BY <1>4, CheckDBusMessageStep
  <1>5. ASSUME NEW t \in Threads,
               \/ \E sig \in Signals : \E args \in ArgumentsOf(sig.in) : InitializeBroadcastSignal(t, sig, args)
               \/ AppendToBroadcastSignal(t)
               \/ SignalIsNotBuilt(t)
               \/ SendBroadcastSignal(t)
        PROVE  ExchangeInv'
    BY <1>5, InitializeSignalStep, AppendToSignalStep, SignalIsNotBuiltStep, SendSignalStep
  <1> QED
    BY <1>1, <1>2, <1>3, <1>4, <1>5 DEF Next, ServiceNext, DaemonNext

LEMMA ExchangeStutters ==
    ASSUME ExchangeInv, UNCHANGED exchangeVars
    PROVE  ExchangeInv'
  <1>1. UNCHANGED <<work, signal, async, inbox, outbox, waiting, pending, started, failures>>
    BY DEF exchangeVars, vars
  <1> QED
    BY <1>1 DEF ExchangeInv, BuilderInv, BuiltBy, MessagesInv, ReportedInv

-----------------------------------------------------------------------------
(* The registry.  The invariant counts: the events of a rule are a finite  *)
(* set, which grows by one and shrinks by those of an interface.           *)

RegistryInv ==
  /\ EventsTypeOK
  /\ IsFiniteSet(registered)
  /\ RulesMatchEvents
  /\ IntrospectionFollowsObjects
  /\ \A e \in registered : e.interface = Introspectable => <<e.bus, e.path>> \in Range(objects)

(* The standard interface only holds the Introspect method of the object.  *)
LEMMA KindsOfEvents ==
  ASSUME NEW e \in AllEvents
  PROVE  /\ e.interface = Introspectable => ~e.introspectable /\ e = Introspect(e.bus, e.path)
         /\ e.interface # Introspectable => e \in Events
         /\ RuleMatch(e) \in Rules
         /\ \E f \in Events : e.bus = f.bus /\ e.path = f.path
  <1>1. CASE e \in Events
    BY <1>1, EventsAssumption DEF Rules
  <1>2. ASSUME NEW f \in Events, e = Introspect(f.bus, f.path)
        PROVE  /\ e.interface = Introspectable /\ ~e.introspectable /\ e = Introspect(e.bus, e.path)
               /\ e.bus = f.bus /\ e.path = f.path
    <2>1. e.bus = f.bus /\ e.path = f.path /\ e.interface = Introspectable /\ e.introspectable = FALSE
      BY <1>2 DEF Introspect
    <2>2. Introspect(e.bus, e.path) = Introspect(f.bus, f.path)
      BY <2>1
    <2> QED
      BY <1>2, <2>1, <2>2
  <1> QED
    BY <1>1, <1>2 DEF AllEvents, Rules

LEMMA AddedEvents ==
  ASSUME NEW e \in Events
  PROVE  e \in AllEvents /\ Introspect(e.bus, e.path) \in AllEvents
  BY DEF AllEvents

(* What introspection lists follows from the list of objects.              *)
LEMMA ListedObjects ==
  ASSUME RegistryInv
  PROVE  ObjectsAreListed
  <1>1. ASSUME NEW e \in registered, e.interface = Introspectable
        PROVE  e.path \in IntrospectedRoot(e.bus)
    <2>1. PICK i \in DOMAIN objects : objects[i] = <<e.bus, e.path>>
      BY <1>1 DEF RegistryInv, Range
    <2> QED
      BY <2>1 DEF IntrospectedRoot
  <1>2. ASSUME NEW e \in registered, e.type = "method", NEW s \in Declared, s.bus = e.bus
        PROVE  e \in Introspected(e.bus, e.path)
    BY <1>2 DEF Introspected, OfObject, MayIntrospect
  <1> QED
    BY <1>1, <1>2 DEF ObjectsAreListed

-----------------------------------------------------------------------------
(* addEvent()                                                              *)

LEMMA AddEventTypes ==
  ASSUME RegistryInv, NEW e \in Events, AddEvent(e)
  PROVE  EventsTypeOK' /\ IsFiniteSet(registered)'
  <1> DEFINE i == Introspect(e.bus, e.path)
  <1>1. registered' \in {registered \cup {e}, (registered \cup {e}) \cup {i}}
    BY DEF AddEvent
  <1>2. IsFiniteSet(registered)'
    <2>1. IsFiniteSet(registered \cup {e})
      BY FS_AddElement DEF RegistryInv
    <2>2. IsFiniteSet((registered \cup {e}) \cup {i})
      BY <2>1, FS_AddElement
    <2> QED
      BY <1>1, <2>1, <2>2
  <1>3. registered' \subseteq AllEvents
    BY <1>1, AddedEvents DEF RegistryInv, EventsTypeOK
  <1>4. \A f \in registered' : f.interface \in interfaces'
    <2>1. interfaces \cup {e.interface} \subseteq interfaces'
      BY DEF AddEvent
    <2>2. \A f \in registered \cup {e} : f.interface \in interfaces'
      BY <2>1 DEF RegistryInv, EventsTypeOK
    <2>3. CASE i \in registered
      BY <1>1, <2>2, <2>3
    <2>4. CASE i \notin registered /\ e.introspectable
      <3>1. Introspectable \in interfaces'
        BY <2>4 DEF AddEvent
      <3>2. i.interface = Introspectable
        BY DEF Introspect
      <3> HIDE DEF i
      <3> QED
        BY <1>1, <2>2, <3>1, <3>2
    <2>5. CASE i \notin registered /\ ~e.introspectable
      <3>1. registered' = registered \cup {e}
        BY <2>5 DEF AddEvent
      <3> QED
        BY <2>2, <3>1
    <2> QED
      BY <2>3, <2>4, <2>5
  <1>5. rules' \in [Rules -> Nat]
    <2>1. rules \in [Rules -> Nat] /\ RuleMatch(e) \in Rules
      BY AddedEvents, KindsOfEvents DEF RegistryInv, EventsTypeOK
    <2>2. rules' = [rules EXCEPT ![RuleMatch(e)] = @ + 1] \/ rules' = rules
      BY DEF AddEvent
    <2> QED
      BY <2>1, <2>2
  <1>6. objects' \in Seq({<<f.bus, f.path>> : f \in Events})
    BY DEF AddEvent, RegistryInv, EventsTypeOK
  <1> QED
    BY <1>2, <1>3, <1>4, <1>5, <1>6 DEF EventsTypeOK

(* A new signal adds one to its rule, and a method to none.                *)
LEMMA AddEventRules ==
  ASSUME RegistryInv, NEW e \in Events, AddEvent(e)
  PROVE  RulesMatchEvents'
  <1> SUFFICES ASSUME NEW r \in Rules
               PROVE  rules'[r] = Cardinality(SignalsOf(registered', r))
    BY DEF RulesMatchEvents
  <1> DEFINE i == Introspect(e.bus, e.path)
             S == SignalsOf(registered, r)
  <1>1. registered' \in {registered \cup {e}, (registered \cup {e}) \cup {i}} /\ e \notin registered
    BY DEF AddEvent
  <1>2. i.type # "signal"
    BY DEF Introspect
  <1>3. S \subseteq registered /\ IsFiniteSet(S) /\ rules[r] = Cardinality(S) /\ e \notin S
    BY <1>1, FS_Subset DEF SignalsOf, RegistryInv, RulesMatchEvents
  <1>4. rules \in [Rules -> Nat] /\ RuleMatch(e) \in Rules
    BY AddedEvents, KindsOfEvents DEF RegistryInv, EventsTypeOK
  <1>5. CASE e.type = "signal" /\ RuleMatch(e) = r
    <2>1. SignalsOf(registered', r) = S \cup {e}
      BY <1>1, <1>2, <1>5 DEF SignalsOf
    <2>2. rules'[r] = rules[r] + 1
      BY <1>4, <1>5 DEF AddEvent
    <2> QED
      BY <1>3, <2>1, <2>2, FS_AddElement
  <1>6. CASE ~(e.type = "signal" /\ RuleMatch(e) = r)
    <2>1. SignalsOf(registered', r) = S
      BY <1>1, <1>2, <1>6 DEF SignalsOf
    <2>2. rules'[r] = rules[r]
      BY <1>4, <1>6 DEF AddEvent
    <2> QED
      BY <1>3, <2>1, <2>2
  <1> QED
    BY <1>5, <1>6

(* The first introspectable event of an object exposes its Introspect      *)
(* method, and lists the object.                                           *)
LEMMA AddEventIntrospection ==
  ASSUME RegistryInv, NEW e \in Events, AddEvent(e)
  PROVE  /\ IntrospectionFollowsObjects'
         /\ \A f \in registered' : f.interface = Introspectable => <<f.bus, f.path>> \in Range(objects')
  <1> DEFINE i == Introspect(e.bus, e.path)
             exposes == e.introspectable /\ i \notin registered
  <1>1. /\ registered' = registered \cup {e} \cup (IF exposes THEN {i} ELSE {})
        /\ objects' = IF exposes THEN Append(objects, <<e.bus, e.path>>) ELSE objects
    BY DEF AddEvent
  <1>2. e.interface # Introspectable
    BY EventsAssumption
  <1>3. i.bus = e.bus /\ i.path = e.path /\ i.interface = Introspectable /\ i.introspectable = FALSE
    BY DEF Introspect
  <1> HIDE DEF i
  <1>4. \A f \in registered' : f = e \/ f = i \/ f \in registered
    BY <1>1
  <1>5. ASSUME NEW f \in registered', f.introspectable
        PROVE  Introspect(f.bus, f.path) \in registered'
    <2>1. CASE f = e
      BY <1>1, <1>5, <2>1 DEF i
    <2>2. CASE f \in registered
      BY <1>1, <1>5, <2>2 DEF RegistryInv, IntrospectionFollowsObjects
    <2> QED
      BY <1>3, <1>4, <1>5, <2>1, <2>2
  <1>6. ASSUME NEW f \in registered', f.interface = Introspectable
        PROVE  \E g \in registered' : <<g.bus, g.path>> = <<f.bus, f.path>> /\ g.interface # Introspectable
    <2>1. CASE f = i
      BY <1>1, <1>2, <1>3, <2>1
    <2>2. CASE f \in registered
      BY <1>1, <1>6, <2>2 DEF RegistryInv, IntrospectionFollowsObjects
    <2> QED
      BY <1>2, <1>4, <1>6, <2>1, <2>2
  <1>7. ASSUME NEW f \in registered', f.interface = Introspectable
        PROVE  <<f.bus, f.path>> \in Range(objects')
    <2>1. objects \in Seq({<<g.bus, g.path>> : g \in Events})
      BY DEF RegistryInv, EventsTypeOK
    <2>2. Range(objects) \subseteq Range(objects')
      BY <1>1, <2>1 DEF Range
    <2>3. CASE f \in registered
      BY <1>7, <2>2, <2>3 DEF RegistryInv
    <2>4. CASE f = i /\ f \notin registered
      <3>1. exposes
        BY <1>1, <1>2, <1>3, <2>4
      <3>2. objects' = Append(objects, <<e.bus, e.path>>)
        BY <1>1, <3>1
      <3>3. objects'[Len(objects) + 1] = <<e.bus, e.path>> /\ Len(objects) + 1 \in DOMAIN objects'
        BY <2>1, <3>2
      <3> QED
        BY <1>3, <2>4, <3>3 DEF Range
    <2> QED
      BY <1>2, <1>4, <1>7, <2>3, <2>4
  <1> QED
    BY <1>5, <1>6, <1>7 DEF IntrospectionFollowsObjects

-----------------------------------------------------------------------------
(* removeInterface()                                                       *)

(* What goes is of the object: the events of the interface, or all of them *)
(* when nothing is left but the introspection.                             *)
LEMMA RemovedEvents ==
  ASSUME RegistryInv, NEW bus, NEW path, NEW interface, interface # Introspectable,
         RemoveInterface(bus, path, interface)
  PROVE  LET removed == Removed(bus, path, interface) IN
         /\ registered' = registered \ removed
         /\ removed \subseteq OfObject(bus, path)
         /\ \/ OfObject(bus, path) \cap registered' = {}
            \/ /\ \A e \in removed : e.interface # Introspectable
               /\ \E e \in OfObject(bus, path) \cap registered' : e.interface # Introspectable
  <1> DEFINE removed == Removed(bus, path, interface)
             object == OfObject(bus, path)
             chosen == {e \in object : e.interface = interface}
  <1>1. registered' = registered \ removed /\ removed # {}
    BY DEF RemoveInterface
  <1>2. object \subseteq registered
    BY DEF OfObject
  <1>3. CASE chosen # {} /\ \A e \in object \ chosen : e.interface = Introspectable
    <2>1. removed = object
      BY <1>3 DEF Removed
    <2> QED
      BY <1>1, <2>1
  <1>4. CASE ~(chosen # {} /\ \A e \in object \ chosen : e.interface = Introspectable)
    <2>1. removed = chosen
      BY <1>4 DEF Removed
    <2> QED
      BY <1>1, <1>2, <1>4, <2>1
  <1> QED
    BY <1>3, <1>4

(* The rules lose as many as there are signals removed.                    *)
LEMMA RemoveInterfaceRules ==
  ASSUME RegistryInv, NEW bus, NEW path, NEW interface, RemoveInterface(bus, path, interface),
         Removed(bus, path, interface) \subseteq registered
  PROVE  RulesMatchEvents' /\ rules' \in [Rules -> Nat]
  <1> DEFINE removed == Removed(bus, path, interface)
  <1>1. /\ registered' = registered \ removed
        /\ rules' = [r \in Rules |-> rules[r] - Cardinality(SignalsOf(removed, r))]
    BY DEF RemoveInterface
  <1> HIDE DEF removed
  <1>2. ASSUME NEW r \in Rules
        PROVE  rules'[r] = Cardinality(SignalsOf(registered', r)) /\ rules'[r] \in Nat
    <2> DEFINE S == SignalsOf(registered, r)
               T == SignalsOf(removed, r)
    <2>1. IsFiniteSet(S) /\ rules[r] = Cardinality(S)
      BY FS_Subset DEF SignalsOf, RegistryInv, RulesMatchEvents
    <2>2. S \cap T = T
      BY DEF SignalsOf, removed
    <2>3. SignalsOf(registered', r) = S \ T
      BY <1>1 DEF SignalsOf
    <2> HIDE DEF S, T
    <2>4. Cardinality(S \ T) = Cardinality(S) - Cardinality(T) /\ IsFiniteSet(S \ T)
      <3>1. Cardinality(S \ T) = Cardinality(S) - Cardinality(S \cap T) /\ IsFiniteSet(S \ T)
        BY <2>1, FS_Difference
      <3> QED
        BY <2>2, <3>1
    <2>5. rules'[r] = rules[r] - Cardinality(T)
      BY <1>1 DEF T
    <2>6. Cardinality(S \ T) \in Nat
      BY <2>4, FS_CardinalityType
    <2> QED
      BY <2>1, <2>3, <2>4, <2>5, <2>6
  <1>3. rules' \in [Rules -> Nat]
    BY <1>1, <1>2
  <1> QED
    BY <1>2, <1>3 DEF RulesMatchEvents

(* An object keeps its introspection as long as it keeps something else.   *)
LEMMA RemoveInterfaceIntrospection ==
  ASSUME RegistryInv, NEW bus, NEW path, NEW interface, interface # Introspectable,
         RemoveInterface(bus, path, interface)
  PROVE  IntrospectionFollowsObjects'
  <1> DEFINE removed == Removed(bus, path, interface)
             object == OfObject(bus, path)
  <1>1. /\ registered' = registered \ removed
        /\ removed \subseteq object
        /\ \/ object \cap registered' = {}
           \/ /\ \A e \in removed : e.interface # Introspectable
              /\ \E e \in object \cap registered' : e.interface # Introspectable
    BY RemovedEvents
  <1> HIDE DEF removed
  <1>2. \A e \in registered : e \in object <=> e.bus = bus /\ e.path = path
    BY DEF OfObject
  <1>3. ASSUME NEW e \in registered', e.introspectable
        PROVE  Introspect(e.bus, e.path) \in registered'
    <2> DEFINE i == Introspect(e.bus, e.path)
    <2>1. i \in registered
      BY <1>1, <1>3 DEF RegistryInv, IntrospectionFollowsObjects
    <2>2. i.bus = e.bus /\ i.path = e.path /\ i.interface = Introspectable
      BY DEF Introspect
    <2> HIDE DEF i
    <2>3. i \in object <=> e \in object
      BY <1>1, <1>2, <2>1, <2>2
    <2>4. i \notin removed
      BY <1>1, <2>2, <2>3
    <2> QED
      BY <1>1, <2>1, <2>4 DEF i
  <1>4. ASSUME NEW e \in registered', e.interface = Introspectable
        PROVE  \E f \in registered' : <<f.bus, f.path>> = <<e.bus, e.path>> /\ f.interface # Introspectable
    <2>1. PICK f \in registered : <<f.bus, f.path>> = <<e.bus, e.path>> /\ f.interface # Introspectable
      BY <1>1, <1>4 DEF RegistryInv, IntrospectionFollowsObjects
    <2>2. CASE e \in object
      <3>1. PICK g \in object \cap registered' : g.interface # Introspectable
        BY <1>1, <2>2
      <3>2. g.bus = e.bus /\ g.path = e.path
        BY <1>1, <1>2, <2>2, <3>1
      <3> QED
        BY <3>1, <3>2
    <2>3. CASE e \notin object
      <3>1. f \notin object
        BY <1>1, <1>2, <2>1, <2>3
      <3> QED
        BY <1>1, <2>1, <3>1
    <2> QED
      BY <2>2, <2>3
  <1> QED
    BY <1>3, <1>4 DEF IntrospectionFollowsObjects

-----------------------------------------------------------------------------
(* The registry of a program that exchanges messages.                      *)

LEMMA RegistryStep ==
  ASSUME RegistryInv, EventsNext
  PROVE  RegistryInv'
  <1>1. ASSUME NEW e \in Events, AddEvent(e)
        PROVE  RegistryInv'
    BY <1>1, AddEventTypes, AddEventRules, AddEventIntrospection DEF RegistryInv
  <1>2. ASSUME NEW e \in Events, RemoveInterface(e.bus, e.path, e.interface)
        PROVE  RegistryInv'
    <2>1. e.interface # Introspectable
      BY EventsAssumption
    <2>2. registered' \subseteq registered /\ Removed(e.bus, e.path, e.interface) \subseteq registered
      BY <1>2, <2>1, RemovedEvents DEF OfObject
    <2>3. UNCHANGED <<interfaces, objects>>
      BY <1>2 DEF RemoveInterface
    <2>4. IsFiniteSet(registered')
      BY <2>2, FS_Subset DEF RegistryInv
    <2>5. RulesMatchEvents' /\ rules' \in [Rules -> Nat]
      BY <1>2, <2>2, RemoveInterfaceRules
    <2>6. IntrospectionFollowsObjects'
      BY <1>2, <2>1, RemoveInterfaceIntrospection
    <2> QED
      BY <2>2, <2>3, <2>4, <2>5, <2>6 DEF RegistryInv, EventsTypeOK
  <1> QED
    BY <1>1, <1>2 DEF EventsNext

LEMMA RegistryInit == EventsInit => RegistryInv
  <1> SUFFICES ASSUME EventsInit PROVE RegistryInv
    OBVIOUS
  <1>1. \A r \in Rules : SignalsOf({}, r) = {}
    BY DEF SignalsOf
  <1> QED
    BY <1>1, FS_EmptySet
    DEF EventsInit, RegistryInv, EventsTypeOK, RulesMatchEvents, IntrospectionFollowsObjects

-----------------------------------------------------------------------------
(* The program.                                                            *)

LEMMA ExchangeSteps ==
    ASSUME ExchangeInv, [InitializeEvents \/ Exchange]_<<exchangeVars, eventVars>>
    PROVE  ExchangeInv'
  <1>1. CASE UNCHANGED exchangeVars
    BY <1>1, ExchangeStutters
  <1>2. CASE Next
    BY <1>2, ExchangeStep
  <1> QED
    BY <1>1, <1>2 DEF InitializeEvents, Exchange

LEMMA RegistrySteps ==
    ASSUME RegistryInv, [InitializeEvents \/ Exchange]_<<exchangeVars, eventVars>>
    PROVE  RegistryInv'
  <1>1. CASE UNCHANGED eventVars
    BY <1>1 DEF eventVars, RegistryInv, EventsTypeOK, RulesMatchEvents, IntrospectionFollowsObjects
  <1>2. CASE EventsNext
    BY <1>2, RegistryStep
  <1> QED
    BY <1>1, <1>2 DEF InitializeEvents, Exchange

(* In every state of a program the messages on the bus, the signals under  *)
(* construction, the pending call and the registry have their types:       *)
(* a call that is pending has a caller that waits for it, and a thread     *)
(* never appends more arguments than its signal has.                       *)
THEOREM ProgramTypes == PSpec => []ProgramTypeOK
  <1>1. PInit => ExchangeInv /\ RegistryInv
    BY ExchangeInit, RegistryInit DEF PInit
  <1>2. ExchangeInv /\ RegistryInv /\ [InitializeEvents \/ Exchange]_<<exchangeVars, eventVars>>
        => (ExchangeInv /\ RegistryInv)'
    BY ExchangeSteps, RegistrySteps
  <1>3. ExchangeInv /\ RegistryInv => ProgramTypeOK
    BY ExchangeTypes DEF RegistryInv, ProgramTypeOK
  <1> QED
    BY <1>1, <1>2, <1>3, PTL DEF PSpec

(* In every state of a program, however many threads of the daemon         *)
(* broadcast signals: the daemon reads the arguments that the service      *)
(* called with, the caller reads the value that the callback returned and  *)
(* its async arguments, and the default value that follows an exception    *)
(* never comes before its error.                                           *)
THEOREM CallsAndAnswersArrive == PSpec => [](CallsArrive /\ ReturnArrives /\ FailureIsReported)
  <1>1. PInit => ExchangeInv
    BY ExchangeInit DEF PInit
  <1>2. ExchangeInv /\ [InitializeEvents \/ Exchange]_<<exchangeVars, eventVars>> => ExchangeInv'
    BY ExchangeSteps
  <1>3. ExchangeInv => CallsArrive /\ ReturnArrives /\ FailureIsReported
    BY CallsAndAnswers
  <1> QED
    BY <1>1, <1>2, <1>3, PTL DEF PSpec

(* And the signals arrive too, if the main thread broadcasts all of them,  *)
(* as it does while no listening thread has something to say: each         *)
(* callback reads the arguments that were appended.                        *)
THEOREM ValuesAlwaysArrive ==
    ASSUME Threads = {Main}
    PROVE  PSpec => []ValuesArrive
  <1>1. PInit => ExchangeInv
    BY ExchangeInit DEF PInit
  <1>2. ExchangeInv /\ [InitializeEvents \/ Exchange]_<<exchangeVars, eventVars>> => ExchangeInv'
    BY ExchangeSteps
  <1>3. ExchangeInv => ValuesArrive
    BY ExchangeArrives
  <1> QED
    BY <1>1, <1>2, <1>3, PTL DEF PSpec

(* In every state of a program the bus has a match rule per signal that it *)
(* has a callback for, an object can be introspected as long as it has     *)
(* something to show, and introspection lists it with its methods.         *)
THEOREM RegistryStaysConsistent == PSpec => []RegistryAgrees
  <1>1. PInit => RegistryInv
    BY RegistryInit DEF PInit
  <1>2. RegistryInv /\ [InitializeEvents \/ Exchange]_<<exchangeVars, eventVars>> => RegistryInv'
    BY RegistrySteps
  <1>3. RegistryInv => RegistryAgrees
    BY ListedObjects DEF RegistryInv, RegistryAgrees
  <1> QED
    BY <1>1, <1>2, <1>3, PTL DEF PSpec
=============================================================================
