----------------------------- MODULE TextsProofs -----------------------------
(***************************************************************************)
(* What the parsers make of texts of any length.                           *)
(*                                                                         *)
(* The parsers are loops, and recursive functions here.  One lemma says    *)
(* that a loop over a sequence is defined by its first value and its step; *)
(* each parser has one that gives its step, and induction over the text    *)
(* says what it yields.                                                    *)
(***************************************************************************)
EXTENDS Texts, SequenceTheorems, WellFoundedInduction, FiniteSetTheorems, TLAPS

-----------------------------------------------------------------------------
(* Induction over the naturals, with the predicate as the set where it holds. *)
LEMMA SetInduction ==
    ASSUME NEW S, 0 \in S, \A k \in Nat : k \in S => k + 1 \in S
    PROVE  \A k \in Nat : k \in S
<1> SUFFICES ASSUME NEW k \in Nat, k \notin S
             PROVE  FALSE
  OBVIOUS
<1> DEFINE bad == {l \in Nat : l \notin S}
<1>1. PICK x \in bad : \A y \in bad : <<y, x>> \notin OpToRel(<, Nat)
  BY NatLessThanWellFounded, WFMin
<1>2. \A y \in bad : ~(y < x)
  BY <1>1, Zenon DEF OpToRel
<1>3. x # 0 /\ x \in Nat
  BY <1>1
<1>4. x - 1 \in Nat /\ x - 1 \notin bad
  BY <1>2, <1>3
<1>5. x \in S
  BY <1>3, <1>4
<1> QED
  BY <1>1, <1>5

(* Induction over sequences, with the predicate as the set where it holds. *)
LEMMA SeqInduction ==
    ASSUME NEW T, NEW G, <<>> \in G, \A s \in Seq(T), e \in T : s \in G => Append(s, e) \in G
    PROVE  \A s \in Seq(T) : s \in G
<1> DEFINE good == {k \in Nat : \A s \in Seq(T) : Len(s) = k => s \in G}
<1>1. 0 \in good
  BY EmptySeq
<1>2. ASSUME NEW k \in Nat, k \in good
      PROVE  k + 1 \in good
  <2> SUFFICES ASSUME NEW s \in Seq(T), Len(s) = k + 1 PROVE s \in G
    OBVIOUS
  <2>1. s # <<>>
    BY EmptySeq
  <2>2. PICK t \in Seq(T), e \in T : s = Append(t, e)
    BY <2>1, SequenceEmptyOrAppend
  <2>3. Len(t) = k
    BY <2>2, AppendProperties, LenProperties
  <2> QED
    BY <1>2, <2>2, <2>3
<1>3. \A k \in Nat : k \in good
  <2> HIDE DEF good
  <2> QED
    BY <1>1, <1>2, SetInduction
<1> QED
  BY <1>3, LenProperties

(* The rounds of a loop over the items of a sequence, for as long as it stays in a set. *)
Unfolds(f, n, S, base, step, xs) ==
    /\ f[0] = base
    /\ \A i \in 1..n : f[i - 1] \in S => f[i] = step[xs[i]][f[i - 1]]

LEMMA LoopUnique ==
    ASSUME NEW S, NEW base \in S, NEW T, NEW step \in [T -> [S -> S]], NEW xs \in Seq(T), NEW n \in 0..Len(xs),
           NEW f, NEW g, Unfolds(f, n, S, base, step, xs), Unfolds(g, n, S, base, step, xs)
    PROVE  f[n] \in S /\ g[n] = f[n]
<1> DEFINE same == {k \in Nat : k <= n => f[k] \in S /\ g[k] = f[k]}
<1>1. n \in Nat /\ n <= Len(xs)
  BY LenProperties
<1>2. 0 \in same
  BY <1>1 DEF Unfolds
<1>3. ASSUME NEW k \in Nat, k \in same
      PROVE  k + 1 \in same
  <2> SUFFICES ASSUME k + 1 <= n PROVE f[k + 1] \in S /\ g[k + 1] = f[k + 1]
    OBVIOUS
  <2>1. k + 1 \in 0..n /\ k + 1 # 0 /\ (k + 1) - 1 = k /\ k + 1 \in 1..Len(xs)
    BY <1>1, LenProperties
  <2>2. f[k] \in S /\ g[k] = f[k] /\ xs[k + 1] \in T
    BY <1>1, <1>3, <2>1, ElementOfSeq
  <2>3. f[k + 1] = step[xs[k + 1]][f[k]] /\ g[k + 1] = step[xs[k + 1]][f[k]]
    BY <2>1, <2>2 DEF Unfolds
  <2>4. step[xs[k + 1]][f[k]] \in S
    BY <2>2
  <2> QED
    BY <2>3, <2>4
<1>4. n \in same
  <2> HIDE DEF same
  <2> QED
    BY <1>1, <1>2, <1>3, SetInduction
<1> QED
  BY <1>1, <1>4

LEMMA LoopThere ==
    ASSUME NEW S, NEW base \in S, NEW T, NEW step \in [T -> [S -> S]], NEW xs \in Seq(T)
    PROVE  \E f \in [0..Len(xs) -> S] :
              /\ f = [i \in 0..Len(xs) |-> IF i = 0 THEN base ELSE step[xs[i]][f[i - 1]]]
              /\ Unfolds(f, Len(xs), S, base, step, xs)
<1> DEFINE good == {k \in Nat : k <= Len(xs) => \E f \in [0..k -> S] : Unfolds(f, k, S, base, step, xs)}
<1>1. Len(xs) \in Nat
  BY LenProperties
<1>2. 0 \in good
  <2>1. [i \in 0..0 |-> base] \in [0..0 -> S] /\ Unfolds([i \in 0..0 |-> base], 0, S, base, step, xs)
    BY DEF Unfolds
  <2> QED
    BY <2>1
<1>3. ASSUME NEW k \in Nat, k \in good
      PROVE  k + 1 \in good
  <2> SUFFICES ASSUME k + 1 <= Len(xs)
               PROVE  \E f \in [0..(k + 1) -> S] : Unfolds(f, k + 1, S, base, step, xs)
    OBVIOUS
  <2>1. PICK g \in [0..k -> S] : Unfolds(g, k, S, base, step, xs)
    BY <1>1, <1>3
  <2>2. PICK f : f = [i \in 0..(k + 1) |-> IF i = k + 1 THEN step[xs[k + 1]][g[k]] ELSE g[i]]
    OBVIOUS
  <2>3. step[xs[k + 1]][g[k]] \in S
    BY <1>1, <2>1, ElementOfSeq
  <2>4. f \in [0..(k + 1) -> S]
    BY <2>1, <2>2, <2>3
  <2>5. ASSUME NEW i \in 0..(k + 1)
        PROVE  f[i] = IF i = 0 THEN base ELSE step[xs[i]][f[i - 1]]
    <3>1. CASE i = k + 1
      BY <2>2, <3>1
    <3>2. CASE i # k + 1
      BY <2>1, <2>2, <3>2 DEF Unfolds
    <3> QED
      BY <3>1, <3>2
  <2> QED
    BY <2>4, <2>5 DEF Unfolds
<1>4. Len(xs) \in good
  <2> HIDE DEF good
  <2> QED
    BY <1>1, <1>2, <1>3, SetInduction
<1>5. PICK f \in [0..Len(xs) -> S] : Unfolds(f, Len(xs), S, base, step, xs)
  BY <1>1, <1>4
<1>6. f = [i \in 0..Len(xs) |-> f[i]]
  BY <1>5
<1>7. \A i \in 0..Len(xs) : f[i] = IF i = 0 THEN base ELSE step[xs[i]][f[i - 1]]
  <2>1. \A i \in 0..Len(xs) : i # 0 => i \in 1..Len(xs) /\ f[i - 1] \in S
    BY <1>1, <1>5
  <2> QED
    BY <1>1, <1>5, <2>1, SMTT(30) DEF Unfolds
<1>8. f = [i \in 0..Len(xs) |-> IF i = 0 THEN base ELSE step[xs[i]][f[i - 1]]]
  BY <1>6, <1>7, Zenon
<1> QED
  BY <1>5, <1>8

(* A loop as a function of the sequence: one more item, one more step; and what unfolds like *)
(* the loop has its result.                                                                  *)
Runs(run, S, T, base, step) ==
    /\ run \in [Seq(T) -> S]
    /\ run[<<>>] = base
    /\ \A xs \in Seq(T), x \in T : run[Append(xs, x)] = step[x][run[xs]]
    /\ \A xs \in Seq(T) :
          \E f : /\ f = [i \in 0..Len(xs) |-> IF i = 0 THEN base ELSE step[xs[i]][f[i - 1]]]
                 /\ \A i \in 0..Len(xs) : f[i] \in S
                 /\ \A g : Unfolds(g, Len(xs), S, base, step, xs) => g[Len(xs)] = run[xs]

LEMMA LoopOver ==
    ASSUME NEW S, NEW base \in S, NEW T, NEW step \in [T -> [S -> S]]
    PROVE  \E run : Runs(run, S, T, base, step)
<1> DEFINE loop(xs) == CHOOSE f : Unfolds(f, Len(xs), S, base, step, xs)
           run == [xs \in Seq(T) |-> loop(xs)[Len(xs)]]
<1>1. ASSUME NEW xs \in Seq(T)
      PROVE  Unfolds(loop(xs), Len(xs), S, base, step, xs)
  BY LoopThere
<1>2. ASSUME NEW xs \in Seq(T)
      PROVE  Len(xs) \in Nat /\ Len(xs) \in 0..Len(xs)
  BY LenProperties
<1>3. ASSUME NEW xs \in Seq(T)
      PROVE  run[xs] \in S /\ \A g : Unfolds(g, Len(xs), S, base, step, xs) => g[Len(xs)] = run[xs]
  <2>1. run[xs] = loop(xs)[Len(xs)]
    OBVIOUS
  <2> HIDE DEF loop, run
  <2>2. PICK n \in 0..Len(xs) : n = Len(xs)
    BY <1>2
  <2>3. PICK h : h = loop(xs) /\ Unfolds(h, n, S, base, step, xs)
    BY <1>1, <2>2, Zenon
  <2>4. ASSUME NEW g, Unfolds(g, n, S, base, step, xs)
        PROVE  h[n] \in S /\ g[n] = h[n]
    BY <2>3, <2>4, LoopUnique
  <2>5. run[xs] = h[n]
    BY <2>1, <2>2, <2>3, Zenon
  <2> QED
    BY <2>2, <2>3, <2>4, <2>5, Zenon
<1>4. run \in [Seq(T) -> S]
  <2> HIDE DEF loop
  <2> QED
    BY <1>3
<1>5. run[<<>>] = base
  <2>1. <<>> \in Seq(T) /\ Len(<<>>) = 0
    BY EmptySeq
  <2>2. Unfolds(loop(<<>>), 0, S, base, step, <<>>) /\ run[<<>>] = loop(<<>>)[0]
    BY <1>1, <2>1
  <2> HIDE DEF loop, run
  <2> QED
    BY <2>2 DEF Unfolds
<1>6. ASSUME NEW xs \in Seq(T), NEW x \in T
      PROVE  run[Append(xs, x)] = step[x][run[xs]]
  <2>1. PICK ys : ys = Append(xs, x)
    OBVIOUS
  <2>2. PICK n : n = Len(xs)
    OBVIOUS
  <2>3. /\ ys \in Seq(T) /\ n \in Nat /\ Len(ys) = n + 1 /\ ys[n + 1] = x
        /\ \A i \in 1..n : ys[i] = xs[i]
    BY <2>1, <2>2, AppendProperties, LenProperties
  <2>4. PICK g : Unfolds(g, n + 1, S, base, step, ys) /\ run[ys] = g[n + 1]
    <3>1. Unfolds(loop(ys), Len(ys), S, base, step, ys)
      BY <1>1, <2>3
    <3>2. run[ys] = loop(ys)[Len(ys)]
      BY <2>3
    <3> HIDE DEF loop, run
    <3> QED
      BY <2>3, <3>1, <3>2
  <2> HIDE DEF loop, run
  <2>5. Unfolds(g, n, S, base, step, xs)
    BY <2>3, <2>4 DEF Unfolds
  <2>6. run[xs] = g[n] /\ g[n] \in S
    BY <1>3, <2>2, <2>5
  <2>7. g[n + 1] = step[x][g[n]]
    BY <2>3, <2>4, <2>6 DEF Unfolds
  <2> QED
    BY <2>1, <2>4, <2>6, <2>7
<1>7. ASSUME NEW xs \in Seq(T)
      PROVE  \E f : /\ f = [i \in 0..Len(xs) |-> IF i = 0 THEN base ELSE step[xs[i]][f[i - 1]]]
                    /\ \A i \in 0..Len(xs) : f[i] \in S
                    /\ \A g : Unfolds(g, Len(xs), S, base, step, xs) => g[Len(xs)] = run[xs]
  <2>1. PICK f \in [0..Len(xs) -> S] : f = [i \in 0..Len(xs) |-> IF i = 0 THEN base ELSE step[xs[i]][f[i - 1]]]
    BY LoopThere
  <2> HIDE DEF loop, run
  <2>2. \A i \in 0..Len(xs) : f[i] \in S
    OBVIOUS
  <2>3. \A g : Unfolds(g, Len(xs), S, base, step, xs) => g[Len(xs)] = run[xs]
    BY <1>3
  <2> QED
    BY <2>1, <2>2, <2>3
<1> HIDE DEF run
<1>8. Runs(run, S, T, base, step)
  BY <1>4, <1>5, <1>6, <1>7, Zenon DEF Runs
<1> QED
  BY <1>8

-----------------------------------------------------------------------------
(* The loops of the parsers, item by item. *)
FieldLine == [name : STRING, value : Seq(STRING)]

(* Sequences end to end. *)
LEMMA FlattenAppend ==
    ASSUME NEW T
    PROVE  /\ FlattenSeq(<<>>) = <<>>
           /\ \A xs \in Seq(Seq(T)) : FlattenSeq(xs) \in Seq(T)
           /\ \A xs \in Seq(Seq(T)), x \in Seq(T) : FlattenSeq(Append(xs, x)) = FlattenSeq(xs) \o x
<1>1. PICK S : S = Seq(T)
  OBVIOUS
<1>2. PICK step : step = [x \in S |-> [s \in S |-> s \o x]]
  OBVIOUS
<1>3. step \in [S -> [S -> S]] /\ <<>> \in S
  BY <1>1, <1>2, ConcatProperties, EmptySeq
<1>4. PICK run : Runs(run, S, S, <<>>, step)
  BY <1>3, LoopOver
<1>5. /\ run \in [Seq(S) -> S] /\ run[<<>>] = <<>>
      /\ \A xs \in Seq(S), x \in S : run[Append(xs, x)] = step[x][run[xs]]
  BY <1>4, Zenon DEF Runs
<1>6. ASSUME NEW xs \in Seq(S)
      PROVE  FlattenSeq(xs) = run[xs]
  <2>1. Len(xs) \in Nat
    BY LenProperties
  <2>2. CASE Len(xs) = 0
    BY <1>5, <2>2, EmptySeq DEF FlattenSeq
  <2>3. CASE Len(xs) # 0
    <3> DEFINE n == Len(xs)
               Right(f) == f = [i \in 1..n |-> IF i = 1 THEN xs[i] ELSE f[i - 1] \o xs[i]]
               g == CHOOSE f : Right(f)
    <3>1. PICK f : /\ f = [i \in 0..n |-> IF i = 0 THEN <<>> ELSE step[xs[i]][f[i - 1]]]
                   /\ \A i \in 0..n : f[i] \in S
      BY <1>4, Zenon DEF Runs
    <3>2. PICK h : h = [i \in 1..n |-> f[i]]
      OBVIOUS
    <3>3. ASSUME NEW i \in 1..n
          PROVE  h[i] = IF i = 1 THEN xs[i] ELSE h[i - 1] \o xs[i]
      <4>1. i \in 0..n /\ i # 0 /\ i - 1 \in 0..n /\ xs[i] \in S
        BY <2>1, ElementOfSeq
      <4>2. f[i] = f[i - 1] \o xs[i]
        BY <1>2, <3>1, <4>1
      <4>3. CASE i = 1
        <5>1. f[i - 1] = <<>>
          BY <2>1, <3>1, <4>3
        <5> QED
          BY <1>1, <3>2, <4>1, <4>2, <4>3, <5>1, ConcatEmptySeq
      <4>4. CASE i # 1
        <5>1. i - 1 \in 1..n
          BY <4>4
        <5> QED
          BY <3>2, <4>2, <4>4, <5>1
      <4> QED
        BY <4>3, <4>4
    <3>4. Right(h)
      BY <3>2, <3>3
    <3>5. Right(g)
      BY <3>4, Zenon
    <3>6. FlattenSeq(xs) = g[n]
      BY <2>3, Zenon DEF FlattenSeq
    <3> HIDE DEF g
    <3>7. \A i \in 1..n : g[i] = IF i = 1 THEN xs[i] ELSE g[i - 1] \o xs[i]
      BY <3>5, Zenon
    <3>8. PICK k : k = [i \in 0..n |-> IF i = 0 THEN <<>> ELSE g[i]]
      OBVIOUS
    <3>9. Unfolds(k, n, S, <<>>, step, xs)
      <4>1. k[0] = <<>>
        BY <2>1, <3>8
      <4>2. ASSUME NEW i \in 1..n, k[i - 1] \in S
            PROVE  k[i] = step[xs[i]][k[i - 1]]
        <5>1. i \in 0..n /\ i # 0 /\ i - 1 \in 0..n /\ xs[i] \in S
          BY <2>1, ElementOfSeq
        <5>2. step[xs[i]][k[i - 1]] = k[i - 1] \o xs[i]
          BY <1>2, <4>2, <5>1
        <5>3. CASE i = 1
          <6>1. k[i - 1] = <<>>
            BY <4>1, <5>3
          <6>2. <<>> \o xs[i] = xs[i]
            BY <1>1, <5>1, ConcatEmptySeq
          <6> QED
            BY <3>7, <3>8, <5>1, <5>2, <5>3, <6>1, <6>2
        <5>4. CASE i # 1
          <6>1. i - 1 # 0 /\ k[i - 1] = g[i - 1] /\ k[i] = g[i]
            BY <3>8, <5>1, <5>4
          <6> QED
            BY <3>7, <5>2, <5>4, <6>1
        <5> QED
          BY <5>3, <5>4
      <4> QED
        BY <4>1, <4>2 DEF Unfolds
    <3>10. k[n] = run[xs]
      BY <1>4, <3>9, Zenon DEF Runs
    <3> QED
      BY <2>1, <2>3, <3>6, <3>8, <3>10
  <2> QED
    BY <2>2, <2>3
<1>7. <<>> \in Seq(S)
  BY EmptySeq
<1>8. ASSUME NEW xs \in Seq(S), NEW x \in S
      PROVE  FlattenSeq(Append(xs, x)) = FlattenSeq(xs) \o x
  <2>1. Append(xs, x) \in Seq(S)
    BY AppendProperties
  <2>2. run[Append(xs, x)] = step[x][run[xs]] /\ run[xs] \in S
    BY <1>5
  <2> QED
    BY <1>2, <1>6, <2>1, <2>2
<1> QED
  <2>1. FlattenSeq(<<>>) = <<>>
    BY <1>5, <1>6, <1>7
  <2>2. ASSUME NEW xs \in Seq(S) PROVE FlattenSeq(xs) \in S
    BY <1>5, <1>6
  <2> QED
    BY <1>1, <1>8, <2>1, <2>2, Zenon

LEMMA MergeType ==
    ASSUME NEW fields \in Seq(FieldLine), NEW line \in FieldLine
    PROVE  Merge(fields, line) \in Seq(FieldLine)
<1> DEFINE known == {i \in DOMAIN fields : fields[i].name = line.name}
<1>1. line.value \in Seq(STRING) /\ line.name \in STRING
  BY DEF FieldLine
<1>2. \A i \in 1..Len(fields) : fields[i] \in FieldLine
  BY ElementOfSeq
<1>3. DOMAIN fields = 1..Len(fields) /\ Len(fields) \in Nat
  BY LenProperties
<1>4. ASSUME NEW i \in 1..Len(fields)
      PROVE  [fields[i] EXCEPT !.value = @ \o line.value] \in FieldLine
  BY <1>1, <1>2, ConcatProperties DEF FieldLine
<1> DEFINE grown == [i \in DOMAIN fields |->
                       IF i \in known THEN [fields[i] EXCEPT !.value = @ \o line.value] ELSE fields[i]]
<1>5. grown \in Seq(FieldLine)
  <2>1. grown \in [1..Len(fields) -> FieldLine]
    BY <1>2, <1>3, <1>4
  <2> HIDE DEF grown
  <2> QED
    BY <1>3, <2>1, SeqDef
<1>6. Append(fields, line) \in Seq(FieldLine)
  BY AppendProperties
<1> QED
  BY <1>5, <1>6, Zenon DEF Merge

(* The fields of a header block, line by line. *)
LEMMA FieldsAppend ==
    /\ FieldsOf(<<>>) = <<>>
    /\ \A xs \in Seq(FieldLine) : FieldsOf(xs) \in Seq(FieldLine)
    /\ \A xs \in Seq(FieldLine), x \in FieldLine : FieldsOf(Append(xs, x)) = Merge(FieldsOf(xs), x)
<1>1. PICK S, T : S = Seq(FieldLine) /\ T = FieldLine
  OBVIOUS
<1>2. PICK step : step = [x \in T |-> [s \in S |-> Merge(s, x)]]
  OBVIOUS
<1>3. step \in [T -> [S -> S]]
  BY <1>1, <1>2, MergeType
<1>4. PICK base : base = <<>>
  OBVIOUS
<1>5. base \in S
  BY <1>1, <1>4, EmptySeq
<1>6. PICK run : Runs(run, S, T, base, step)
  BY <1>3, <1>5, LoopOver
<1>7. /\ run \in [Seq(T) -> S] /\ run[<<>>] = base
      /\ \A xs \in Seq(T), x \in T : run[Append(xs, x)] = step[x][run[xs]]
  BY <1>6, Zenon DEF Runs
<1>8. ASSUME NEW xs \in Seq(T)
      PROVE  FieldsOf(xs) = run[xs]
  <2> DEFINE n == Len(xs)
             Right(f) == f = [i \in 0..n |-> IF i = 0 THEN <<>> ELSE Merge(f[i - 1], xs[i])]
             g == CHOOSE f : Right(f)
  <2>1. n \in Nat
    BY LenProperties
  <2>2. PICK f : /\ f = [i \in 0..n |-> IF i = 0 THEN base ELSE step[xs[i]][f[i - 1]]]
                 /\ \A i \in 0..n : f[i] \in S
    BY <1>6, Zenon DEF Runs
  <2>3. ASSUME NEW i \in 0..n
        PROVE  f[i] = IF i = 0 THEN <<>> ELSE Merge(f[i - 1], xs[i])
    <3>1. CASE i = 0
      BY <1>4, <2>2, <3>1
    <3>2. CASE i # 0
      BY <1>2, <2>1, <2>2, <3>2, ElementOfSeq
    <3> QED
      BY <3>1, <3>2
  <2>4. Right(f)
    BY <2>2, <2>3
  <2>5. Right(g)
    BY <2>4, Zenon
  <2>6. FieldsOf(xs) = g[n]
    BY Zenon DEF FieldsOf
  <2> HIDE DEF g
  <2>7. \A i \in 0..n : g[i] = IF i = 0 THEN <<>> ELSE Merge(g[i - 1], xs[i])
    BY <2>5, Zenon
  <2>8. Unfolds(g, n, S, base, step, xs)
    <3>1. g[0] = base
      BY <1>4, <2>1, <2>7
    <3>2. ASSUME NEW i \in 1..n, g[i - 1] \in S
          PROVE  g[i] = step[xs[i]][g[i - 1]]
      BY <1>2, <2>1, <2>7, <3>2, ElementOfSeq
    <3> QED
      BY <3>1, <3>2 DEF Unfolds
  <2> QED
    BY <1>6, <2>6, <2>8, Zenon DEF Runs
<1>9. FieldsOf(<<>>) = <<>>
  BY <1>4, <1>7, <1>8, EmptySeq
<1>10. ASSUME NEW xs \in Seq(T) PROVE FieldsOf(xs) \in S
  BY <1>7, <1>8
<1>11. ASSUME NEW xs \in Seq(T), NEW x \in T
       PROVE  FieldsOf(Append(xs, x)) = Merge(FieldsOf(xs), x)
  <2>1. Append(xs, x) \in Seq(T)
    BY AppendProperties
  <2>2. run[Append(xs, x)] = step[x][run[xs]] /\ run[xs] \in S
    BY <1>7
  <2>3. step[x][run[xs]] = Merge(run[xs], x)
    BY <1>2, <2>2
  <2> QED
    BY <1>8, <2>1, <2>2, <2>3
<1> QED
  BY <1>1, <1>9, <1>10, <1>11, Zenon

-----------------------------------------------------------------------------
(* The fields of a header block. *)

(* One line for each name. *)
Distinct(fields) == \A i, j \in 1..Len(fields) : fields[i].name = fields[j].name => i = j

LEMMA SingleMin == ASSUME NEW i \in Nat PROVE Min({i}) = i
<1>1. \E x \in {i} : \A y \in {i} : x <= y
  OBVIOUS
<1> QED
  BY <1>1, Zenon DEF Min

LEMMA ValueAt ==
    ASSUME NEW fields \in Seq(FieldLine), Distinct(fields), NEW i \in 1..Len(fields)
    PROVE  ValueOf(fields, fields[i].name) = fields[i].value
<1> DEFINE found == {j \in DOMAIN fields : fields[j].name = fields[i].name}
<1>1. DOMAIN fields = 1..Len(fields)
  BY LenProperties
<1>2. found = {i}
  BY <1>1 DEF Distinct
<1>3. Min({i}) = i
  BY SingleMin
<1> QED
  BY <1>2, <1>3, Zenon DEF ValueOf

LEMMA NoValue ==
    ASSUME NEW fields \in Seq(FieldLine), NEW name, \A i \in 1..Len(fields) : fields[i].name # name
    PROVE  ValueOf(fields, name) = <<>>
<1>1. DOMAIN fields = 1..Len(fields)
  BY LenProperties
<1>2. {j \in DOMAIN fields : fields[j].name = name} = {}
  BY <1>1
<1> QED
  BY <1>2, Zenon DEF ValueOf

LEMMA ValueType ==
    ASSUME NEW fields \in Seq(FieldLine), Distinct(fields), NEW name
    PROVE  ValueOf(fields, name) \in Seq(STRING)
<1>1. CASE \E i \in 1..Len(fields) : fields[i].name = name
  <2>1. PICK i \in 1..Len(fields) : fields[i].name = name
    BY <1>1
  <2>2. fields[i] \in FieldLine
    BY ElementOfSeq
  <2> QED
    BY <2>1, <2>2, ValueAt DEF FieldLine
<1>2. CASE \A i \in 1..Len(fields) : fields[i].name # name
  BY <1>2, NoValue, EmptySeq, Zenon
<1> QED
  BY <1>1, <1>2

(* A line adds its members to the value of its name and leaves the others alone. *)
LEMMA MergeAdds ==
    ASSUME NEW fields \in Seq(FieldLine), Distinct(fields), NEW line \in FieldLine, NEW name, name # NoName
    PROVE  /\ Distinct(Merge(fields, line))
           /\ ValueOf(Merge(fields, line), name) =
                  ValueOf(fields, name) \o (IF line.name = name THEN line.value ELSE <<>>)
<1> DEFINE known == {i \in DOMAIN fields : fields[i].name = line.name}
<1> PICK merged : merged = Merge(fields, line)
  OBVIOUS
<1>1. line.value \in Seq(STRING)
  BY DEF FieldLine
<1>2. \A i \in 1..Len(fields) : fields[i] \in FieldLine
  BY ElementOfSeq
<1>3. DOMAIN fields = 1..Len(fields) /\ Len(fields) \in Nat
  BY LenProperties
<1>4. ValueOf(fields, name) \in Seq(STRING)
  BY ValueType
<1>5. ValueOf(fields, name) \o <<>> = ValueOf(fields, name)
  BY <1>4, ConcatEmptySeq
<1>6. CASE line.name = NoName
  BY <1>5, <1>6, Zenon DEF Merge
<1>7. CASE line.name # NoName /\ known = {}
  <2>1. merged = Append(fields, line)
    BY <1>7, Zenon DEF Merge
  <2>2. /\ merged \in Seq(FieldLine) /\ Len(merged) = Len(fields) + 1
        /\ merged[Len(fields) + 1] = line
        /\ \A i \in 1..Len(fields) : merged[i] = fields[i]
    BY <2>1, AppendProperties
  <2>3. \A i \in 1..Len(fields) : fields[i].name # line.name
    BY <1>3, <1>7
  <2>4. Distinct(merged)
    BY <1>3, <2>2, <2>3 DEF Distinct
  <2>5. CASE line.name = name
    <3>1. ValueOf(merged, name) = line.value
      BY <1>3, <2>2, <2>4, <2>5, ValueAt
    <3>2. ValueOf(fields, name) = <<>>
      BY <2>3, <2>5, NoValue
    <3>3. <<>> \o line.value = line.value
      BY <1>1, ConcatEmptySeq
    <3> QED
      BY <2>4, <2>5, <3>1, <3>2, <3>3
  <2>6. CASE line.name # name
    <3>1. ValueOf(merged, name) = ValueOf(fields, name)
      <4>1. CASE \E i \in 1..Len(fields) : fields[i].name = name
        <5>1. PICK i \in 1..Len(fields) : fields[i].name = name
          BY <4>1
        <5>2. i \in 1..Len(merged) /\ merged[i] = fields[i]
          BY <1>3, <2>2
        <5> QED
          BY <2>2, <2>4, <5>1, <5>2, ValueAt
      <4>2. CASE \A i \in 1..Len(fields) : fields[i].name # name
        BY <1>3, <2>2, <2>6, <4>2, NoValue
      <4> QED
        BY <4>1, <4>2
    <3> QED
      BY <1>5, <2>4, <2>6, <3>1
  <2> QED
    BY <2>5, <2>6
<1>8. CASE line.name # NoName /\ known # {}
  <2>1. merged = [i \in DOMAIN fields |->
                    IF i \in known THEN [fields[i] EXCEPT !.value = @ \o line.value] ELSE fields[i]]
    BY <1>8, Zenon DEF Merge
  <2>2. merged \in Seq(FieldLine)
    BY MergeType
  <2>3. DOMAIN merged = 1..Len(merged) /\ Len(merged) \in Nat
    BY <2>2, LenProperties
  <2>4. Len(merged) = Len(fields)
    BY <1>3, <2>1, <2>3
  <2>5. ASSUME NEW i \in 1..Len(fields)
        PROVE  /\ merged[i].name = fields[i].name
               /\ merged[i].value = IF fields[i].name = line.name THEN fields[i].value \o line.value ELSE fields[i].value
    BY <1>2, <1>3, <2>1 DEF FieldLine
  <2>6. Distinct(merged)
    BY <2>4, <2>5 DEF Distinct
  <2>7. CASE \E i \in 1..Len(fields) : fields[i].name = name
    <3>1. PICK i \in 1..Len(fields) : fields[i].name = name
      BY <2>7
    <3>2. i \in 1..Len(merged)
      BY <2>4
    <3>3. ValueOf(merged, name) = merged[i].value /\ ValueOf(fields, name) = fields[i].value
      BY <2>2, <2>5, <2>6, <3>1, <3>2, ValueAt
    <3> QED
      BY <1>5, <2>5, <2>6, <3>1, <3>3
  <2>8. CASE \A i \in 1..Len(fields) : fields[i].name # name
    <3>1. \A i \in 1..Len(merged) : merged[i].name # name
      BY <2>4, <2>5, <2>8
    <3>2. line.name # name
      BY <1>3, <1>8, <2>8
    <3>3. ValueOf(merged, name) = <<>> /\ ValueOf(fields, name) = <<>>
      BY <2>2, <2>8, <3>1, NoValue
    <3> QED
      BY <1>5, <2>6, <3>2, <3>3
  <2> QED
    BY <2>7, <2>8
<1> QED
  BY <1>6, <1>7, <1>8

(* A sequence and its continuation by one item. *)
Grown(f, s, x) ==
    /\ f = [i \in 1..(Len(s) + 1) |-> f[i]]
    /\ \A i \in 1..Len(s) : f[i] = s[i]
    /\ f[Len(s) + 1] = x

LEMMA GrownBy == ASSUME NEW T, NEW s \in Seq(T), NEW x \in T, NEW f, Grown(f, s, x) PROVE f = Append(s, x)
<1>0. /\ f = [i \in 1..(Len(s) + 1) |-> f[i]]
      /\ \A i \in 1..Len(s) : f[i] = s[i]
      /\ f[Len(s) + 1] = x
  BY Zenon DEF Grown
<1>1. PICK n \in Nat : n = Len(s)
  BY LenProperties
<1>2. PICK h : h = Append(s, x)
  OBVIOUS
<1>3. h \in Seq(T) /\ Len(h) = n + 1 /\ (\A i \in 1..n : h[i] = s[i]) /\ h[n + 1] = x
  BY <1>1, <1>2, AppendProperties
<1>4. h = [i \in 1..(n + 1) |-> h[i]]
  BY <1>3, LenProperties
<1>5. \A i \in 1..(n + 1) : i \in 1..n \/ i = n + 1
  OBVIOUS
<1>6. \A i \in 1..(n + 1) : f[i] = h[i]
  BY <1>0, <1>1, <1>3, <1>5
<1> QED
  BY <1>0, <1>1, <1>2, <1>4, <1>6

(* A function over the first numbers is a sequence. *)
LEMMA IsSeq == ASSUME NEW T, NEW n \in Nat, NEW f \in [1..n -> T] PROVE f \in Seq(T) /\ Len(f) = n
<1>1. f \in Seq(T)
  BY SeqDef
<1> QED
  BY <1>1, LenProperties

MineOf(lines, name) == [i \in DOMAIN lines |-> IF lines[i].name = name THEN lines[i].value ELSE <<>>]

MembersOf(lines, name) == FlattenSeq(MineOf(lines, name))

(* The members of all lines of a name, line by line. *)
LEMMA MembersNone == ASSUME NEW name PROVE MembersOf(<<>>, name) = <<>>
<1>1. MineOf(<<>>, name) = <<>>
  BY DEF MineOf
<1> QED
  BY <1>1, FlattenAppend, Zenon DEF MembersOf

LEMMA MembersType ==
    ASSUME NEW name, NEW lines \in Seq(FieldLine)
    PROVE  /\ MineOf(lines, name) \in Seq(Seq(STRING)) /\ Len(MineOf(lines, name)) = Len(lines)
           /\ MembersOf(lines, name) \in Seq(STRING)
<1>1. PICK n \in Nat : n = Len(lines) /\ DOMAIN lines = 1..n
  BY LenProperties
<1>2. ASSUME NEW i \in 1..n PROVE lines[i].value \in Seq(STRING)
  <2>1. lines[i] \in FieldLine
    BY <1>1, ElementOfSeq
  <2> QED
    BY <2>1 DEF FieldLine
<1>3. MineOf(lines, name) \in [1..n -> Seq(STRING)]
  BY <1>1, <1>2, EmptySeq DEF MineOf
<1>4. MineOf(lines, name) \in Seq(Seq(STRING)) /\ Len(MineOf(lines, name)) = n
  BY <1>3, IsSeq
<1>5. FlattenSeq(MineOf(lines, name)) \in Seq(STRING)
  BY <1>4, FlattenAppend
<1> QED
  BY <1>1, <1>4, <1>5, Zenon DEF MembersOf

LEMMA MembersAppend ==
    ASSUME NEW name, NEW lines \in Seq(FieldLine), NEW line \in FieldLine
    PROVE  MembersOf(Append(lines, line), name) =
               MembersOf(lines, name) \o (IF line.name = name THEN line.value ELSE <<>>)
<1>1. PICK n \in Nat : n = Len(lines) /\ DOMAIN lines = 1..n
  BY LenProperties
<1>2. PICK more : more = Append(lines, line)
  OBVIOUS
<1>3. /\ DOMAIN more = 1..(n + 1) /\ more[n + 1] = line
      /\ \A i \in 1..n : more[i] = lines[i]
  BY <1>1, <1>2, AppendProperties, LenProperties
<1>4. PICK last \in Seq(STRING) : last = IF line.name = name THEN line.value ELSE <<>>
  BY EmptySeq DEF FieldLine
<1>5. PICK s \in Seq(Seq(STRING)) : s = MineOf(lines, name) /\ Len(s) = n
  BY <1>1, MembersType
<1>6. PICK f : f = MineOf(more, name)
  OBVIOUS
<1>7. f = [i \in 1..(Len(s) + 1) |-> f[i]] /\ (\A i \in 1..Len(s) : f[i] = s[i]) /\ f[Len(s) + 1] = last
  <2>1. f = [i \in 1..(n + 1) |-> IF more[i].name = name THEN more[i].value ELSE <<>>]
    BY <1>3, <1>6, Zenon DEF MineOf
  <2>2. s = [i \in 1..n |-> IF lines[i].name = name THEN lines[i].value ELSE <<>>]
    BY <1>1, <1>5, Zenon DEF MineOf
  <2>3. (\A i \in 1..n : i \in 1..(n + 1)) /\ n + 1 \in 1..(n + 1)
    OBVIOUS
  <2>4. \A i \in 1..n : f[i] = s[i]
    BY <1>3, <2>1, <2>2, <2>3
  <2>5. f[n + 1] = last
    BY <1>3, <1>4, <2>1, <2>3
  <2>6. f = [i \in 1..(n + 1) |-> f[i]]
    BY <2>1
  <2> QED
    BY <1>5, <2>4, <2>5, <2>6
<1>8. f = Append(s, last)
  <2>1. Grown(f, s, last)
    BY <1>7, Zenon DEF Grown
  <2> QED
    BY <2>1, GrownBy
<1>9. FlattenSeq(Append(s, last)) = FlattenSeq(s) \o last
  BY FlattenAppend
<1> QED
  BY <1>2, <1>4, <1>5, <1>6, <1>8, <1>9, Zenon DEF MembersOf

(* The value of a field is the members of all its lines, in their order. *)
LEMMA FieldsJoined ==
    ASSUME NEW block, block.lines \in Seq(FieldLine), NEW name, name # NoName
    PROVE  /\ Members(block, name) \in Seq(STRING)
           /\ ValueOf(FieldsOf(block.lines), name) = Members(block, name)
<1> DEFINE good == {q \in Seq(FieldLine) : /\ Distinct(FieldsOf(q))
                                           /\ ValueOf(FieldsOf(q), name) = MembersOf(q, name)}
<1>1. <<>> \in good
  <2>1. <<>> \in Seq(FieldLine) /\ Len(<<>>) = 0
    BY EmptySeq
  <2>2. \A i \in 1..Len(<<>>) : FALSE
    BY <2>1
  <2>3. Distinct(<<>>)
    BY <2>2, Zenon DEF Distinct
  <2>4. ValueOf(<<>>, name) = <<>>
    BY <2>1, <2>2, NoValue
  <2> QED
    BY <2>1, <2>3, <2>4, MembersNone, FieldsAppend
<1>2. ASSUME NEW q \in Seq(FieldLine), NEW line \in FieldLine, q \in good
      PROVE  Append(q, line) \in good
  <2>1. Append(q, line) \in Seq(FieldLine)
    BY AppendProperties
  <2>2. PICK fields \in Seq(FieldLine) :
            fields = FieldsOf(q) /\ Distinct(fields) /\ ValueOf(fields, name) = MembersOf(q, name)
    BY <1>2, FieldsAppend
  <2>3. FieldsOf(Append(q, line)) = Merge(fields, line)
    BY <2>2, FieldsAppend
  <2>4. /\ Distinct(Merge(fields, line))
        /\ ValueOf(Merge(fields, line), name) =
               ValueOf(fields, name) \o (IF line.name = name THEN line.value ELSE <<>>)
    BY <2>2, MergeAdds, Zenon
  <2>5. MembersOf(Append(q, line), name) = MembersOf(q, name) \o (IF line.name = name THEN line.value ELSE <<>>)
    BY MembersAppend
  <2> QED
    BY <2>1, <2>2, <2>3, <2>4, <2>5, Zenon
<1>3. \A q \in Seq(FieldLine) : q \in good
  <2> HIDE DEF good
  <2> QED
    BY <1>1, <1>2, SeqInduction
<1>4. MembersOf(block.lines, name) \in Seq(STRING)
  BY MembersType
<1>5. Members(block, name) = MembersOf(block.lines, name)
  BY Zenon DEF Members, MembersOf, MineOf
<1> QED
  BY <1>3, <1>4, <1>5

(* A length that several members agree on is none to the server; one alone is understood. *)
LEMMA LengthRead ==
    ASSUME NEW block, block.lines \in Seq(FieldLine), NEW framing \in Framing(block), framing # "chunked",
           "chunked" \notin Digits
    PROVE  /\ Members(block, "transfer-encoding") = <<>>
           /\ LET len == ContentLength(FieldsOf(block.lines)) IN
              len = Numeral[framing] <=> ~Differs(block, framing)
<1> DEFINE fields == FieldsOf(block.lines)
           lengths == Members(block, "content-length")
           codings == Members(block, "transfer-encoding")
<1>1. "content-length" # NoName
  BY DEF NoName
<1>2. lengths \in Seq(STRING) /\ ValueOf(fields, "content-length") = lengths
  BY <1>1, FieldsJoined
<1>3. codings = <<>>
  BY DEF Framing
<1>4. ContentLength(fields) = IF Len(lengths) = 1 /\ lengths[1] \in DOMAIN Numeral THEN Numeral[lengths[1]] ELSE 0
  BY <1>2, Zenon DEF ContentLength
<1>5. Differs(block, framing) <=> Len(lengths) > 1 /\ Numeral[framing] # 0
  BY DEF Differs
<1> HIDE DEF lengths
<1>6. CASE lengths = <<>>
  BY <1>3, <1>4, <1>5, <1>6, DigitsAssumption DEF Framing, lengths
<1>7. CASE lengths # <<>>
  <2>1. framing \in Digits /\ \A i \in DOMAIN lengths : lengths[i] = framing
    BY <1>3, <1>7 DEF Framing, lengths
  <2>2. Len(lengths) \in Nat /\ Len(lengths) # 0 /\ DOMAIN lengths = 1..Len(lengths)
    BY <1>2, <1>7, EmptySeq, LenProperties
  <2>3. CASE Len(lengths) = 1
    BY <1>3, <1>4, <1>5, <2>1, <2>2, <2>3, DigitsAssumption
  <2>4. CASE Len(lengths) > 1
    BY <1>3, <1>4, <1>5, <2>2, <2>4
  <2> QED
    BY <2>2, <2>3, <2>4
<1> QED
  BY <1>6, <1>7

LEMMA CodingRead ==
    ASSUME NEW block, block.lines \in Seq(FieldLine)
    PROVE  /\ IsChunked(FieldsOf(block.lines)) <=> ~Differs(block, "chunked")
           /\ Members(block, "transfer-encoding") = <<>> => ~IsChunked(FieldsOf(block.lines))
<1> DEFINE codings == Members(block, "transfer-encoding")
<1>1. "transfer-encoding" # NoName
  BY DEF NoName
<1>2. codings \in Seq(STRING) /\ ValueOf(FieldsOf(block.lines), "transfer-encoding") = codings
  BY <1>1, FieldsJoined
<1>3. IsChunked(FieldsOf(block.lines)) <=> \E i \in DOMAIN codings : codings[i] \in {"chunked", "x-chunked"}
  BY <1>2, Zenon DEF IsChunked
<1>4. Differs(block, "chunked") <=> {"chunked", "x-chunked"} \cap {codings[i] : i \in DOMAIN codings} = {}
  BY Zenon DEF Differs, ToSet
<1> HIDE DEF codings
<1>5. codings = <<>> => DOMAIN codings = {}
  BY <1>2, EmptySeq, LenProperties
<1> QED
  BY <1>3, <1>4, <1>5 DEF codings

(* What a head means to the server is what it says to HTTP, but for the two exceptions. *)
LEMMA HeadRead ==
    ASSUME NEW block, block.lines \in Seq(FieldLine)
    PROVE  /\ \A framing \in Framing(block) : SameFraming(Understood(block), framing) <=> ~Differs(block, framing)
           /\ Understood(block).close =>
                  \E i \in DOMAIN Members(block, "connection") : Members(block, "connection")[i] = "close"
<1> DEFINE fields == FieldsOf(block.lines)
           result == Understood(block)
<1>1. /\ result.frame = IF IsChunked(fields) THEN "chunked" ELSE "length"
      /\ result.len = ContentLength(fields)
      /\ result.close = Is(fields, "connection", "close")
  BY DEF Understood
<1>2. ASSUME NEW framing \in Framing(block)
      PROVE  SameFraming(result, framing) <=> ~Differs(block, framing)
  <2>1. CASE framing = "chunked"
    BY <1>1, <2>1, CodingRead DEF SameFraming
  <2>2. CASE framing # "chunked"
    BY <1>1, <2>2, LengthRead, DigitsAssumption, CodingRead DEF SameFraming
  <2> QED
    BY <2>1, <2>2
<1>3. ASSUME result.close
      PROVE  \E i \in DOMAIN Members(block, "connection") : Members(block, "connection")[i] = "close"
  <2>1. "connection" # NoName
    BY DEF NoName
  <2>2. Members(block, "connection") = <<"close">>
    BY <1>1, <1>3, <2>1, FieldsJoined, Zenon DEF Is
  <2>3. <<"close">>[1] = "close" /\ 1 \in DOMAIN <<"close">>
    OBVIOUS
  <2> QED
    BY <2>2, <2>3, Zenon
<1> QED
  BY <1>2, <1>3

-----------------------------------------------------------------------------
(* Texts between spaces, and around a sign.  The provers do not know that a literal is a *)
(* string, so the tokens that have a name are listed.                                    *)
Marks == {Delimiter, Hyphens, CrLf, Quote, Disposition, ContentType, NameKey, FileKey, FormData, FileName}
Signs == {Slash, OpenBrace, CloseBrace, PathName}

Token == STRING \cup {Space, Comma, Semicolon, Equals} \cup Marks \cup Signs

Text == Seq(Token)

Spaces == Seq({Space})

Tight(w) == w = <<>> \/ (w[1] # Space /\ w[Len(w)] # Space)

Inside(s, w) == Tight(w) /\ \E a, b \in Spaces : s = a \o w \o b

Lacks(s, token) == \A i \in 1..Len(s) : s[i] # token

Around(s, head, token, tail) == s = head \o <<token>> \o tail /\ Lacks(head, token)

LEMMA LeastIs == ASSUME NEW S \in SUBSET Int, NEW m \in S, \A x \in S : m <= x PROVE Min(S) = m
<1>1. \E x \in S : \A y \in S : x <= y
  OBVIOUS
<1>2. Min(S) \in S /\ \A y \in S : Min(S) <= y
  BY <1>1, Zenon DEF Min
<1>3. Min(S) \in Int /\ m \in Int
  BY <1>2
<1> QED
  BY <1>2, <1>3

LEMMA MostIs == ASSUME NEW S \in SUBSET Int, NEW m \in S, \A x \in S : m >= x PROVE Max(S) = m
<1>1. \E x \in S : \A y \in S : x >= y
  OBVIOUS
<1>2. Max(S) \in S /\ \A y \in S : Max(S) >= y
  BY <1>1, Zenon DEF Max
<1>3. Max(S) \in Int /\ m \in Int
  BY <1>2
<1> QED
  BY <1>2, <1>3

LEMMA Regroup ==
    ASSUME NEW p \in Text, NEW q \in Text, NEW r \in Text
    PROVE  (p \o q) \o r = p \o (q \o r)
BY ConcatAssociative DEF Text

Grouped(p, q, r) == (p \o q) \o r = p \o (q \o r)

LEMMA SameInterval == \A m, k \in Nat : 1..m = 1..k => m = k
<1> SUFFICES ASSUME NEW m \in Nat, NEW k \in Nat, 1..m = 1..k PROVE m = k
  OBVIOUS
<1>1. CASE m < k
  BY <1>1
<1>2. CASE k < m
  BY <1>2
<1> QED
  BY <1>1, <1>2

LEMMA Grouping == ASSUME NEW p \in Text, NEW q \in Text, NEW r \in Text PROVE Grouped(p, q, r)
BY Regroup DEF Grouped

LEMMA ThreeParts ==
    ASSUME NEW T, NEW a \in Seq(T), NEW w \in Seq(T), NEW b \in Seq(T), NEW s, s = a \o w \o b
    PROVE  /\ s \in Seq(T) /\ Len(s) = Len(a) + Len(w) + Len(b)
           /\ Len(a) \in Nat /\ Len(w) \in Nat /\ Len(b) \in Nat
           /\ \A i \in 1..Len(a) : s[i] = a[i]
           /\ \A i \in 1..Len(w) : s[Len(a) + i] = w[i]
           /\ \A i \in 1..Len(b) : s[Len(a) + Len(w) + i] = b[i]
<1>1. PICK t : t = a \o w
  OBVIOUS
<1>2. /\ t \in Seq(T) /\ Len(t) = Len(a) + Len(w)
      /\ \A i \in 1..Len(t) : t[i] = IF i <= Len(a) THEN a[i] ELSE w[i - Len(a)]
  BY <1>1, ConcatProperties
<1>3. Len(a) \in Nat /\ Len(w) \in Nat /\ Len(b) \in Nat
  BY LenProperties
<1>4. /\ s \in Seq(T) /\ Len(s) = Len(t) + Len(b)
      /\ \A i \in 1..Len(s) : s[i] = IF i <= Len(t) THEN t[i] ELSE b[i - Len(t)]
  BY <1>1, <1>2, ConcatProperties
<1>5. ASSUME NEW i \in 1..Len(a) PROVE s[i] = a[i]
  BY <1>2, <1>3, <1>4
<1>6. ASSUME NEW i \in 1..Len(w) PROVE s[Len(a) + i] = w[i]
  BY <1>2, <1>3, <1>4
<1>7. ASSUME NEW i \in 1..Len(b) PROVE s[Len(a) + Len(w) + i] = b[i]
  <2>1. PICK k : k = Len(a) + Len(w) + i
    OBVIOUS
  <2>2. k \in 1..Len(s) /\ ~(k <= Len(t)) /\ k - Len(t) = i
    BY <1>2, <1>3, <1>4, <2>1
  <2> QED
    BY <1>4, <2>1, <2>2
<1> QED
  BY <1>2, <1>3, <1>4, <1>5, <1>6, <1>7

LEMMA TrimOf ==
    ASSUME NEW a \in Spaces, NEW w \in Text, NEW b \in Spaces, Tight(w)
    PROVE  Trim(a \o w \o b) = w
<1>1. PICK s : s = a \o w \o b
  OBVIOUS
<1>2. PICK solid : solid = {i \in DOMAIN s : s[i] # Space}
  OBVIOUS
<1>3. a \in Text /\ b \in Text /\ (\A i \in 1..Len(a) : a[i] = Space) /\ (\A i \in 1..Len(b) : b[i] = Space)
  BY SeqMonotonic, ElementOfSeq DEF Token, Spaces, Text
<1>4. a \in Seq(Token) /\ w \in Seq(Token) /\ b \in Seq(Token)
  BY <1>3 DEF Text
<1>5. /\ s \in Seq(Token) /\ Len(s) = Len(a) + Len(w) + Len(b)
      /\ Len(a) \in Nat /\ Len(w) \in Nat /\ Len(b) \in Nat /\ DOMAIN s = 1..Len(s)
  BY <1>1, <1>4, ThreeParts, LenProperties
<1>6. /\ \A i \in 1..Len(a) : s[i] = a[i]
      /\ \A i \in 1..Len(w) : s[Len(a) + i] = w[i]
      /\ \A i \in 1..Len(b) : s[Len(a) + Len(w) + i] = b[i]
  BY <1>1, <1>4, ThreeParts
<1>7. solid \subseteq (Len(a) + 1)..(Len(a) + Len(w))
  <2> SUFFICES ASSUME NEW i \in solid PROVE i \in (Len(a) + 1)..(Len(a) + Len(w))
    OBVIOUS
  <2>1. i \in Int /\ 1 <= i /\ i <= Len(a) + Len(w) + Len(b) /\ s[i] # Space
    BY <1>2, <1>5
  <2>2. i > Len(a)
    <3>1. i \notin 1..Len(a)
      BY <1>3, <1>6, <2>1
    <3> QED
      BY <1>5, <2>1, <3>1
  <2>3. i <= Len(a) + Len(w)
    <3> SUFFICES ASSUME i > Len(a) + Len(w) PROVE FALSE
      BY <1>5, <2>1
    <3>1. PICK k : k = i - (Len(a) + Len(w))
      OBVIOUS
    <3>2. k \in 1..Len(b) /\ i = Len(a) + Len(w) + k
      BY <1>5, <2>1, <3>1
    <3>3. s[Len(a) + Len(w) + k] = Space
      BY <1>3, <1>6, <3>2
    <3> QED
      BY <2>1, <3>2, <3>3
  <2> QED
    BY <1>5, <2>1, <2>2, <2>3
<1>8. CASE w = <<>>
  BY <1>1, <1>2, <1>5, <1>7, <1>8, EmptySeq DEF Trim
<1>9. CASE w # <<>>
  <2>1. Len(w) >= 1
    BY <1>4, <1>5, <1>9, EmptySeq
  <2>2. PICK lo, hi : lo = Len(a) + 1 /\ hi = Len(a) + Len(w)
    OBVIOUS
  <2>3. /\ lo \in Int /\ hi \in Int /\ lo \in 1..Len(s) /\ hi \in 1..Len(s) /\ lo <= hi
        /\ hi - lo + 1 = Len(w)
    BY <1>5, <2>1, <2>2
  <2>4. s[lo] = w[1] /\ s[hi] = w[Len(w)]
    BY <1>5, <1>6, <2>1, <2>2
  <2>5. lo \in solid /\ hi \in solid
    BY <1>2, <1>5, <1>9, <2>3, <2>4 DEF Tight
  <2>6. solid \in SUBSET Int /\ \A x \in solid : lo <= x /\ hi >= x
    BY <1>5, <1>7, <2>2
  <2>7. Min(solid) = lo /\ Max(solid) = hi
    BY <2>5, <2>6, LeastIs, MostIs
  <2>8. Trim(s) = SubSeq(s, lo, hi)
    BY <1>2, <2>5, <2>7, Zenon DEF Trim
  <2>9. \A i \in lo..hi : s[i] \in Token
    BY <1>5, <2>3, ElementOfSeq
  <2>10. /\ SubSeq(s, lo, hi) \in Seq(Token) /\ Len(SubSeq(s, lo, hi)) = Len(w)
         /\ \A i \in 1..Len(w) : SubSeq(s, lo, hi)[i] = s[lo + i - 1]
    BY <2>3, <2>9, SubSeqProperties
  <2>11. \A i \in 1..Len(w) : s[lo + i - 1] = w[i]
    <3> SUFFICES ASSUME NEW i \in 1..Len(w) PROVE s[lo + i - 1] = w[i]
      OBVIOUS
    <3>1. lo + i - 1 = Len(a) + i
      BY <1>5, <2>2
    <3> QED
      BY <1>6, <3>1
  <2>12. SubSeq(s, lo, hi) = w
    BY <1>4, <2>10, <2>11, SeqEqual
  <2> QED
    BY <1>1, <2>8, <2>12
<1> QED
  BY <1>8, <1>9

LEMMA TokensAre ==
    /\ Space \in Token /\ Comma \in Token /\ Semicolon \in Token /\ Equals \in Token
    /\ STRING \subseteq Token /\ Seq(STRING) \subseteq Text /\ Spaces \subseteq Text
    /\ <<>> \in Text /\ <<>> \in Spaces /\ <<Space>> \in Spaces /\ <<Space>> \in Text
    /\ <<Comma>> \in Text /\ <<Semicolon>> \in Text /\ <<Equals>> \in Text
<1>1. Space \in Token /\ Comma \in Token /\ Semicolon \in Token /\ Equals \in Token /\ STRING \subseteq Token
  BY DEF Token
<1>2. {Space} \subseteq Token
  BY <1>1
<1>3. Seq(STRING) \subseteq Text /\ Spaces \subseteq Text
  BY <1>1, <1>2, SeqMonotonic DEF Text, Spaces
<1>4. <<>> \in Text /\ <<>> \in Spaces
  BY EmptySeq DEF Text, Spaces
<1>5. /\ <<Space>> \in Seq({Space}) /\ <<Space>> \in Seq(Token)
      /\ <<Comma>> \in Seq(Token) /\ <<Semicolon>> \in Seq(Token) /\ <<Equals>> \in Seq(Token)
  BY <1>1
<1> QED
  BY <1>1, <1>3, <1>4, <1>5 DEF Text, Spaces

LEMMA SignsDiffer ==
    /\ Space # Comma /\ Space # Semicolon /\ Space # Equals
    /\ Comma # Semicolon /\ Comma # Equals /\ Semicolon # Equals
BY Zenon DEF Space, Comma, Semicolon, Equals

LEMMA AllSpaces == ASSUME NEW a \in Spaces PROVE \A i \in 1..Len(a) : a[i] = Space
<1>1. \A i \in 1..Len(a) : a[i] \in {Space}
  BY ElementOfSeq DEF Spaces
<1> QED
  BY <1>1

LEMMA TrimInside == ASSUME NEW s, NEW w \in Text, Inside(s, w) PROVE Trim(s) = w
BY TrimOf DEF Inside

(* Every text is a tight one between spaces. *)
LEMMA Trimmed ==
    ASSUME NEW s \in Text
    PROVE  \E w \in Text : Inside(s, w)
<1> DEFINE parts(u) == \E a, b \in Spaces, w \in Text : u = a \o w \o b /\ Tight(w)
           good == {t \in Text : parts(t)}
<1>1. <<>> \in good
  BY TokensAre DEF Tight
<1>2. ASSUME NEW t \in Text, NEW e \in Token, t \in good
      PROVE  Append(t, e) \in good
  <2>1. PICK a \in Spaces, b \in Spaces, w \in Text : t = a \o w \o b /\ Tight(w)
    BY <1>2
  <2>2. Append(t, e) \in Text
    BY AppendProperties DEF Text
  <2>3. a \in Seq(Token) /\ w \in Seq(Token) /\ b \in Seq(Token) /\ t \in Seq(Token)
    BY TokensAre DEF Text
  <2>4. a \o w \in Seq(Token)
    BY <2>3, ConcatProperties
  <2>5. CASE e = Space
    <3>1. Append(b, e) \in Spaces
      BY <2>5, AppendProperties DEF Spaces
    <3>2. Append(t, e) = a \o w \o Append(b, e)
      <4>1. Append(t, e) = t \o <<e>> /\ Append(b, e) = b \o <<e>> /\ <<e>> \in Seq(Token)
        BY <2>3, AppendIsConcat
      <4>2. (a \o w \o b) \o <<e>> = (a \o w) \o (b \o <<e>>)
        <5>1. PICK c \in Seq(Token) : c = a \o w
          BY <2>4
        <5>2. PICK d \in Seq(Token) : d = <<e>>
          BY <4>1
        <5>3. Grouped(c, b, d)
          BY <2>3, Grouping DEF Text
        <5> QED
          BY <5>1, <5>2, <5>3, Zenon DEF Grouped
      <4> QED
        BY <2>1, <4>1, <4>2, Zenon
    <3> QED
      BY <2>1, <2>2, <3>1, <3>2
  <2>6. CASE e # Space /\ w = <<>>
    <3> DEFINE c == a \o b
    <3>1. c \in Spaces /\ c \in Seq(Token)
      BY <2>3, ConcatProperties DEF Spaces
    <3>2. t = c
      BY <2>1, <2>3, <2>6, ConcatEmptySeq
    <3>3. <<e>> \in Seq(Token) /\ Tight(<<e>>)
      BY <2>6 DEF Tight
    <3>4. Append(t, e) = c \o <<e>> \o <<>>
      BY <2>3, <3>1, <3>2, <3>3, AppendIsConcat, ConcatProperties, ConcatEmptySeq
    <3> HIDE DEF c
    <3>5. <<e>> \in Text
      BY <3>3 DEF Text
    <3> QED
      BY <2>2, <3>1, <3>3, <3>4, <3>5, TokensAre
  <2>7. CASE e # Space /\ w # <<>>
    <3> DEFINE v == Append(w \o b, e)
    <3>1. w \o b \in Seq(Token) /\ Len(w \o b) = Len(w) + Len(b) /\ Len(w) \in Nat /\ Len(b) \in Nat /\ Len(w) >= 1
      BY <2>3, <2>7, ConcatProperties, LenProperties, EmptySeq
    <3>2. v \in Seq(Token) /\ Len(v) = Len(w) + Len(b) + 1 /\ v[Len(v)] = e /\ v[1] = w[1] /\ v # <<>>
      <4>1. (w \o b)[1] = w[1]
        BY <2>3, <3>1, ConcatProperties
      <4>2. 1 \in 1..Len(w \o b)
        BY <3>1
      <4> QED
        BY <3>1, <4>1, <4>2, AppendProperties
    <3>3. Append(t, e) = a \o v \o <<>>
      <4>1. Append(t, e) = t \o <<e>> /\ v = (w \o b) \o <<e>> /\ <<e>> \in Seq(Token)
        BY <2>3, <3>1, AppendIsConcat
      <4>2. (a \o w) \o b = a \o (w \o b)
        BY <2>3, ConcatAssociative
      <4>3. (a \o (w \o b)) \o <<e>> = a \o ((w \o b) \o <<e>>)
        <5>1. PICK c \in Seq(Token) : c = w \o b
          BY <3>1
        <5>2. PICK d \in Seq(Token) : d = <<e>>
          BY <4>1
        <5>3. Grouped(a, c, d)
          BY <2>3, Grouping DEF Text
        <5> QED
          BY <5>1, <5>2, <5>3, Zenon DEF Grouped
      <4>4. a \o v \in Seq(Token)
        BY <2>3, <3>2, ConcatProperties
      <4>5. a \o v \o <<>> = a \o v
        BY <4>4, ConcatEmptySeq
      <4> HIDE DEF v
      <4> QED
        BY <2>1, <4>1, <4>2, <4>3, <4>5
    <3> HIDE DEF v
    <3>4. v \in Text /\ Tight(v)
      BY <2>1, <2>7, <3>2 DEF Text, Tight
    <3> QED
      BY <2>2, <3>3, <3>4, TokensAre
  <2> QED
    BY <2>5, <2>6, <2>7
<1>3. s \in good
  <2> HIDE DEF good
  <2>1. \A t \in Seq(Token) : t \in good
    BY <1>1, <1>2, SeqInduction DEF Text
  <2> QED
    BY <2>1 DEF Text
<1>4. PICK a, b \in Spaces, w \in Text : s = a \o w \o b /\ Tight(w)
  BY <1>3
<1> QED
  BY <1>4, Zenon DEF Inside

LEMMA TrimType == ASSUME NEW s \in Text PROVE Trim(s) \in Text
BY Trimmed, TrimInside

(* Spaces behind a text do not count. *)
LEMMA TrailingSpace ==
    ASSUME NEW s \in Text
    PROVE  s \o <<Space>> \in Text /\ Trim(s \o <<Space>>) = Trim(s)
<1>0. PICK w \in Text : Inside(s, w)
  BY Trimmed
<1>1. PICK a, b \in Spaces : s = a \o w \o b /\ Tight(w) /\ Trim(s) = w
  BY <1>0, TrimInside DEF Inside
<1>2. a \in Seq(Token) /\ w \in Seq(Token) /\ b \in Seq(Token) /\ s \in Seq(Token) /\ <<Space>> \in Seq(Token)
  BY TokensAre DEF Text
<1>3. a \o w \in Seq(Token)
  BY <1>2, ConcatProperties
<1>4. s \o <<Space>> = a \o w \o (b \o <<Space>>)
  <2>1. PICK c \in Text : c = a \o w
    BY <1>3 DEF Text
  <2>2. PICK d \in Text : d = <<Space>>
    BY TokensAre
  <2>3. b \in Text
    BY <1>2 DEF Text
  <2>4. Grouped(c, b, d)
    BY <2>3, Grouping
  <2> QED
    BY <1>1, <2>1, <2>2, <2>4, Zenon DEF Grouped
<1>5. b \o <<Space>> \in Spaces
  BY TokensAre, ConcatProperties DEF Spaces
<1>6. Trim(a \o w \o (b \o <<Space>>)) = w
  BY <1>1, <1>5, TrimOf
<1>7. s \o <<Space>> \in Seq(Token)
  BY <1>2, ConcatProperties
<1> QED
  BY <1>1, <1>4, <1>6, <1>7 DEF Text

LEMMA OneItem ==
    ASSUME NEW T, NEW s \in Seq(T), NEW i \in 1..Len(s)
    PROVE  SubSeq(s, i, i) = <<s[i]>>
<1>1. i \in Int /\ s[i] \in T /\ Len(s) \in Nat
  BY ElementOfSeq, LenProperties
<1>2. \A k \in i..i : s[k] \in T
  BY <1>1
<1>3. /\ SubSeq(s, i, i) \in Seq(T) /\ Len(SubSeq(s, i, i)) = IF i <= i THEN i - i + 1 ELSE 0
      /\ \A k \in 1..(i - i + 1) : SubSeq(s, i, i)[k] = s[i + k - 1]
  BY <1>1, <1>2, SubSeqProperties
<1>4. Len(SubSeq(s, i, i)) = 1 /\ \A k \in 1..1 : SubSeq(s, i, i)[k] = s[i]
  BY <1>1, <1>3
<1>5. <<s[i]>> \in Seq(T) /\ Len(<<s[i]>>) = 1 /\ \A k \in 1..1 : <<s[i]>>[k] = s[i]
  BY <1>1
<1> QED
  BY <1>3, <1>4, <1>5, SeqEqual

LEMMA OneToken ==
    ASSUME NEW s \in Seq(Token), NEW i \in 1..Len(s)
    PROVE  SubSeq(s, i, i) = <<s[i]>>
BY OneItem

(* Where a sign occurs for the first time. *)
LEMMA FirstSign ==
    ASSUME NEW token \in Token, NEW head \in Text, NEW tail \in Text, NEW s, Around(s, head, token, tail)
    PROVE  /\ s \in Text /\ FirstAt(<<token>>, s, 1) = Len(head) + 1
           /\ SubSeq(s, 1, Len(head)) = head /\ SubSeq(s, Len(head) + 2, Len(s)) = tail
<1>1. /\ head \in Seq(Token) /\ tail \in Seq(Token) /\ <<token>> \in Seq(Token) /\ Len(<<token>>) = 1
      /\ s = head \o <<token>> \o tail /\ Lacks(head, token)
  BY DEF Text, Around
<1>2. /\ s \in Seq(Token) /\ Len(s) = Len(head) + 1 + Len(tail)
      /\ Len(head) \in Nat /\ Len(tail) \in Nat
  BY <1>1, ThreeParts
<1>3. /\ \A i \in 1..Len(head) : s[i] = head[i]
      /\ \A i \in 1..Len(tail) : s[Len(head) + 1 + i] = tail[i]
  BY <1>1, ThreeParts
<1>4. s[Len(head) + 1] = token
  BY <1>1, ThreeParts
<1>5. \A i \in 1..Len(s) : s[i] \in Token
  BY <1>2, ElementOfSeq
<1>6. PICK n : n = Len(head) + 1
  OBVIOUS
<1>7. n \in 1..Len(s) /\ s[n] = token /\ \A i \in 1..Len(s) : i < n => s[i] # token
  BY <1>1, <1>2, <1>3, <1>4, <1>6 DEF Lacks
<1>8. ASSUME NEW i \in 1..Len(s) PROVE SubSeq(s, i, i + Len(<<token>>) - 1) = <<s[i]>>
  <2>1. i + Len(<<token>>) - 1 = i
    BY <1>1
  <2> QED
    BY <1>2, <2>1, OneToken
<1>9. PICK places : places = {i \in 1..(Len(s) - Len(<<token>>) + 1) : SubSeq(s, i, i + Len(<<token>>) - 1) = <<token>>}
  OBVIOUS
<1>10. places = {i \in 1..Len(s) : s[i] = token}
  <2>1. Len(s) - Len(<<token>>) + 1 = Len(s)
    BY <1>1, <1>2
  <2>2. \A i \in 1..Len(s) : <<s[i]>> = <<token>> <=> s[i] = token
    OBVIOUS
  <2> QED
    BY <1>8, <1>9, <2>1, <2>2
<1>11. n \in places /\ places \in SUBSET Int /\ \A i \in places : n <= i
  BY <1>2, <1>7, <1>10
<1>12. FirstAt(<<token>>, s, 1) = n
  BY <1>9, <1>11, LeastIs DEF FirstAt
<1>13. SubSeq(s, 1, Len(head)) = head
  <2>1. \A i \in 1..Len(head) : s[i] \in Token
    BY <1>2, <1>5
  <2>2. /\ SubSeq(s, 1, Len(head)) \in Seq(Token)
        /\ Len(SubSeq(s, 1, Len(head))) = IF 1 <= Len(head) THEN Len(head) - 1 + 1 ELSE 0
        /\ \A i \in 1..(Len(head) - 1 + 1) : SubSeq(s, 1, Len(head))[i] = s[1 + i - 1]
    BY <1>2, <2>1, SubSeqProperties
  <2>3. Len(SubSeq(s, 1, Len(head))) = Len(head)
    BY <1>2, <2>2
  <2>4. \A i \in 1..Len(head) : SubSeq(s, 1, Len(head))[i] = head[i]
    BY <1>2, <1>3, <2>2
  <2> QED
    BY <1>1, <2>2, <2>3, <2>4, SeqEqual
<1>14. SubSeq(s, Len(head) + 2, Len(s)) = tail
  <2>1. PICK m : m = Len(head) + 2
    OBVIOUS
  <2>2. m \in Int /\ Len(s) \in Int /\ m >= 1 /\ Len(s) - m + 1 = Len(tail)
    BY <1>2, <2>1
  <2>3. \A i \in m..Len(s) : s[i] \in Token
    BY <1>5, <2>2
  <2>4. /\ SubSeq(s, m, Len(s)) \in Seq(Token)
        /\ Len(SubSeq(s, m, Len(s))) = IF m <= Len(s) THEN Len(s) - m + 1 ELSE 0
        /\ \A i \in 1..(Len(s) - m + 1) : SubSeq(s, m, Len(s))[i] = s[m + i - 1]
    BY <2>2, <2>3, SubSeqProperties
  <2>5. Len(SubSeq(s, m, Len(s))) = Len(tail)
    BY <1>2, <2>2, <2>4
  <2>6. ASSUME NEW i \in 1..Len(tail) PROVE SubSeq(s, m, Len(s))[i] = tail[i]
    BY <1>2, <1>3, <2>1, <2>2, <2>4
  <2> QED
    BY <1>1, <2>1, <2>4, <2>5, <2>6, SeqEqual
<1> QED
  BY <1>2, <1>6, <1>12, <1>13, <1>14 DEF Text

LEMMA NoSign ==
    ASSUME NEW token, NEW s \in Text, Lacks(s, token)
    PROVE  FirstAt(<<token>>, s, 1) = 0
<1>1. s \in Seq(Token) /\ Len(s) \in Nat /\ Len(<<token>>) = 1
  BY LenProperties DEF Text
<1>2. \A i \in 1..Len(s) : s[i] \in Token
  BY <1>1, ElementOfSeq
<1>3. ASSUME NEW i \in 1..Len(s) PROVE SubSeq(s, i, i + Len(<<token>>) - 1) # <<token>>
  BY <1>1, OneToken DEF Lacks
<1>4. {i \in 1..(Len(s) - Len(<<token>>) + 1) : SubSeq(s, i, i + Len(<<token>>) - 1) = <<token>>} = {}
  BY <1>1, <1>3
<1> QED
  BY <1>4, Zenon DEF FirstAt

LEMMA FirstOrNone ==
    ASSUME NEW token \in Token, NEW s \in Text
    PROVE  \/ Lacks(s, token)
           \/ \E head, tail \in Text : Around(s, head, token, tail)
<1> DEFINE found(t) == \E head, tail \in Text : t = head \o <<token>> \o tail /\ Lacks(head, token)
           good == {t \in Text : Lacks(t, token) \/ found(t)}
<1>1. <<>> \in good
  BY TokensAre, EmptySeq DEF Lacks
<1>2. ASSUME NEW t \in Text, NEW e \in Token, t \in good
      PROVE  Append(t, e) \in good
  <2>1. t \in Seq(Token) /\ Append(t, e) \in Text
    BY AppendProperties DEF Text
  <2>2. PICK d \in Seq(Token) : d = <<e>>
    <3>1. <<e>> \in Seq(Token)
      OBVIOUS
    <3> QED
      BY <3>1
  <2>3. Append(t, e) = t \o d
    BY <2>1, <2>2, AppendIsConcat
  <2>4. CASE found(t)
    <3>1. PICK head, tail \in Text : t = head \o <<token>> \o tail /\ Lacks(head, token)
      BY <2>4
    <3>2. PICK c \in Seq(Token) : c = head \o <<token>>
      <4>1. <<token>> \in Seq(Token)
        OBVIOUS
      <4> QED
        BY <4>1, ConcatProperties DEF Text
    <3>3. Grouped(c, tail, d)
      BY Grouping DEF Text
    <3>4. tail \o d \in Text
      BY ConcatProperties DEF Text
    <3> QED
      BY <2>1, <2>3, <3>1, <3>2, <3>3, <3>4 DEF Grouped
  <2>5. CASE Lacks(t, token) /\ e = token
    <3>1. t \o d \in Seq(Token)
      BY <2>1, ConcatProperties
    <3>2. Append(t, e) = t \o <<token>> \o <<>>
      BY <2>2, <2>3, <2>5, <3>1, ConcatEmptySeq
    <3> QED
      BY <2>1, <2>5, <3>2, TokensAre
  <2>6. CASE Lacks(t, token) /\ e # token
    <3>1. \A i \in 1..Len(Append(t, e)) : Append(t, e)[i] # token
      BY <2>1, <2>6, AppendProperties, LenProperties DEF Lacks
    <3> QED
      BY <2>1, <3>1 DEF Lacks
  <2> QED
    BY <1>2, <2>4, <2>5, <2>6
<1>3. s \in good
  <2> HIDE DEF good
  <2>1. \A t \in Seq(Token) : t \in good
    BY <1>1, <1>2, SeqInduction DEF Text
  <2> QED
    BY <2>1 DEF Text
<1> QED
  BY <1>3, Zenon DEF Around

-----------------------------------------------------------------------------
(* The cookies of a request. *)
Stores == UNION {[D -> Text] : D \in SUBSET Text}

LEMMA NoCookiesType == NoCookies \in Stores
<1>1. NoCookies \in [{} -> Text]
  BY DEF NoCookies
<1> QED
  BY <1>1 DEF Stores

LEMMA WithType ==
    ASSUME NEW store \in Stores, NEW name \in Text, NEW value \in Text
    PROVE  With(store, name, value) \in Stores
<1>1. PICK D \in SUBSET Text : store \in [D -> Text]
  BY DEF Stores
<1>2. With(store, name, value) \in [D \cup {name} -> Text]
  BY <1>1 DEF With
<1>3. D \cup {name} \in SUBSET Text
  OBVIOUS
<1> QED
  BY <1>2, <1>3 DEF Stores

(* A pair without a sign, and one with. *)
LEMMA BareName ==
    ASSUME NEW store, NEW text, NEW w \in Text, Inside(text, w), Lacks(w, Equals)
    PROVE  ReadPair(store, text) = IF w = <<>> THEN store ELSE With(store, w, <<>>)
<1>1. Trim(text) = w
  BY TrimInside
<1>2. FirstAt(<<Equals>>, w, 1) = 0
  BY NoSign
<1> QED
  BY <1>1, <1>2, Zenon DEF ReadPair

LEMMA NameAndValue ==
    ASSUME NEW store, NEW text, NEW w \in Text, Inside(text, w),
           NEW head \in Text, NEW tail \in Text, Around(w, head, Equals, tail)
    PROVE  ReadPair(store, text) =
               IF Trim(head) = <<>> THEN store ELSE With(store, Trim(head), Trim(tail))
<1>1. Trim(text) = w
  BY TrimInside
<1>2. Equals \in Token
  BY TokensAre
<1>3. /\ FirstAt(<<Equals>>, w, 1) = Len(head) + 1
      /\ SubSeq(w, 1, Len(head)) = head /\ SubSeq(w, Len(head) + 2, Len(w)) = tail
  BY <1>2, FirstSign
<1>4. PICK n : n = Len(head) + 1
  OBVIOUS
<1>5. n # 0 /\ n - 1 = Len(head) /\ n + 1 = Len(head) + 2
  BY <1>4, LenProperties DEF Text
<1>6. SubSeq(w, 1, n - 1) = head /\ ValueFrom(w, n) = tail
  BY <1>3, <1>5 DEF ValueFrom
<1> QED
  BY <1>1, <1>3, <1>4, <1>5, <1>6, Zenon DEF ReadPair

LEMMA ReadPairType ==
    ASSUME NEW store \in Stores, NEW text \in Text
    PROVE  ReadPair(store, text) \in Stores
<1>1. PICK w \in Text : Inside(text, w)
  BY Trimmed
<1>2. CASE Lacks(w, Equals)
  <2>1. ReadPair(store, text) = IF w = <<>> THEN store ELSE With(store, w, <<>>)
    BY <1>1, <1>2, BareName
  <2> QED
    BY <2>1, TokensAre, WithType
<1>3. CASE ~Lacks(w, Equals)
  <2>1. PICK head, tail \in Text : Around(w, head, Equals, tail)
    BY <1>3, FirstOrNone, TokensAre
  <2>2. ReadPair(store, text) = IF Trim(head) = <<>> THEN store ELSE With(store, Trim(head), Trim(tail))
    BY <1>1, <2>1, NameAndValue
  <2>3. Trim(head) \in Text /\ Trim(tail) \in Text
    BY TrimType
  <2> QED
    BY <2>2, <2>3, WithType
<1> QED
  BY <1>2, <1>3

(* The cookies of a request, pair by pair. *)
LEMMA StoreAppend ==
    /\ StoreOf(<<>>) = NoCookies
    /\ \A xs \in Seq(Text) : StoreOf(xs) \in Stores
    /\ \A xs \in Seq(Text), x \in Text : StoreOf(Append(xs, x)) = ReadPair(StoreOf(xs), x)
<1>1. PICK S, T : S = Stores /\ T = Text
  OBVIOUS
<1>2. PICK step : step = [x \in T |-> [s \in S |-> ReadPair(s, x)]]
  OBVIOUS
<1>3. step \in [T -> [S -> S]]
  BY <1>1, <1>2, ReadPairType
<1>4. PICK base : base = NoCookies
  OBVIOUS
<1>5. base \in S
  BY <1>1, <1>4, NoCookiesType
<1>6. PICK run : Runs(run, S, T, base, step)
  BY <1>3, <1>5, LoopOver
<1>7. /\ run \in [Seq(T) -> S] /\ run[<<>>] = base
      /\ \A xs \in Seq(T), x \in T : run[Append(xs, x)] = step[x][run[xs]]
  BY <1>6, Zenon DEF Runs
<1>8. ASSUME NEW xs \in Seq(T)
      PROVE  StoreOf(xs) = run[xs]
  <2> DEFINE n == Len(xs)
             Right(f) == f = [i \in 0..n |-> IF i = 0 THEN NoCookies ELSE ReadPair(f[i - 1], xs[i])]
             g == CHOOSE f : Right(f)
  <2>1. n \in Nat
    BY LenProperties
  <2>2. PICK f : /\ f = [i \in 0..n |-> IF i = 0 THEN base ELSE step[xs[i]][f[i - 1]]]
                 /\ \A i \in 0..n : f[i] \in S
    BY <1>6, Zenon DEF Runs
  <2>3. ASSUME NEW i \in 0..n
        PROVE  f[i] = IF i = 0 THEN NoCookies ELSE ReadPair(f[i - 1], xs[i])
    <3>1. CASE i = 0
      BY <1>4, <2>2, <3>1
    <3>2. CASE i # 0
      BY <1>2, <2>1, <2>2, <3>2, ElementOfSeq
    <3> QED
      BY <3>1, <3>2
  <2>4. Right(f)
    BY <2>2, <2>3
  <2>5. Right(g)
    BY <2>4, Zenon
  <2>6. StoreOf(xs) = g[n]
    BY Zenon DEF StoreOf
  <2> HIDE DEF g
  <2>7. \A i \in 0..n : g[i] = IF i = 0 THEN NoCookies ELSE ReadPair(g[i - 1], xs[i])
    BY <2>5, Zenon
  <2>8. Unfolds(g, n, S, base, step, xs)
    <3>1. g[0] = base
      BY <1>4, <2>1, <2>7
    <3>2. ASSUME NEW i \in 1..n, g[i - 1] \in S
          PROVE  g[i] = step[xs[i]][g[i - 1]]
      BY <1>2, <2>1, <2>7, <3>2, ElementOfSeq
    <3> QED
      BY <3>1, <3>2 DEF Unfolds
  <2> QED
    BY <1>6, <2>6, <2>8, Zenon DEF Runs
<1>9. StoreOf(<<>>) = NoCookies
  BY <1>4, <1>7, <1>8, EmptySeq
<1>10. ASSUME NEW xs \in Seq(T) PROVE StoreOf(xs) \in S
  BY <1>7, <1>8
<1>11. ASSUME NEW xs \in Seq(T), NEW x \in T
       PROVE  StoreOf(Append(xs, x)) = ReadPair(StoreOf(xs), x)
  <2>1. Append(xs, x) \in Seq(T)
    BY AppendProperties
  <2>2. run[Append(xs, x)] = step[x][run[xs]] /\ run[xs] \in S
    BY <1>7
  <2>3. step[x][run[xs]] = ReadPair(run[xs], x)
    BY <1>2, <2>2
  <2> QED
    BY <1>8, <2>1, <2>2, <2>3
<1> QED
  BY <1>1, <1>9, <1>10, <1>11, Zenon

-----------------------------------------------------------------------------
(* What lies between separators. *)
Pieces == {p \in Seq(Text) : p # <<>>}

LEMMA ExtendLast ==
    ASSUME NEW front \in Seq(Text), NEW last \in Text, NEW token \in Token, NEW separator
    PROVE  /\ Append(front, last) \in Pieces
           /\ Extend(Append(front, last), token, separator) =
                  IF token = separator THEN Append(Append(front, last), <<>>) ELSE Append(front, Append(last, token))
<1>1. PICK p : p = Append(front, last)
  OBVIOUS
<1>2. PICK n : n = Len(front) + 1
  OBVIOUS
<1>3. /\ p \in Seq(Text) /\ p # <<>> /\ Len(p) = n /\ n \in Nat /\ n >= 1
      /\ \A i \in 1..Len(front) : p[i] = front[i]
      /\ p[n] = last
  BY <1>1, <1>2, AppendProperties, LenProperties
<1>4. Append(last, token) \in Text
  BY AppendProperties DEF Text
<1>5. [p EXCEPT ![n] = Append(last, token)] = Append(front, Append(last, token))
  <2>1. PICK x : x = Append(last, token)
    OBVIOUS
  <2>2. PICK q : q = [p EXCEPT ![n] = x]
    OBVIOUS
  <2>3. PICK r : r = Append(front, x)
    OBVIOUS
  <2>4. x \in Text /\ n \in 1..Len(p)
    BY <1>3, <1>4, <2>1
  <2>5. /\ q \in Seq(Text) /\ Len(q) = Len(p)
        /\ \A i \in 1..Len(p) : q[i] = IF i = n THEN x ELSE p[i]
    BY <1>3, <2>2, <2>4, ExceptSeq
  <2>6. /\ r \in Seq(Text) /\ Len(r) = n /\ r[n] = x
        /\ \A i \in 1..Len(front) : r[i] = front[i]
    BY <1>2, <2>3, <2>4, AppendProperties
  <2>7. Len(front) \in Nat
    BY LenProperties
  <2>8. \A i \in 1..Len(q) : q[i] = r[i]
    BY <1>2, <1>3, <2>5, <2>6, <2>7
  <2>9. q = r
    BY <1>3, <2>5, <2>6, <2>8, SeqEqual
  <2> QED
    BY <2>1, <2>2, <2>3, <2>9
<1>6. Extend(p, token, separator) = IF token = separator THEN Append(p, <<>>) ELSE [p EXCEPT ![n] = Append(last, token)]
  BY <1>3 DEF Extend
<1> QED
  BY <1>1, <1>3, <1>5, <1>6 DEF Pieces

LEMMA ExtendType ==
    ASSUME NEW pieces \in Pieces, NEW token \in Token, NEW separator
    PROVE  Extend(pieces, token, separator) \in Pieces
<1>1. PICK front \in Seq(Text), last \in Text : pieces = Append(front, last)
  BY SequenceEmptyOrAppend DEF Pieces
<1>2. Append(last, token) \in Text /\ <<>> \in Text
  BY AppendProperties, TokensAre DEF Text
<1>3. Append(pieces, <<>>) \in Pieces
  BY <1>2, AppendProperties DEF Pieces
<1>4. Append(front, Append(last, token)) \in Pieces
  BY <1>2, AppendProperties DEF Pieces
<1>5. Extend(Append(front, last), token, separator) =
          IF token = separator THEN Append(Append(front, last), <<>>) ELSE Append(front, Append(last, token))
  BY ExtendLast
<1> QED
  BY <1>1, <1>3, <1>4, <1>5


LEMMA OnePiece == << <<>> >> \in Pieces /\ << <<>> >> = Append(<<>>, <<>>)
<1>1. <<>> \in Seq(Text) /\ <<>> \in Text
  BY TokensAre, EmptySeq
<1>2. << <<>> >> = Append(<<>>, <<>>)
  OBVIOUS
<1>3. Append(<<>>, <<>>) \in Pieces
  BY <1>1, AppendProperties DEF Pieces
<1> QED
  BY <1>2, <1>3

(* The pieces of a text, token by token. *)
LEMMA SplitAppend ==
    ASSUME NEW separator
    PROVE
    /\ Split(<<>>, separator) = << <<>> >>
    /\ \A xs \in Seq(Token) : Split(xs, separator) \in Pieces
    /\ \A xs \in Seq(Token), x \in Token : Split(Append(xs, x), separator) = Extend(Split(xs, separator), x, separator)
<1>1. PICK S, T : S = Pieces /\ T = Token
  OBVIOUS
<1>2. PICK step : step = [x \in T |-> [s \in S |-> Extend(s, x, separator)]]
  OBVIOUS
<1>3. step \in [T -> [S -> S]]
  BY <1>1, <1>2, ExtendType
<1>4. PICK base : base = << <<>> >>
  OBVIOUS
<1>5. base \in S
  BY <1>1, <1>4, OnePiece
<1>6. PICK run : Runs(run, S, T, base, step)
  BY <1>3, <1>5, LoopOver
<1>7. /\ run \in [Seq(T) -> S] /\ run[<<>>] = base
      /\ \A xs \in Seq(T), x \in T : run[Append(xs, x)] = step[x][run[xs]]
  BY <1>6, Zenon DEF Runs
<1>8. ASSUME NEW xs \in Seq(T)
      PROVE  Split(xs, separator) = run[xs]
  <2> DEFINE n == Len(xs)
             Right(f) == f = [i \in 0..n |-> IF i = 0 THEN << <<>> >> ELSE Extend(f[i - 1], xs[i], separator)]
             g == CHOOSE f : Right(f)
  <2>1. n \in Nat
    BY LenProperties
  <2>2. PICK f : /\ f = [i \in 0..n |-> IF i = 0 THEN base ELSE step[xs[i]][f[i - 1]]]
                 /\ \A i \in 0..n : f[i] \in S
    BY <1>6, Zenon DEF Runs
  <2>3. ASSUME NEW i \in 0..n
        PROVE  f[i] = IF i = 0 THEN << <<>> >> ELSE Extend(f[i - 1], xs[i], separator)
    <3>1. CASE i = 0
      BY <1>4, <2>2, <3>1
    <3>2. CASE i # 0
      BY <1>2, <2>1, <2>2, <3>2, ElementOfSeq
    <3> QED
      BY <3>1, <3>2
  <2>4. Right(f)
    BY <2>2, <2>3
  <2>5. Right(g)
    BY <2>4, Zenon
  <2>6. Split(xs, separator) = g[n]
    BY Zenon DEF Split
  <2> HIDE DEF g
  <2>7. \A i \in 0..n : g[i] = IF i = 0 THEN << <<>> >> ELSE Extend(g[i - 1], xs[i], separator)
    BY <2>5, Zenon
  <2>8. Unfolds(g, n, S, base, step, xs)
    <3>1. g[0] = base
      BY <1>4, <2>1, <2>7
    <3>2. ASSUME NEW i \in 1..n, g[i - 1] \in S
          PROVE  g[i] = step[xs[i]][g[i - 1]]
      BY <1>2, <2>1, <2>7, <3>2, ElementOfSeq
    <3> QED
      BY <3>1, <3>2 DEF Unfolds
  <2> QED
    BY <1>6, <2>6, <2>8, Zenon DEF Runs
<1>9. Split(<<>>, separator) = << <<>> >>
  BY <1>4, <1>7, <1>8, EmptySeq
<1>10. ASSUME NEW xs \in Seq(T) PROVE Split(xs, separator) \in S
  BY <1>7, <1>8
<1>11. ASSUME NEW xs \in Seq(T), NEW x \in T
       PROVE  Split(Append(xs, x), separator) = Extend(Split(xs, separator), x, separator)
  <2>1. Append(xs, x) \in Seq(T)
    BY AppendProperties
  <2>2. run[Append(xs, x)] = step[x][run[xs]] /\ run[xs] \in S
    BY <1>7
  <2>3. step[x][run[xs]] = Extend(run[xs], x, separator)
    BY <1>2, <2>2
  <2> QED
    BY <1>8, <2>1, <2>2, <2>3
<1> QED
  BY <1>1, <1>9, <1>10, <1>11, Zenon

(* What has no separator belongs to the last piece. *)
LEMMA SplitWord ==
    ASSUME NEW separator, NEW s \in Text, NEW front \in Seq(Text), NEW last \in Text,
           Split(s, separator) = Append(front, last),
           NEW w \in Text, Lacks(w, separator)
    PROVE  Split(s \o w, separator) = Append(front, last \o w)
<1> DEFINE good == {t \in Text : Lacks(t, separator) => Split(s \o t, separator) = Append(front, last \o t)}
<1>1. s \in Seq(Token) /\ last \in Seq(Token)
  BY DEF Text
<1>2. <<>> \in good
  BY <1>1, ConcatEmptySeq, TokensAre
<1>3. ASSUME NEW t \in Text, NEW e \in Token, t \in good
      PROVE  Append(t, e) \in good
  <2>1. t \in Seq(Token) /\ Append(t, e) \in Seq(Token)
    BY AppendProperties DEF Text
  <2> SUFFICES ASSUME Lacks(Append(t, e), separator)
               PROVE  Split(s \o Append(t, e), separator) = Append(front, last \o Append(t, e))
    BY <2>1 DEF Text
  <2>2. Lacks(t, separator) /\ e # separator
    BY <2>1, AppendProperties, LenProperties DEF Lacks
  <2>3. PICK u \in Seq(Token) : u = s \o t
    BY <1>1, <2>1, ConcatProperties
  <2>4. PICK l \in Seq(Token) : l = last \o t
    BY <1>1, <2>1, ConcatProperties
  <2>5. s \o Append(t, e) = Append(u, e) /\ last \o Append(t, e) = Append(l, e)
    <3>1. PICK d \in Seq(Token) : d = <<e>>
      <4>1. <<e>> \in Seq(Token)
        OBVIOUS
      <4> QED
        BY <4>1
    <3>2. Append(t, e) = t \o d /\ Append(u, e) = u \o d /\ Append(l, e) = l \o d
      BY <2>1, <3>1, AppendIsConcat
    <3>3. d \in Text
      BY <3>1 DEF Text
    <3>4. Grouped(s, t, d) /\ Grouped(last, t, d)
      BY <3>3, Grouping
    <3> QED
      BY <2>3, <2>4, <3>2, <3>4, Zenon DEF Grouped
  <2>6. Split(u, separator) = Append(front, l)
    BY <1>3, <2>2, <2>3, <2>4
  <2>7. Split(Append(u, e), separator) = Extend(Split(u, separator), e, separator)
    BY SplitAppend
  <2>8. Extend(Append(front, l), e, separator) = Append(front, Append(l, e))
    BY <2>2, ExtendLast DEF Text
  <2> QED
    BY <2>5, <2>6, <2>7, <2>8
<1>4. w \in good
  <2> HIDE DEF good
  <2>1. \A t \in Seq(Token) : t \in good
    BY <1>2, <1>3, SeqInduction DEF Text
  <2> QED
    BY <2>1 DEF Text
<1> QED
  BY <1>4

SplitsInto(s, separator, front, last) == Split(s, separator) = Append(front, last)

LEMMA SplitOn ==
    ASSUME NEW separator, NEW s \in Text, NEW front \in Seq(Text), NEW last \in Text,
           SplitsInto(s, separator, front, last),
           NEW w \in Text, Lacks(w, separator),
           NEW u, u = s \o w, NEW l, l = last \o w
    PROVE  SplitsInto(u, separator, front, l)
BY SplitWord DEF SplitsInto

LEMMA FirstCookie ==
    ASSUME NEW w \in Text, Lacks(w, Semicolon)
    PROVE  ReadCookies(w) = ReadPair(NoCookies, w)
<1>1. <<>> \in Text /\ <<>> \in Seq(Text)
  BY TokensAre, EmptySeq
<1>2. Split(<<>>, Semicolon) = Append(<<>>, <<>>)
  BY SplitAppend, OnePiece
<1>3. Split(<<>> \o w, Semicolon) = Append(<<>>, <<>> \o w)
  BY <1>1, <1>2, SplitWord
<1>4. <<>> \o w = w
  BY ConcatEmptySeq DEF Text
<1>5. StoreOf(Append(<<>>, w)) = ReadPair(StoreOf(<<>>), w) /\ StoreOf(<<>>) = NoCookies
  BY <1>1, StoreAppend
<1> QED
  BY <1>3, <1>4, <1>5 DEF ReadCookies

LEMMA NextCookie ==
    ASSUME NEW line \in Text, NEW w \in Text, Lacks(w, Semicolon)
    PROVE  ReadCookies(line \o <<Semicolon>> \o w) = ReadPair(ReadCookies(line), w)
<1>1. line \in Seq(Token) /\ Semicolon \in Token /\ <<>> \in Text
  BY TokensAre DEF Text
<1>2. Split(line, Semicolon) \in Seq(Text)
  BY <1>1, SplitAppend DEF Pieces
<1>3. PICK front \in Seq(Text), last \in Text : Split(line, Semicolon) = Append(front, last)
  <2>1. Split(line, Semicolon) # <<>>
    BY <1>1, SplitAppend DEF Pieces
  <2> QED
    BY <1>2, <2>1, SequenceEmptyOrAppend
<1>4. PICK u \in Text : u = Append(line, Semicolon)
  BY <1>1, AppendProperties DEF Text
<1>5. Split(u, Semicolon) = Append(Split(line, Semicolon), <<>>)
  <2>1. Split(u, Semicolon) = Extend(Split(line, Semicolon), Semicolon, Semicolon)
    BY <1>1, <1>4, SplitAppend
  <2> QED
    BY <1>1, <1>3, <2>1, ExtendLast
<1>6. Split(u \o w, Semicolon) = Append(Split(line, Semicolon), <<>> \o w)
  <2>1. PICK f \in Seq(Text) : f = Split(line, Semicolon)
    BY <1>2
  <2>2. PICK none \in Text : none = <<>>
    BY <1>1
  <2>3. SplitsInto(u, Semicolon, f, none)
    BY <1>5, <2>1, <2>2 DEF SplitsInto
  <2>4. SplitsInto(u \o w, Semicolon, f, none \o w)
    BY <2>3, SplitOn
  <2> QED
    BY <2>1, <2>2, <2>4 DEF SplitsInto
<1>7. <<>> \o w = w
  BY ConcatEmptySeq DEF Text
<1>8. StoreOf(Append(Split(line, Semicolon), w)) = ReadPair(StoreOf(Split(line, Semicolon)), w)
  BY <1>2, StoreAppend
<1>9. line \o <<Semicolon>> = u
  BY <1>1, <1>4, AppendIsConcat
<1> QED
  BY <1>6, <1>7, <1>8, <1>9 DEF ReadCookies

LEMMA CookieSpace ==
    ASSUME NEW s \in Text
    PROVE  s \o <<Space>> \in Text /\ ReadCookies(s \o <<Space>>) = ReadCookies(s)
<1>1. s \in Seq(Token) /\ <<Space>> \in Text
  BY TokensAre DEF Text
<1>2. PICK front \in Seq(Text), last \in Text : Split(s, Semicolon) = Append(front, last)
  <2>1. Split(s, Semicolon) \in Seq(Text) /\ Split(s, Semicolon) # <<>>
    BY <1>1, SplitAppend DEF Pieces
  <2> QED
    BY <2>1, SequenceEmptyOrAppend
<1>3. Lacks(<<Space>>, Semicolon)
  BY SignsDiffer DEF Lacks
<1>4. Split(s \o <<Space>>, Semicolon) = Append(front, last \o <<Space>>)
  BY <1>1, <1>2, <1>3, SplitWord
<1>5. last \o <<Space>> \in Text /\ Trim(last \o <<Space>>) = Trim(last)
  BY TrailingSpace
<1>6. \A store : ReadPair(store, last \o <<Space>>) = ReadPair(store, last)
  BY <1>5, Zenon DEF ReadPair
<1>7. /\ StoreOf(Append(front, last)) = ReadPair(StoreOf(front), last)
      /\ StoreOf(Append(front, last \o <<Space>>)) = ReadPair(StoreOf(front), last \o <<Space>>)
  BY <1>5, StoreAppend
<1> QED
  BY <1>2, <1>4, <1>6, <1>7, TrailingSpace DEF ReadCookies

-----------------------------------------------------------------------------
(* A pair read back. *)
Put(store, name, value) == IF name = <<>> THEN store ELSE With(store, name, value)

Signed(x, y) == x \o <<Equals>> \o y

LeadBy(x, lead, head, n) == x = lead \o head /\ Trim(head) = n /\ (head = <<>> \/ head[1] # Space)

TrailBy(y, tail, trail, v) == y = tail \o trail /\ Trim(tail) = v /\ (tail = <<>> \/ tail[Len(tail)] # Space)

LEMMA Leading ==
    ASSUME NEW x \in Text, NEW n \in Text, Inside(x, n)
    PROVE  \E lead \in Spaces, head \in Text : LeadBy(x, lead, head, n)
<1>1. PICK a \in Spaces, b \in Spaces : x = a \o n \o b /\ Tight(n)
  BY DEF Inside
<1>2. a \in Seq(Token) /\ b \in Seq(Token) /\ n \in Seq(Token)
  BY TokensAre DEF Text
<1>3. CASE n = <<>>
  <2>1. PICK lead : lead = a \o b
    OBVIOUS
  <2>2. lead \in Spaces
    BY <2>1, ConcatProperties DEF Spaces
  <2>3. a \o n = a /\ lead \o <<>> = lead
    BY <1>2, <1>3, <2>2, TokensAre, ConcatEmptySeq DEF Text
  <2>4. Trim(<<>>) = n
    <3>1. <<>> = <<>> \o <<>> \o <<>> /\ Tight(<<>>)
      BY DEF Tight
    <3>2. Inside(<<>>, <<>>)
      BY <3>1, TokensAre, Zenon DEF Inside
    <3> QED
      BY <1>3, <3>2, TokensAre, TrimInside
  <2>5. LeadBy(x, lead, <<>>, n)
    BY <1>1, <2>1, <2>3, <2>4 DEF LeadBy
  <2> QED
    BY <2>2, <2>5, TokensAre
<1>4. CASE n # <<>>
  <2>1. PICK head : head = n \o b
    OBVIOUS
  <2>2. head \in Text /\ head \in Seq(Token)
    BY <1>2, <2>1, ConcatProperties DEF Text
  <2>3. x = a \o head
    BY <1>1, <1>2, <2>1, ConcatAssociative
  <2>4. head[1] # Space
    <3>1. Len(n) \in Nat /\ Len(n) # 0
      BY <1>2, <1>4, EmptySeq, LenProperties
    <3>2. 1 \in 1..Len(n) /\ Len(b) \in Nat
      BY <1>2, <3>1, LenProperties
    <3>3. n \o b \in Seq(Token) /\ Len(n \o b) = Len(n) + Len(b)
          /\ \A i \in 1..(Len(n) + Len(b)) : (n \o b)[i] = IF i <= Len(n) THEN n[i] ELSE b[i - Len(n)]
      BY <1>2, ConcatProperties
    <3>4. head[1] = n[1]
      BY <2>1, <3>2, <3>3
    <3> QED
      BY <1>1, <1>4, <3>4 DEF Tight
  <2>5. Trim(head) = n
    <3>1. head = <<>> \o n \o b
      BY <1>2, <2>1, ConcatEmptySeq
    <3>2. Inside(head, n)
      BY <1>1, <3>1, TokensAre, Zenon DEF Inside
    <3> QED
      BY <3>2, TrimInside
  <2>6. LeadBy(x, a, head, n)
    BY <2>3, <2>4, <2>5 DEF LeadBy
  <2> QED
    BY <2>2, <2>6
<1> QED
  BY <1>3, <1>4

LEMMA Trailing ==
    ASSUME NEW y \in Text, NEW v \in Text, Inside(y, v)
    PROVE  \E tail \in Text, trail \in Spaces : TrailBy(y, tail, trail, v)
<1>1. PICK a \in Spaces, b \in Spaces : y = a \o v \o b /\ Tight(v)
  BY DEF Inside
<1>2. a \in Seq(Token) /\ b \in Seq(Token) /\ v \in Seq(Token)
  BY TokensAre DEF Text
<1>3. CASE v = <<>>
  <2>1. PICK trail : trail = a \o b
    OBVIOUS
  <2>2. trail \in Spaces
    BY <2>1, ConcatProperties DEF Spaces
  <2>3. a \o v = a /\ <<>> \o trail = trail
    BY <1>2, <1>3, <2>2, TokensAre, ConcatEmptySeq DEF Text
  <2>4. Trim(<<>>) = v
    <3>1. <<>> = <<>> \o <<>> \o <<>> /\ Tight(<<>>)
      BY DEF Tight
    <3>2. Inside(<<>>, <<>>)
      BY <3>1, TokensAre, Zenon DEF Inside
    <3> QED
      BY <1>3, <3>2, TokensAre, TrimInside
  <2>5. TrailBy(y, <<>>, trail, v)
    BY <1>1, <2>1, <2>3, <2>4 DEF TrailBy
  <2> QED
    BY <2>2, <2>5, TokensAre
<1>4. CASE v # <<>>
  <2>1. PICK tail : tail = a \o v
    OBVIOUS
  <2>2. tail \in Text /\ tail \in Seq(Token)
    BY <1>2, <2>1, ConcatProperties DEF Text
  <2>3. y = tail \o b
    BY <1>1, <2>1
  <2>4. tail[Len(tail)] # Space
    <3>1. Len(v) \in Nat /\ Len(v) # 0 /\ Len(a) \in Nat
      BY <1>2, <1>4, EmptySeq, LenProperties
    <3>3. Len(a \o v) = Len(a) + Len(v)
          /\ \A i \in 1..(Len(a) + Len(v)) : (a \o v)[i] = IF i <= Len(a) THEN a[i] ELSE v[i - Len(a)]
      BY <1>2, ConcatProperties
    <3>4. tail[Len(tail)] = v[Len(v)]
      <4>1. PICK k : k = Len(a) + Len(v)
        OBVIOUS
      <4>2. k \in 1..(Len(a) + Len(v)) /\ ~(k <= Len(a)) /\ k - Len(a) = Len(v)
        BY <3>1, <4>1
      <4> QED
        BY <2>1, <3>3, <4>1, <4>2
    <3> QED
      BY <1>1, <1>4, <3>4 DEF Tight
  <2>5. Trim(tail) = v
    BY <1>1, <2>1, <2>2, ConcatEmptySeq, TokensAre, TrimInside DEF Inside
  <2>6. TrailBy(y, tail, b, v)
    BY <2>3, <2>4, <2>5 DEF TrailBy
  <2> QED
    BY <2>2, <2>6
<1> QED
  BY <1>3, <1>4

(* The ends of a name and a value with a sign between them. *)
LEMMA TightPair ==
    ASSUME NEW head \in Text, head = <<>> \/ head[1] # Space,
           NEW tail \in Text, tail = <<>> \/ tail[Len(tail)] # Space,
           NEW w, w = head \o <<Equals>> \o tail
    PROVE  w \in Text /\ Tight(w)
<1>1. head \in Seq(Token) /\ tail \in Seq(Token) /\ <<Equals>> \in Seq(Token) /\ Len(<<Equals>>) = 1
  BY TokensAre DEF Text
<1>2. /\ w \in Seq(Token) /\ Len(w) = Len(head) + 1 + Len(tail)
      /\ Len(head) \in Nat /\ Len(tail) \in Nat
  BY <1>1, ThreeParts
<1>3. /\ \A i \in 1..Len(head) : w[i] = head[i]
      /\ \A i \in 1..Len(tail) : w[Len(head) + 1 + i] = tail[i]
  BY <1>1, ThreeParts
<1>4. w[Len(head) + 1] = Equals
  BY <1>1, ThreeParts
<1>5. w[1] # Space
  <2>1. CASE head = <<>>
    BY <1>4, <2>1, EmptySeq, SignsDiffer
  <2>2. CASE head # <<>>
    BY <1>1, <1>2, <1>3, <2>2, EmptySeq
  <2> QED
    BY <2>1, <2>2
<1>6. w[Len(w)] # Space
  <2>1. CASE tail = <<>>
    BY <1>2, <1>4, <2>1, EmptySeq, SignsDiffer
  <2>2. CASE tail # <<>>
    BY <1>1, <1>2, <1>3, <2>2, EmptySeq
  <2> QED
    BY <2>1, <2>2
<1> QED
  BY <1>2, <1>5, <1>6 DEF Tight, Text

Shifts(p, q, t, r) == (p \o q) \o <<Equals>> \o (t \o r) = p \o (q \o <<Equals>> \o t) \o r

LEMMA ShiftPair ==
    ASSUME NEW p \in Text, NEW q \in Text, NEW t \in Text, NEW r \in Text
    PROVE  Shifts(p, q, t, r)
<1>0. PICK e \in Text : e = <<Equals>>
  BY TokensAre
<1>1. PICK qe \in Text : qe = q \o e
  BY ConcatProperties DEF Text
<1>2. Grouped(p, q, e)
  BY Grouping
<1>3. PICK pqe \in Text : pqe = p \o qe
  BY ConcatProperties DEF Text
<1>4. Grouped(pqe, t, r)
  BY Grouping
<1>5. Grouped(p, qe, t)
  BY Grouping
<1> QED
  BY <1>0, <1>1, <1>2, <1>3, <1>4, <1>5, Zenon DEF Shifts, Grouped

LEMMA PairOf ==
    ASSUME NEW store, NEW x \in Text, NEW n \in Text, Inside(x, n), Lacks(x, Equals),
           NEW y \in Text, NEW v \in Text, Inside(y, v)
    PROVE  ReadPair(store, Signed(x, y)) = Put(store, n, v)
<1>0. PICK s : s = Signed(x, y)
  OBVIOUS
<1>1. PICK lead \in Spaces, head \in Text : LeadBy(x, lead, head, n)
  BY Leading
<1>2. PICK tail \in Text, trail \in Spaces : TrailBy(y, tail, trail, v)
  BY Trailing
<1>3. PICK w : w = head \o <<Equals>> \o tail
  OBVIOUS
<1>4. w \in Text /\ Tight(w)
  BY <1>1, <1>2, <1>3, TightPair DEF LeadBy, TrailBy
<1>5. Lacks(head, Equals)
  <2>1. lead \in Seq(Token) /\ head \in Seq(Token)
    BY TokensAre DEF Text
  <2>2. /\ Len(x) = Len(lead) + Len(head) /\ Len(lead) \in Nat /\ Len(head) \in Nat
        /\ \A i \in 1..Len(x) : x[i] = IF i <= Len(lead) THEN lead[i] ELSE head[i - Len(lead)]
    BY <1>1, <2>1, ConcatProperties, LenProperties DEF LeadBy
  <2>3. ASSUME NEW i \in 1..Len(head) PROVE head[i] # Equals
    <3>1. PICK k : k = Len(lead) + i
      OBVIOUS
    <3>2. k \in 1..Len(x) /\ ~(k <= Len(lead)) /\ k - Len(lead) = i
      BY <2>2, <3>1
    <3>3. x[k] = head[i]
      BY <2>2, <3>2
    <3> QED
      BY <3>2, <3>3 DEF Lacks
  <2> QED
    BY <2>3 DEF Lacks
<1>6. s = lead \o w \o trail
  <2>1. lead \in Text /\ trail \in Text
    BY TokensAre
  <2>2. Shifts(lead, head, tail, trail)
    BY <2>1, ShiftPair
  <2> QED
    BY <1>0, <1>1, <1>2, <1>3, <2>2, Zenon DEF LeadBy, TrailBy, Shifts, Signed
<1>7. Inside(s, w)
  BY <1>4, <1>6, Zenon DEF Inside
<1>8. Around(w, head, Equals, tail)
  BY <1>3, <1>5 DEF Around
<1>9. ReadPair(store, s) = IF Trim(head) = <<>> THEN store ELSE With(store, Trim(head), Trim(tail))
  BY <1>4, <1>7, <1>8, NameAndValue
<1> QED
  BY <1>1, <1>2, <1>9, <1>0, Zenon DEF Put, LeadBy, TrailBy

-----------------------------------------------------------------------------
Pair == [name : Text, value : Text]

Styles == {"tidy", "spaced", "short"}

PlainName(name) == Lacks(name, Semicolon) /\ Lacks(name, Equals) /\ Lacks(name, Space)

PlainPair(p) == p \in Pair /\ PlainName(p.name) /\ Lacks(p.value, Semicolon) /\ Tight(p.value)

LEMMA SpacedSign == <<Space, Equals, Space>> = <<Space>> \o <<Equals>> \o <<Space>>
OBVIOUS

(* A pair with spaces around its sign. *)
LEMMA Spaced ==
    ASSUME NEW x \in Text, NEW y \in Text
    PROVE  x \o <<Space, Equals, Space>> \o y = Signed(x \o <<Space>>, <<Space>> \o y)
<1>1. PICK s, e \in Text : s = <<Space>> /\ e = <<Equals>>
  BY TokensAre
<1>2. PICK se \in Text : se = s \o e
  BY ConcatProperties DEF Text
<1>3. PICK ses \in Text : ses = se \o s
  BY ConcatProperties DEF Text
<1>4. PICK xs \in Text : xs = x \o s
  BY ConcatProperties DEF Text
<1>5. PICK xse \in Text : xse = xs \o e
  BY ConcatProperties DEF Text
<1>6. Grouped(x, s, e) /\ Grouped(x, se, s) /\ Grouped(xse, s, y)
  BY Grouping
<1>7. ses = <<Space, Equals, Space>>
  BY <1>1, <1>2, <1>3, SpacedSign, Zenon
<1>8. xse = x \o se
  BY <1>2, <1>4, <1>5, <1>6, Zenon DEF Grouped
<1>9. x \o ses = xse \o s
  BY <1>3, <1>6, <1>8, Zenon DEF Grouped
<1> QED
  BY <1>1, <1>4, <1>5, <1>6, <1>7, <1>9, Zenon DEF Grouped, Signed

LEMMA LedSign ==
    ASSUME NEW lead \in Text, NEW x \in Text, NEW y \in Text
    PROVE  lead \o Signed(x, y) = Signed(lead \o x, y)
<1>1. PICK e \in Text : e = <<Equals>>
  BY TokensAre
<1>2. PICK xe \in Text : xe = x \o e
  BY ConcatProperties DEF Text
<1>3. Grouped(lead, x, e) /\ Grouped(lead, xe, y)
  BY Grouping
<1> QED
  BY <1>1, <1>2, <1>3, Zenon DEF Grouped, Signed

LEMMA PlainNameTight == ASSUME NEW name \in Text, PlainName(name) PROVE Tight(name)
<1>1. name \in Seq(Token) /\ Len(name) \in Nat
  BY LenProperties DEF Text
<1>2. CASE name # <<>>
  BY <1>1, <1>2, EmptySeq DEF PlainName, Lacks, Tight
<1> QED
  BY <1>2 DEF Tight

(* What is said of a text holds of a text between spaces. *)
LEMMA InsideLead == ASSUME NEW a \in Spaces, NEW w \in Text, Tight(w) PROVE Inside(a \o w, w)
<1>1. a \o w = (a \o w) \o <<>>
  BY TokensAre, ConcatProperties, ConcatEmptySeq DEF Text
<1> QED
  BY <1>1, TokensAre, Zenon DEF Inside

LEMMA InsideBoth == ASSUME NEW a \in Spaces, NEW w \in Text, NEW b \in Spaces, Tight(w) PROVE Inside(a \o w \o b, w)
BY Zenon DEF Inside

LEMMA LacksLead ==
    ASSUME NEW token, NEW a \in Text, NEW b \in Text, Lacks(a, token), Lacks(b, token)
    PROVE  a \o b \in Text /\ Lacks(a \o b, token)
<1>1. a \in Seq(Token) /\ b \in Seq(Token)
  BY DEF Text
<1>2. PICK s : s = a \o b
  OBVIOUS
<1>3. /\ s \in Seq(Token) /\ Len(s) = Len(a) + Len(b) /\ Len(a) \in Nat /\ Len(b) \in Nat
      /\ \A i \in 1..Len(s) : s[i] = IF i <= Len(a) THEN a[i] ELSE b[i - Len(a)]
  BY <1>1, <1>2, ConcatProperties, LenProperties
<1>4. ASSUME NEW i \in 1..Len(s) PROVE s[i] # token
  <2>1. CASE i <= Len(a)
    BY <1>3, <2>1 DEF Lacks
  <2>2. CASE ~(i <= Len(a))
    BY <1>3, <2>2 DEF Lacks
  <2> QED
    BY <2>1, <2>2
<1> QED
  BY <1>2, <1>3, <1>4 DEF Lacks, Text

LEMMA LacksSpaces ==
    ASSUME NEW a \in Spaces
    PROVE  a \in Text /\ Lacks(a, Equals) /\ Lacks(a, Semicolon)
BY TokensAre, SignsDiffer, AllSpaces, Zenon DEF Lacks

-----------------------------------------------------------------------------
LEMMA SignedText ==
    ASSUME NEW x \in Text, NEW y \in Text, Lacks(x, Semicolon), Lacks(y, Semicolon)
    PROVE  Signed(x, y) \in Text /\ Lacks(Signed(x, y), Semicolon)
<1>1. PICK e \in Text : e = <<Equals>>
  BY TokensAre
<1>2. Lacks(e, Semicolon)
  BY <1>1, SignsDiffer DEF Lacks
<1>3. PICK xe \in Text : xe = x \o e /\ Lacks(xe, Semicolon)
  BY <1>2, LacksLead
<1>4. xe \o y \in Text /\ Lacks(xe \o y, Semicolon)
  BY <1>3, LacksLead
<1> QED
  BY <1>1, <1>3, <1>4, Zenon DEF Signed

LEMMA PlainParts ==
    ASSUME NEW p, PlainPair(p)
    PROVE  /\ p.name \in Text /\ p.value \in Text
           /\ Inside(p.name, p.name) /\ Inside(p.value, p.value)
<1>1. p.name \in Text /\ p.value \in Text /\ PlainName(p.name) /\ Tight(p.value)
  BY DEF PlainPair, Pair
<1>2. Tight(p.name)
  BY <1>1, PlainNameTight
<1>3. <<>> \o p.name = p.name /\ <<>> \o p.value = p.value
  BY <1>1, ConcatEmptySeq DEF Text
<1>4. <<>> \in Spaces
  BY TokensAre
<1>5. Inside(<<>> \o p.name, p.name) /\ Inside(<<>> \o p.value, p.value)
  BY <1>1, <1>2, <1>4, InsideLead
<1> QED
  BY <1>1, <1>3, <1>5, Zenon

(* The three ways to write a pair. *)
LEMMA PairWritten ==
    ASSUME NEW p, PlainPair(p)
    PROVE  /\ WritePair(p, "tidy") = Signed(p.name, p.value)
           /\ WritePair(p, "spaced") = Signed(p.name \o <<Space>>, <<Space>> \o p.value)
           /\ WritePair(p, "short") = IF p.value = <<>> THEN p.name ELSE Signed(p.name, p.value)
<1>1. WritePair(p, "tidy") = Signed(p.name, p.value)
  BY DEF WritePair, Signed
<1>2. WritePair(p, "spaced") = p.name \o <<Space, Equals, Space>> \o p.value
  BY DEF WritePair
<1>3. WritePair(p, "short") = IF p.value = <<>> THEN p.name ELSE Signed(p.name, p.value)
  BY DEF WritePair, Signed
<1>4. p.name \in Text /\ p.value \in Text
  BY PlainParts
<1> QED
  BY <1>1, <1>2, <1>3, <1>4, Spaced, Zenon

LEMMA WrittenText ==
    ASSUME NEW p, PlainPair(p), NEW style \in Styles
    PROVE  WritePair(p, style) \in Text /\ Lacks(WritePair(p, style), Semicolon)
<1>1. /\ p.name \in Text /\ p.value \in Text
      /\ Lacks(p.name, Semicolon) /\ Lacks(p.value, Semicolon)
  BY PlainParts DEF PlainPair, PlainName
<1>2. PICK sp \in Text : sp = <<Space>> /\ Lacks(sp, Semicolon)
  BY TokensAre, LacksSpaces
<1>3. /\ p.name \o sp \in Text /\ Lacks(p.name \o sp, Semicolon)
      /\ sp \o p.value \in Text /\ Lacks(sp \o p.value, Semicolon)
  BY <1>1, <1>2, LacksLead
<1>4. /\ Signed(p.name, p.value) \in Text /\ Lacks(Signed(p.name, p.value), Semicolon)
      /\ Signed(p.name \o sp, sp \o p.value) \in Text /\ Lacks(Signed(p.name \o sp, sp \o p.value), Semicolon)
  BY <1>1, <1>3, SignedText
<1>5. style = "tidy" \/ style = "spaced" \/ style = "short"
  BY DEF Styles
<1> QED
  BY <1>1, <1>2, <1>4, <1>5, PairWritten, Zenon

LEMMA SignedRead ==
    ASSUME NEW store, NEW x \in Text, NEW n \in Text, Inside(x, n), Lacks(x, Equals),
           NEW y \in Text, NEW v \in Text, Inside(y, v)
    PROVE  ReadPair(store, Signed(x, y)) = Put(store, n, v)
BY PairOf

(* A pair reads back, however it is written. *)
LEMMA PairRead ==
    ASSUME NEW store, NEW lead \in Spaces, NEW p, PlainPair(p), NEW style \in Styles
    PROVE  ReadPair(store, lead \o WritePair(p, style)) = Put(store, p.name, p.value)
<1>1. /\ p.name \in Text /\ p.value \in Text /\ Inside(p.value, p.value)
      /\ Tight(p.name) /\ Tight(p.value) /\ Lacks(p.name, Equals)
  BY PlainParts DEF PlainPair, PlainName, Inside
<1>2. lead \in Text /\ Lacks(lead, Equals)
  BY LacksSpaces
<1>3. PICK x \in Text : x = lead \o p.name /\ Lacks(x, Equals)
  BY <1>1, <1>2, LacksLead
<1>4. Inside(x, p.name)
  BY <1>1, <1>3, InsideLead
<1>5. ReadPair(store, lead \o Signed(p.name, p.value)) = Put(store, p.name, p.value)
  <2>1. lead \o Signed(p.name, p.value) = Signed(x, p.value)
    BY <1>1, <1>2, <1>3, LedSign
  <2> QED
    BY <1>1, <1>3, <1>4, <2>1, SignedRead
<1>6. CASE style = "tidy"
  BY <1>5, <1>6, PairWritten
<1>7. CASE style = "spaced"
  <2>1. PICK sp \in Spaces : sp = <<Space>> /\ sp \in Text /\ Lacks(sp, Equals)
    BY TokensAre, LacksSpaces
  <2>2. p.name \o sp \in Text /\ sp \o p.value \in Text
    BY <1>1, <2>1, ConcatProperties DEF Text
  <2>3. x \o sp \in Text /\ Lacks(x \o sp, Equals)
    BY <1>3, <2>1, LacksLead
  <2>4. Inside(x \o sp, p.name)
    BY <1>1, <1>3, <2>1, InsideBoth
  <2>5. Inside(sp \o p.value, p.value)
    BY <1>1, <2>1, InsideLead
  <2>6. ReadPair(store, Signed(x \o sp, sp \o p.value)) = Put(store, p.name, p.value)
    BY <1>1, <2>2, <2>3, <2>4, <2>5, SignedRead
  <2>7. lead \o Signed(p.name \o sp, sp \o p.value) = Signed(lead \o (p.name \o sp), sp \o p.value)
    BY <1>2, <2>2, LedSign
  <2>8. Grouped(lead, p.name, sp)
    BY <1>1, <1>2, <2>1, Grouping
  <2> QED
    BY <1>3, <1>7, <2>1, <2>6, <2>7, <2>8, PairWritten, Zenon DEF Grouped
<1>8. CASE style = "short"
  <2>1. CASE p.value = <<>>
    BY <1>1, <1>3, <1>4, <1>8, <2>1, BareName, PairWritten DEF Put
  <2>2. CASE p.value # <<>>
    BY <1>5, <1>8, <2>2, PairWritten
  <2> QED
    BY <2>1, <2>2
<1> QED
  BY <1>6, <1>7, <1>8, Zenon DEF Styles

-----------------------------------------------------------------------------
(* One more pair on a line. *)
LEMMA NextRead ==
    ASSUME NEW line \in Text, NEW lead \in Spaces, NEW p, PlainPair(p), NEW style \in Styles
    PROVE  ReadCookies(line \o <<Semicolon>> \o (lead \o WritePair(p, style))) =
               Put(ReadCookies(line), p.name, p.value)
<1>1. lead \in Text /\ Lacks(lead, Semicolon)
  BY LacksSpaces
<1>2. WritePair(p, style) \in Text /\ Lacks(WritePair(p, style), Semicolon)
  BY WrittenText
<1>3. PICK w \in Text : w = lead \o WritePair(p, style) /\ Lacks(w, Semicolon)
  BY <1>1, <1>2, LacksLead
<1>4. ReadCookies(line \o <<Semicolon>> \o w) = ReadPair(ReadCookies(line), w)
  BY <1>3, NextCookie
<1> QED
  BY <1>3, <1>4, PairRead, Zenon

LEMMA FirstRead ==
    ASSUME NEW p, PlainPair(p), NEW style \in Styles
    PROVE  ReadCookies(WritePair(p, style)) = Put(NoCookies, p.name, p.value)
<1>1. WritePair(p, style) \in Text /\ Lacks(WritePair(p, style), Semicolon)
  BY WrittenText
<1>2. ReadCookies(WritePair(p, style)) = ReadPair(NoCookies, WritePair(p, style))
  BY <1>1, FirstCookie
<1>3. <<>> \o WritePair(p, style) = WritePair(p, style)
  BY <1>1, ConcatEmptySeq DEF Text
<1>4. ReadPair(NoCookies, <<>> \o WritePair(p, style)) = Put(NoCookies, p.name, p.value)
  BY TokensAre, PairRead
<1> QED
  BY <1>2, <1>3, <1>4, Zenon

LEMMA SemicolonSpace == <<Semicolon, Space>> = <<Semicolon>> \o <<Space>>
OBVIOUS

LEMMA SpaceSemicolonSpace == <<Space, Semicolon, Space>> = <<Space>> \o <<Semicolon>> \o <<Space>>
OBVIOUS

LEMMA Betweens ==
    /\ Between("tidy") = <<Semicolon>> \o <<Space>>
    /\ Between("spaced") = <<Space>> \o <<Semicolon>> \o <<Space>>
    /\ Between("short") = <<Semicolon>>
    /\ \A style \in Styles : Between(style) \in Text
<1>1. Between("tidy") = <<Semicolon, Space>>
  BY DEF Between
<1>2. Between("spaced") = <<Space, Semicolon, Space>>
  BY DEF Between
<1>3. Between("short") = <<Semicolon>>
  BY DEF Between
<1>4. <<Semicolon, Space>> \in Text /\ <<Space, Semicolon, Space>> \in Text /\ <<Semicolon>> \in Text
  BY TokensAre DEF Text
<1>5. \A style \in Styles : Between(style) \in Text
  BY <1>1, <1>2, <1>3, <1>4, Zenon DEF Styles
<1> QED
  BY <1>1, <1>2, <1>3, <1>5, SemicolonSpace, SpaceSemicolonSpace

LEMMA LineRead ==
    ASSUME NEW line \in Text, NEW p, PlainPair(p), NEW style \in Styles
    PROVE  ReadCookies(line \o (Between(style) \o WritePair(p, style))) =
               Put(ReadCookies(line), p.name, p.value)
<1>1. PICK w \in Text : w = WritePair(p, style)
  BY WrittenText
<1>2. PICK semi \in Text : semi = <<Semicolon>>
  BY TokensAre
<1>3. PICK sp \in Text : sp = <<Space>> /\ sp \in Spaces
  BY TokensAre
<1>4. \A l \in Text, a \in Spaces : ReadCookies(l \o semi \o (a \o w)) = Put(ReadCookies(l), p.name, p.value)
  BY <1>1, <1>2, NextRead
<1>5. CASE style = "short"
  <2>1. <<>> \o w = w /\ <<>> \in Spaces
    BY TokensAre, ConcatEmptySeq DEF Text
  <2>2. ReadCookies(line \o semi \o (<<>> \o w)) = Put(ReadCookies(line), p.name, p.value)
    BY <1>4, <2>1
  <2>3. Grouped(line, semi, w)
    BY Grouping
  <2> QED
    BY <1>1, <1>2, <1>5, <2>1, <2>2, <2>3, Betweens, Zenon DEF Grouped
<1>6. CASE style = "tidy"
  <2>1. sp \o w \in Text
    BY ConcatProperties DEF Text
  <2>2. Grouped(semi, sp, w) /\ Grouped(line, semi, sp \o w)
    BY <2>1, Grouping
  <2>3. ReadCookies(line \o semi \o (sp \o w)) = Put(ReadCookies(line), p.name, p.value)
    BY <1>3, <1>4
  <2> QED
    BY <1>1, <1>2, <1>3, <1>6, <2>2, <2>3, Betweens, Zenon DEF Grouped
<1>7. CASE style = "spaced"
  <2>1. PICK sw \in Text : sw = sp \o w
    BY ConcatProperties DEF Text
  <2>2. PICK ss \in Text : ss = sp \o semi
    BY ConcatProperties DEF Text
  <2>3. PICK l \in Text : l = line \o sp /\ ReadCookies(l) = ReadCookies(line)
    BY <1>3, CookieSpace
  <2>4. /\ Grouped(ss, sp, w) /\ Grouped(line, ss, sw)
        /\ Grouped(line, sp, semi)
    BY Grouping
  <2>5. ReadCookies(l \o semi \o (sp \o w)) = Put(ReadCookies(l), p.name, p.value)
    BY <1>3, <1>4
  <2>6. line \o (Between(style) \o w) = l \o semi \o sw
    BY <1>2, <1>3, <1>7, <2>1, <2>2, <2>3, <2>4, Betweens, Zenon DEF Grouped
  <2> QED
    BY <1>1, <2>1, <2>3, <2>5, <2>6, Zenon
<1> QED
  BY <1>5, <1>6, <1>7, Zenon DEF Styles

-----------------------------------------------------------------------------
(* A line of pairs, pair by pair. *)
Lead(pairs, style) == IF pairs = <<>> THEN <<>> ELSE Between(style)

LEMMA LineAppend ==
    ASSUME NEW pairs \in Seq(Pair), \A i \in 1..Len(pairs) : PlainPair(pairs[i]),
           NEW p, PlainPair(p), NEW style \in Styles
    PROVE  /\ WriteJar(<<>>, style) = <<>> /\ WriteJar(pairs, style) \in Text
           /\ WriteJar(Append(pairs, p), style) =
                  WriteJar(pairs, style) \o (Lead(pairs, style) \o WritePair(p, style))
<1> DEFINE piece(q, i) == (IF i = 1 THEN <<>> ELSE Between(style)) \o WritePair(q[i], style)
           pieces(q) == [i \in DOMAIN q |-> piece(q, i)]
<1>1. Len(pairs) \in Nat /\ DOMAIN pairs = 1..Len(pairs)
  BY LenProperties
<1>2. PICK more : more = Append(pairs, p)
  OBVIOUS
<1>3. p \in Pair
  BY DEF PlainPair
<1>4. /\ more \in Seq(Pair) /\ Len(more) = Len(pairs) + 1 /\ DOMAIN more = 1..(Len(pairs) + 1)
      /\ \A i \in 1..Len(pairs) : more[i] = pairs[i]
      /\ more[Len(pairs) + 1] = p
  BY <1>1, <1>2, <1>3, AppendProperties, LenProperties
<1>5. ASSUME NEW i \in 1..Len(pairs) PROVE piece(pairs, i) \in Text
  BY WrittenText, Betweens, TokensAre, ConcatProperties DEF Text
<1>6. pieces(pairs) \in Seq(Text) /\ Len(pieces(pairs)) = Len(pairs)
  <2>1. pieces(pairs) \in [1..Len(pairs) -> Text]
    BY <1>1, <1>5
  <2> HIDE DEF pieces
  <2> QED
    BY <1>1, <2>1, SeqDef, LenProperties
<1>7. pieces(more) = Append(pieces(pairs), Lead(pairs, style) \o WritePair(p, style))
  <2>1. Lead(pairs, style) = IF Len(pairs) = 0 THEN <<>> ELSE Between(style)
    BY EmptySeq DEF Lead
  <2>2. piece(more, Len(pairs) + 1) = Lead(pairs, style) \o WritePair(p, style)
    <3>1. Len(pairs) + 1 = 1 <=> Len(pairs) = 0
      BY <1>1
    <3> QED
      BY <1>4, <2>1, <3>1, Zenon
  <2>3. ASSUME NEW i \in 1..Len(pairs) PROVE piece(more, i) = piece(pairs, i)
    BY <1>4
  <2>4. PICK new \in Text : new = Lead(pairs, style) \o WritePair(p, style)
    BY Betweens, TokensAre, WrittenText, ConcatProperties DEF Lead, Text
  <2>5. PICK q \in Seq(Text) : q = pieces(pairs) /\ Len(q) = Len(pairs)
    BY <1>6
  <2>6. /\ Append(q, new) \in Seq(Text) /\ Len(Append(q, new)) = Len(pairs) + 1
        /\ \A i \in 1..Len(pairs) : Append(q, new)[i] = q[i]
        /\ Append(q, new)[Len(pairs) + 1] = new
    <3>1. /\ Append(q, new) \in Seq(Text) /\ Len(Append(q, new)) = Len(q) + 1
          /\ \A i \in 1..Len(q) : Append(q, new)[i] = q[i]
          /\ Append(q, new)[Len(q) + 1] = new
      BY AppendProperties
    <3> QED
      BY <2>5, <3>1
  <2>7. \A i \in 1..Len(pairs) : q[i] = piece(pairs, i)
    BY <1>1, <2>5
  <2>8. \A i \in 1..(Len(pairs) + 1) : pieces(more)[i] = piece(more, i)
    BY <1>4
  <2>9. pieces(more) = [i \in 1..(Len(pairs) + 1) |-> pieces(more)[i]]
    BY <1>4
  <2> HIDE DEF piece, pieces
  <2>10. \A i \in 1..(Len(pairs) + 1) : pieces(more)[i] = Append(q, new)[i]
    <3> SUFFICES ASSUME NEW i \in 1..(Len(pairs) + 1) PROVE pieces(more)[i] = Append(q, new)[i]
      OBVIOUS
    <3>1. CASE i \in 1..Len(pairs)
      BY <2>3, <2>6, <2>7, <2>8, <3>1
    <3>2. CASE i = Len(pairs) + 1
      BY <2>2, <2>4, <2>6, <2>8, <3>2
    <3>3. i \in 1..Len(pairs) \/ i = Len(pairs) + 1
      BY <1>1
    <3> QED
      BY <3>1, <3>2, <3>3, Zenon
  <2>11. Append(q, new) = [i \in 1..(Len(pairs) + 1) |-> Append(q, new)[i]]
    BY <2>6, LenProperties
  <2>12. pieces(more) = Append(q, new)
    BY <2>9, <2>10, <2>11
  <2> QED
    BY <2>4, <2>5, <2>12
<1>8. pieces(<<>>) = <<>>
  OBVIOUS
<1>9. /\ WriteJar(more, style) = FlattenSeq(pieces(more))
      /\ WriteJar(pairs, style) = FlattenSeq(pieces(pairs))
      /\ WriteJar(<<>>, style) = FlattenSeq(pieces(<<>>))
  BY Zenon DEF WriteJar
<1> HIDE DEF pieces, piece
<1>10. PICK new \in Text : new = Lead(pairs, style) \o WritePair(p, style)
  BY Betweens, TokensAre, WrittenText, ConcatProperties DEF Lead, Text
<1>11. PICK q \in Seq(Text) : q = pieces(pairs)
  BY <1>6
<1>12. /\ FlattenSeq(<<>>) = <<>> /\ FlattenSeq(q) \in Text
       /\ FlattenSeq(Append(q, new)) = FlattenSeq(q) \o new
  BY FlattenAppend DEF Text
<1> QED
  BY <1>2, <1>7, <1>8, <1>9, <1>10, <1>11, <1>12, Zenon

-----------------------------------------------------------------------------
(* The last of the places of a sequence where something holds. *)
LEMMA LastPlace ==
    ASSUME NEW n \in Nat, NEW S \in SUBSET (1..n), S # {}
    PROVE  Max(S) \in S
<1> DEFINE below == {k \in Nat : n - k \in S}
<1>1. PICK k \in below : \A j \in below : ~(j < k)
  <2>1. PICK x \in S : TRUE
    OBVIOUS
  <2>2. n - x \in Nat /\ n - (n - x) = x
    BY <2>1
  <2>3. n - x \in below
    BY <2>1, <2>2
  <2>4. below \in SUBSET Nat /\ below # {}
    BY <2>3
  <2> HIDE DEF below
  <2>5. PICK k \in below : \A j \in below : <<j, k>> \notin OpToRel(<, Nat)
    BY <2>4, NatLessThanWellFounded, WFMin
  <2>6. ASSUME NEW j \in below PROVE ~(j < k)
    BY <2>4, <2>5 DEF OpToRel
  <2> QED
    BY <2>5, <2>6
<1>2. n - k \in S /\ k \in Nat
  BY <1>1
<1>3. ASSUME NEW x \in S PROVE n - k >= x
  <2>1. x \in 1..n
    OBVIOUS
  <2>2. n - x \in Nat /\ n - (n - x) = x
    BY <2>1
  <2>3. n - x \in below
    BY <2>2
  <2>4. ~(n - x < k)
    BY <1>1, <2>3
  <2> QED
    BY <1>2, <2>1, <2>4
<1>4. S \in SUBSET Int
  OBVIOUS
<1>5. Max(S) = n - k
  BY <1>2, <1>3, <1>4, MostIs
<1> QED
  BY <1>2, <1>5

(* The cookies of a jar, pair by pair. *)
LEMMA JarReadAppend ==
    ASSUME NEW pairs \in Seq(Pair), NEW p \in Pair
    PROVE  /\ JarRead(<<>>) = NoCookies
           /\ JarRead(Append(pairs, p)) = Put(JarRead(pairs), p.name, p.value)
<1> DEFINE places(q, name) == {i \in DOMAIN q : q[i].name = name}
           names(q) == {q[i].name : i \in DOMAIN q} \ {<<>>}
           value(q, name) == q[Max(places(q, name))].value
<1>1. \A q : JarRead(q) = [name \in names(q) |-> value(q, name)]
  BY Zenon DEF JarRead
<1>2. JarRead(<<>>) = NoCookies
  <2>1. names(<<>>) = {}
    OBVIOUS
  <2>2. NoCookies = [name \in {} |-> value(<<>>, name)]
    BY DEF NoCookies
  <2> QED
    BY <1>1, <2>1, <2>2, Zenon
<1>3. PICK n \in Nat : n = Len(pairs)
  BY LenProperties
<1>4. PICK more : more = Append(pairs, p)
  OBVIOUS
<1>5. /\ DOMAIN pairs = 1..n /\ DOMAIN more = 1..(n + 1)
      /\ \A i \in 1..n : more[i] = pairs[i]
      /\ more[n + 1] = p
  BY <1>3, <1>4, AppendProperties, LenProperties
<1>6. ASSUME NEW name, name # p.name
      PROVE  places(more, name) = places(pairs, name)
  BY <1>5, <1>6
<1>7. Max(places(more, p.name)) = n + 1
  <2>1. n + 1 \in places(more, p.name)
    BY <1>5
  <2>2. places(more, p.name) \in SUBSET Int /\ \A i \in places(more, p.name) : n + 1 >= i
    BY <1>5
  <2> HIDE DEF places
  <2> QED
    BY <2>1, <2>2, MostIs
<1>8. names(more) = IF p.name = <<>> THEN names(pairs) ELSE names(pairs) \cup {p.name}
  BY <1>5
<1>9. ASSUME NEW name \in names(pairs), name # p.name
      PROVE  value(more, name) = value(pairs, name)
  <2>1. PICK S : S = places(pairs, name)
    OBVIOUS
  <2>2. S \in SUBSET (1..n) /\ S # {}
    BY <1>5, <2>1
  <2>3. Max(S) \in 1..n
    BY <2>2, LastPlace
  <2>4. value(more, name) = more[Max(S)].value /\ value(pairs, name) = pairs[Max(S)].value
    BY <1>6, <1>9, <2>1, Zenon
  <2> QED
    BY <1>5, <2>3, <2>4
<1>10. value(more, p.name) = p.value
  BY <1>5, <1>7, Zenon
<1>11. JarRead(more) = [name \in names(more) |-> value(more, name)] /\ JarRead(pairs) = [name \in names(pairs) |-> value(pairs, name)]
  BY <1>1
<1> HIDE DEF places, names, value
<1>12. CASE p.name = <<>>
  <2>1. names(more) = names(pairs)
    BY <1>8, <1>12
  <2>2. \A name \in names(pairs) : name # p.name
    BY <1>12 DEF names
  <2>3. \A name \in names(pairs) : value(more, name) = value(pairs, name)
    BY <1>9, <2>2
  <2>4. JarRead(more) = JarRead(pairs)
    BY <1>11, <2>1, <2>3
  <2> QED
    BY <1>2, <1>4, <1>12, <2>4, Zenon DEF Put
<1>13. CASE p.name # <<>>
  <2>1. names(more) = names(pairs) \cup {p.name}
    BY <1>8, <1>13
  <2>2. DOMAIN JarRead(pairs) = names(pairs)
    BY <1>11
  <2>3. With(JarRead(pairs), p.name, p.value) =
            [name \in names(pairs) \cup {p.name} |-> IF name = p.name THEN p.value ELSE JarRead(pairs)[name]]
    BY <2>2, Zenon DEF With
  <2>4. \A name \in names(pairs) \cup {p.name} :
            value(more, name) = IF name = p.name THEN p.value ELSE JarRead(pairs)[name]
    BY <1>9, <1>10, <1>11
  <2>5. JarRead(more) = With(JarRead(pairs), p.name, p.value)
    BY <1>11, <2>1, <2>3, <2>4
  <2> QED
    BY <1>2, <1>4, <1>13, <2>5, Zenon DEF Put
<1> QED
  BY <1>12, <1>13

(* A line reads back. *)
Plain(pairs) == \A i \in 1..Len(pairs) : PlainPair(pairs[i])

LEMMA PlainAppend ==
    ASSUME NEW pairs \in Seq(Pair), NEW p \in Pair
    PROVE  Plain(Append(pairs, p)) <=> Plain(pairs) /\ PlainPair(p)
<1>1. PICK n \in Nat : n = Len(pairs)
  BY LenProperties
<1>2. PICK more : more = Append(pairs, p)
  OBVIOUS
<1>3. Len(more) = n + 1 /\ (\A i \in 1..n : more[i] = pairs[i]) /\ more[n + 1] = p
  BY <1>1, <1>2, AppendProperties
<1>4. (\A i \in 1..(n + 1) : i \in 1..n \/ i = n + 1) /\ (\A i \in 1..n : i \in 1..(n + 1)) /\ n + 1 \in 1..(n + 1)
  OBVIOUS
<1> QED
  BY <1>1, <1>2, <1>3, <1>4 DEF Plain

LEMMA JarReadsBack ==
    ASSUME NEW style \in Styles
    PROVE  \A pairs \in Seq(Pair) : Plain(pairs) =>
               WriteJar(pairs, style) \in Text /\ ReadCookies(WriteJar(pairs, style)) = JarRead(pairs)
<1> DEFINE good == {q \in Seq(Pair) : Plain(q) =>
               WriteJar(q, style) \in Text /\ ReadCookies(WriteJar(q, style)) = JarRead(q)}
<1>1. PICK any \in Pair : PlainPair(any)
  <2>1. PICK a : a = [name |-> <<>>, value |-> <<>>]
    OBVIOUS
  <2>2. a \in Pair /\ a.name = <<>> /\ a.value = <<>>
    BY <2>1, TokensAre DEF Pair
  <2>3. PlainPair(a)
    BY <2>2, EmptySeq DEF PlainPair, PlainName, Lacks, Tight
  <2> QED
    BY <2>2, <2>3
<1>2. <<>> \in Seq(Pair) /\ Len(<<>>) = 0
  BY EmptySeq
<1>3. <<>> \in good
  <2>1. \A i \in 1..Len(<<>>) : PlainPair(<<>>[i])
    BY <1>2
  <2>2. WriteJar(<<>>, style) = <<>>
    BY <1>1, <1>2, <2>1, LineAppend
  <2>3. JarRead(<<>>) = NoCookies
    BY <1>1, <1>2, JarReadAppend
  <2>4. ReadCookies(<<>>) = NoCookies
    <3>1. ReadCookies(<<>>) = ReadPair(NoCookies, <<>>)
      BY TokensAre, EmptySeq, FirstCookie DEF Lacks
    <3>2. Inside(<<>>, <<>>) /\ Lacks(<<>>, Equals) /\ <<>> \in Text
      <4>1. <<>> \o <<>> = <<>> /\ Tight(<<>>) /\ <<>> \in Spaces
        BY TokensAre DEF Tight
      <4>2. <<>> = <<>> \o <<>> \o <<>>
        OBVIOUS
      <4>3. \A i \in 1..Len(<<>>) : FALSE
        BY EmptySeq
      <4>4. Inside(<<>>, <<>>)
        BY <4>1, <4>2, Zenon DEF Inside
      <4>5. Lacks(<<>>, Equals)
        BY <4>3, Zenon DEF Lacks
      <4> QED
        BY <4>4, <4>5, TokensAre
    <3>3. ReadPair(NoCookies, <<>>) = NoCookies
      BY <3>2, BareName
    <3> QED
      BY <3>1, <3>3
  <2> QED
    BY <1>2, <2>2, <2>3, <2>4, TokensAre
<1>4. ASSUME NEW q \in Seq(Pair), NEW p \in Pair, q \in good
      PROVE  Append(q, p) \in good
  <2>1. Append(q, p) \in Seq(Pair)
    BY AppendProperties
  <2> SUFFICES ASSUME Plain(Append(q, p))
               PROVE  /\ WriteJar(Append(q, p), style) \in Text
                      /\ ReadCookies(WriteJar(Append(q, p), style)) = JarRead(Append(q, p))
    BY <2>1
  <2>2. Plain(q) /\ PlainPair(p)
    BY PlainAppend
  <2>3. PICK line \in Text : line = WriteJar(q, style) /\ ReadCookies(line) = JarRead(q)
    BY <1>4, <2>2
  <2>4. PICK w \in Text : w = WritePair(p, style)
    BY <2>2, WrittenText
  <2>5. WriteJar(Append(q, p), style) = line \o (Lead(q, style) \o w)
    BY <2>2, <2>3, <2>4, LineAppend DEF Plain
  <2>6. JarRead(Append(q, p)) = Put(JarRead(q), p.name, p.value)
    BY JarReadAppend
  <2>7. CASE q = <<>>
    <3>1. line = <<>> /\ Lead(q, style) = <<>>
      BY <2>2, <2>3, <2>7, LineAppend DEF Plain, Lead
    <3>2. <<>> \o w = w
      BY ConcatEmptySeq DEF Text
    <3>3. WriteJar(Append(q, p), style) = w
      BY <2>5, <3>1, <3>2, Zenon
    <3>4. ReadCookies(w) = Put(NoCookies, p.name, p.value)
      BY <2>2, <2>4, FirstRead
    <3>5. JarRead(q) = NoCookies
      BY <2>7, JarReadAppend
    <3> QED
      BY <2>6, <3>3, <3>4, <3>5
  <2>8. CASE q # <<>>
    <3>1. Lead(q, style) = Between(style)
      BY <2>8 DEF Lead
    <3>2. ReadCookies(line \o (Between(style) \o w)) = Put(ReadCookies(line), p.name, p.value)
      BY <2>2, <2>4, LineRead
    <3>3. line \o (Between(style) \o w) \in Text
      BY Betweens, ConcatProperties DEF Text
    <3> QED
      BY <2>3, <2>5, <2>6, <3>1, <3>2, <3>3, Zenon
  <2> QED
    BY <2>7, <2>8
<1>5. \A q \in Seq(Pair) : q \in good
  <2> HIDE DEF good
  <2> QED
    BY <1>3, <1>4, SeqInduction
<1> QED
  BY <1>5

-----------------------------------------------------------------------------
(* A "cookie" field in two lines. *)
Joint == <<Comma, Space>>

Merged(a, b) == [a EXCEPT !.value = a.value \o Joint \o WritePair(b, "tidy")]

LEMMA JointText == Joint \in Text /\ Joint \in Seq(Token) /\ Len(Joint) = 2 /\ Joint[1] = Comma /\ Lacks(Joint, Semicolon)
<1>1. Joint \in Seq(Token) /\ Len(Joint) = 2 /\ Joint[1] = Comma /\ Joint[2] = Space
  BY TokensAre DEF Joint
<1>2. Lacks(Joint, Semicolon)
  BY <1>1, SignsDiffer DEF Lacks
<1> QED
  BY <1>1, <1>2 DEF Text

LEMMA SignedTight ==
    ASSUME NEW p, PlainPair(p)
    PROVE  Signed(p.name, p.value) # <<>> /\ Tight(Signed(p.name, p.value))
<1>1. p.name \in Text /\ p.value \in Text /\ Tight(p.name) /\ Tight(p.value)
  BY PlainParts DEF Inside
<1>2. PICK w : w = p.name \o <<Equals>> \o p.value
  OBVIOUS
<1>3. w \in Text /\ Tight(w)
  BY <1>1, <1>2, TightPair DEF Tight
<1>4. w # <<>>
  <2>1. p.name \in Seq(Token) /\ p.value \in Seq(Token) /\ <<Equals>> \in Seq(Token) /\ Len(<<Equals>>) = 1
    BY <1>1, TokensAre DEF Text
  <2>2. PICK e \in Seq(Token) : e = <<Equals>> /\ Len(e) = 1
    BY <2>1
  <2>3. w = p.name \o e \o p.value
    BY <1>2, <2>2
  <2>4. Len(w) = Len(p.name) + Len(e) + Len(p.value) /\ Len(p.name) \in Nat /\ Len(p.value) \in Nat
    BY <2>1, <2>3, ThreeParts
  <2>5. Len(w) # 0
    <3>1. PICK l \in Nat, m \in Nat : l = Len(p.name) /\ m = Len(p.value)
      BY <2>4
    <3>2. Len(w) = l + 1 + m
      BY <2>2, <2>4, <3>1
    <3> QED
      BY <3>2
  <2> QED
    BY <2>5, EmptySeq
<1> QED
  BY <1>2, <1>3, <1>4, Zenon DEF Signed

LEMMA JointTight ==
    ASSUME NEW x \in Text, Tight(x), NEW y \in Text, Tight(y), y # <<>>
    PROVE  Tight(x \o Joint \o y)
<1>1. PICK w : w = x \o Joint \o y
  OBVIOUS
<1>2. PICK j \in Seq(Token) : j = Joint /\ Len(j) = 2 /\ j[1] = Comma
  BY JointText
<1>3. x \in Seq(Token) /\ y \in Seq(Token) /\ w = x \o j \o y
  BY <1>1, <1>2 DEF Text
<1>4. /\ Len(w) = Len(x) + Len(j) + Len(y) /\ Len(x) \in Nat /\ Len(y) \in Nat
      /\ (\A i \in 1..Len(x) : w[i] = x[i])
      /\ (\A i \in 1..Len(j) : w[Len(x) + i] = j[i])
      /\ (\A i \in 1..Len(y) : w[Len(x) + Len(j) + i] = y[i])
  BY <1>3, ThreeParts
<1>5. w[1] # Space
  <2>1. CASE x = <<>>
    BY <1>2, <1>4, <2>1, EmptySeq, SignsDiffer
  <2>2. CASE x # <<>>
    BY <1>3, <1>4, <2>2, EmptySeq DEF Tight
  <2> QED
    BY <2>1, <2>2
<1>6. w[Len(w)] # Space
  <2>1. Len(y) # 0
    BY <1>3, EmptySeq
  <2>2. Len(y) \in 1..Len(y)
    BY <1>4, <2>1
  <2>3. w[Len(x) + Len(j) + Len(y)] = y[Len(y)]
    BY <1>4, <2>2
  <2>4. w[Len(w)] = y[Len(y)]
    BY <1>4, <2>3, Zenon
  <2> QED
    BY <2>4 DEF Tight
<1> QED
  BY <1>1, <1>5, <1>6 DEF Tight

LEMMA MergedPlain ==
    ASSUME NEW a, PlainPair(a), NEW b, PlainPair(b)
    PROVE  PlainPair(Merged(a, b)) /\ Merged(a, b).name = a.name
           /\ Merged(a, b).value = a.value \o Joint \o Signed(b.name, b.value)
<1>1. PICK w \in Text : w = Signed(b.name, b.value) /\ w # <<>> /\ Tight(w) /\ Lacks(w, Semicolon)
  BY PairWritten, WrittenText, SignedTight DEF Styles
<1>2. a.value \in Text /\ Tight(a.value) /\ Lacks(a.value, Semicolon) /\ a \in Pair
  BY PlainParts DEF PlainPair
<1>3. PICK vj \in Text : vj = a.value \o Joint /\ Lacks(vj, Semicolon)
  BY <1>2, JointText, LacksLead
<1>4. PICK v \in Text : v = vj \o w /\ Lacks(v, Semicolon)
  BY <1>1, <1>3, LacksLead
<1>5. Tight(a.value \o Joint \o w)
  BY <1>1, <1>2, JointTight
<1>6. Tight(v)
  BY <1>3, <1>4, <1>5, Zenon
<1>7. Merged(a, b) = [a EXCEPT !.value = v]
  BY <1>1, <1>3, <1>4, PairWritten DEF Merged
<1>8. Merged(a, b) \in Pair /\ Merged(a, b).name = a.name /\ Merged(a, b).value = v
  BY <1>2, <1>7 DEF Pair
<1>9. PlainPair(Merged(a, b))
  BY <1>4, <1>6, <1>8, Zenon DEF PlainPair
<1> QED
  BY <1>1, <1>3, <1>4, <1>8, <1>9, Zenon

LEMMA MergedWritten ==
    ASSUME NEW a, PlainPair(a), NEW b, PlainPair(b)
    PROVE  WritePair(Merged(a, b), "tidy") = WritePair(a, "tidy") \o (Joint \o WritePair(b, "tidy"))
<1>1. PICK j \in Text : j = Joint
  BY JointText
<1>2. PICK w \in Text : w = WritePair(b, "tidy") /\ w = Signed(b.name, b.value)
  BY WrittenText, PairWritten DEF Styles
<1>3. PICK v \in Text : v = a.value
  BY PlainParts
<1>4. PICK ne \in Text : ne = a.name \o <<Equals>>
  BY PlainParts, TokensAre, ConcatProperties DEF Text
<1>5. WritePair(a, "tidy") = ne \o v
  BY <1>3, <1>4, PairWritten, Zenon DEF Signed
<1>6. WritePair(Merged(a, b), "tidy") = ne \o ((v \o j) \o w)
  BY <1>1, <1>2, <1>3, <1>4, MergedPlain, PairWritten DEF Signed
<1>7. j \o w \in Text
  BY ConcatProperties DEF Text
<1>8. Grouped(v, j, w) /\ Grouped(ne, v, j \o w)
  BY <1>7, Grouping
<1> QED
  BY <1>1, <1>2, <1>5, <1>6, <1>8, Zenon DEF Grouped

-----------------------------------------------------------------------------
FieldOf(pairs, k) ==
    WriteJar(SubSeq(pairs, 1, k), "tidy") \o Joint \o WriteJar(SubSeq(pairs, k + 1, Len(pairs)), "tidy")

FusedPairs(pairs, k) ==
    [i \in 1..(Len(pairs) - 1) |->
        IF i = k THEN Merged(pairs[k], pairs[k + 1]) ELSE pairs[IF i < k THEN i ELSE i + 1]]

FieldFuses(pairs, k) ==
    /\ FusedPairs(pairs, k) \in Seq(Pair)
    /\ Plain(FusedPairs(pairs, k))
    /\ FieldOf(pairs, k) = WriteJar(FusedPairs(pairs, k), "tidy")

LEMMA LineText ==
    ASSUME NEW pairs \in Seq(Pair), Plain(pairs), NEW style \in Styles
    PROVE  WriteJar(pairs, style) \in Text
BY JarReadsBack

LEMMA LineGrows ==
    ASSUME NEW pairs \in Seq(Pair), Plain(pairs), NEW p, PlainPair(p)
    PROVE  WriteJar(Append(pairs, p), "tidy") =
               WriteJar(pairs, "tidy") \o (Lead(pairs, "tidy") \o WritePair(p, "tidy"))
<1>1. "tidy" \in Styles
  BY DEF Styles
<1> QED
  BY <1>1, LineAppend DEF Plain

(* A part of a sequence and the item behind it. *)
LEMMA LastPart ==
    ASSUME NEW T, NEW s \in Seq(T), NEW x \in T, NEW k \in 1..Len(s)
    PROVE  /\ SubSeq(Append(s, x), k + 1, Len(s) + 1) = Append(SubSeq(s, k + 1, Len(s)), x)
           /\ SubSeq(Append(s, x), 1, k) = SubSeq(s, 1, k)
           /\ SubSeq(s, k + 1, Len(s)) \in Seq(T)
           /\ SubSeq(s, 1, k) \in Seq(T)
<1>1. PICK n \in Nat : n = Len(s)
  BY LenProperties
<1>2. PICK more : more = Append(s, x)
  OBVIOUS
<1>3. more \in Seq(T) /\ Len(more) = n + 1 /\ (\A i \in 1..n : more[i] = s[i]) /\ more[n + 1] = x
  BY <1>1, <1>2, AppendProperties
<1>4. (\A i \in 1..n : s[i] \in T) /\ (\A i \in 1..(n + 1) : more[i] \in T)
  BY <1>1, <1>3, ElementOfSeq
<1>5. k \in 1..n /\ k + 1 \in Int /\ n \in Int /\ n + 1 \in Int /\ k + 1 <= n + 1
  BY <1>1
<1>6. PICK a \in Seq(T) : a = SubSeq(s, 1, k) /\ Len(a) = k /\ \A i \in 1..k : a[i] = s[i]
  <2>1. \A i \in 1..k : s[i] \in T
    BY <1>4, <1>5
  <2>2. /\ SubSeq(s, 1, k) \in Seq(T) /\ Len(SubSeq(s, 1, k)) = IF 1 <= k THEN k - 1 + 1 ELSE 0
        /\ \A i \in 1..(k - 1 + 1) : SubSeq(s, 1, k)[i] = s[1 + i - 1]
    BY <1>5, <2>1, SubSeqProperties
  <2>3. k - 1 + 1 = k /\ 1 <= k /\ \A i \in 1..k : 1 + i - 1 = i
    BY <1>5
  <2> QED
    BY <2>2, <2>3
<1>7. PICK b \in Seq(T) : b = SubSeq(more, 1, k) /\ Len(b) = k /\ \A i \in 1..k : b[i] = more[i]
  <2>1. \A i \in 1..k : more[i] \in T
    BY <1>4, <1>5
  <2>2. /\ SubSeq(more, 1, k) \in Seq(T) /\ Len(SubSeq(more, 1, k)) = IF 1 <= k THEN k - 1 + 1 ELSE 0
        /\ \A i \in 1..(k - 1 + 1) : SubSeq(more, 1, k)[i] = more[1 + i - 1]
    BY <1>5, <2>1, SubSeqProperties
  <2>3. k - 1 + 1 = k /\ 1 <= k /\ \A i \in 1..k : 1 + i - 1 = i
    BY <1>5
  <2> QED
    BY <2>2, <2>3
<1>8. a = b
  BY <1>3, <1>5, <1>6, <1>7, SeqEqual
<1>9. PICK m \in Nat : m = n - k
  BY <1>5
<1>10. PICK c \in Seq(T) : c = SubSeq(s, k + 1, n) /\ Len(c) = m /\ \A i \in 1..m : c[i] = s[k + i]
  <2>1. \A i \in (k + 1)..n : s[i] \in T
    BY <1>4, <1>5
  <2>2. /\ SubSeq(s, k + 1, n) \in Seq(T) /\ Len(SubSeq(s, k + 1, n)) = IF k + 1 <= n THEN n - (k + 1) + 1 ELSE 0
        /\ \A i \in 1..(n - (k + 1) + 1) : SubSeq(s, k + 1, n)[i] = s[(k + 1) + i - 1]
    BY <1>5, <2>1, SubSeqProperties
  <2>3. n - (k + 1) + 1 = m /\ (\A i \in 1..m : (k + 1) + i - 1 = k + i) /\ (k + 1 <= n <=> m # 0)
    BY <1>5, <1>9
  <2>4. Len(SubSeq(s, k + 1, n)) = m
    BY <1>9, <2>2, <2>3
  <2>5. ASSUME NEW i \in 1..m PROVE SubSeq(s, k + 1, n)[i] = s[k + i]
    BY <2>2, <2>3, Zenon
  <2> QED
    BY <2>2, <2>4, <2>5, Zenon
<1>11. PICK d \in Seq(T) : d = SubSeq(more, k + 1, n + 1) /\ Len(d) = m + 1 /\ \A i \in 1..(m + 1) : d[i] = more[k + i]
  <2>1. \A i \in (k + 1)..(n + 1) : more[i] \in T
    BY <1>4, <1>5
  <2>2. /\ SubSeq(more, k + 1, n + 1) \in Seq(T)
        /\ Len(SubSeq(more, k + 1, n + 1)) = IF k + 1 <= n + 1 THEN (n + 1) - (k + 1) + 1 ELSE 0
        /\ \A i \in 1..((n + 1) - (k + 1) + 1) : SubSeq(more, k + 1, n + 1)[i] = more[(k + 1) + i - 1]
    BY <1>5, <2>1, SubSeqProperties
  <2>3. (n + 1) - (k + 1) + 1 = m + 1 /\ (\A i \in 1..(m + 1) : (k + 1) + i - 1 = k + i)
    BY <1>5, <1>9
  <2>4. Len(SubSeq(more, k + 1, n + 1)) = m + 1
    BY <1>5, <2>2, <2>3
  <2>5. ASSUME NEW i \in 1..(m + 1) PROVE SubSeq(more, k + 1, n + 1)[i] = more[k + i]
    BY <2>2, <2>3, Zenon
  <2> QED
    BY <2>2, <2>4, <2>5, Zenon
<1>12. d = Append(c, x)
  <2>1. PICK e \in Seq(T) : e = Append(c, x) /\ Len(e) = m + 1 /\ (\A i \in 1..m : e[i] = c[i]) /\ e[m + 1] = x
    <3>1. /\ Append(c, x) \in Seq(T) /\ Len(Append(c, x)) = Len(c) + 1
          /\ (\A i \in 1..Len(c) : Append(c, x)[i] = c[i]) /\ Append(c, x)[Len(c) + 1] = x
      BY AppendProperties
    <3> QED
      BY <1>10, <3>1, Zenon
  <2>2. ASSUME NEW i \in 1..(m + 1) PROVE d[i] = e[i]
    <3>1. CASE i \in 1..m
      BY <1>3, <1>5, <1>9, <1>10, <1>11, <2>1, <3>1
    <3>2. CASE i = m + 1
      BY <1>3, <1>5, <1>9, <1>11, <2>1, <3>2
    <3>3. i \in 1..m \/ i = m + 1
      OBVIOUS
    <3> QED
      BY <3>1, <3>2, <3>3
  <2>3. Len(d) = Len(e) /\ \A i \in 1..Len(d) : d[i] = e[i]
    BY <1>11, <2>1, <2>2
  <2>4. d = e
    BY <2>3, SeqEqual
  <2> QED
    BY <2>1, <2>4
<1> QED
  BY <1>1, <1>2, <1>6, <1>7, <1>8, <1>10, <1>11, <1>12, Zenon

LEMMA PlainPart ==
    ASSUME NEW pairs \in Seq(Pair), Plain(pairs), NEW k \in 1..Len(pairs)
    PROVE  /\ SubSeq(pairs, 1, k) \in Seq(Pair) /\ Plain(SubSeq(pairs, 1, k))
           /\ SubSeq(pairs, k + 1, Len(pairs)) \in Seq(Pair) /\ Plain(SubSeq(pairs, k + 1, Len(pairs)))
           /\ k < Len(pairs) => SubSeq(pairs, k + 1, Len(pairs)) # <<>>
<1>1. PICK n \in Nat : n = Len(pairs)
  BY LenProperties
<1>2. \A i \in 1..n : pairs[i] \in Pair /\ PlainPair(pairs[i])
  BY <1>1, ElementOfSeq DEF Plain
<1>3. k \in 1..n /\ k \in Int /\ k + 1 \in Int /\ n \in Int
  BY <1>1
<1>4. /\ SubSeq(pairs, 1, k) \in Seq(Pair) /\ Len(SubSeq(pairs, 1, k)) = IF 1 <= k THEN k - 1 + 1 ELSE 0
      /\ \A i \in 1..(k - 1 + 1) : SubSeq(pairs, 1, k)[i] = pairs[1 + i - 1]
  BY <1>2, <1>3, SubSeqProperties
<1>5. /\ SubSeq(pairs, k + 1, n) \in Seq(Pair)
      /\ Len(SubSeq(pairs, k + 1, n)) = IF k + 1 <= n THEN n - (k + 1) + 1 ELSE 0
      /\ \A i \in 1..(n - (k + 1) + 1) : SubSeq(pairs, k + 1, n)[i] = pairs[(k + 1) + i - 1]
  BY <1>2, <1>3, SubSeqProperties
<1>6. Plain(SubSeq(pairs, 1, k))
  <2>1. Len(SubSeq(pairs, 1, k)) = k /\ k - 1 + 1 = k
    BY <1>3, <1>4
  <2>2. ASSUME NEW i \in 1..k PROVE PlainPair(SubSeq(pairs, 1, k)[i])
    BY <1>2, <1>3, <1>4
  <2> QED
    BY <2>1, <2>2 DEF Plain
<1>7. Plain(SubSeq(pairs, k + 1, n))
  <2>1. PICK m \in Nat : m = n - (k + 1) + 1
    BY <1>3
  <2>2. Len(SubSeq(pairs, k + 1, n)) = m
    BY <1>3, <1>5, <2>1
  <2>3. ASSUME NEW i \in 1..m PROVE PlainPair(SubSeq(pairs, k + 1, n)[i])
    BY <1>2, <1>3, <1>5, <2>1
  <2> QED
    BY <2>2, <2>3 DEF Plain
<1>8. k < n => SubSeq(pairs, k + 1, n) # <<>>
  BY <1>3, <1>5, EmptySeq
<1> QED
  BY <1>1, <1>4, <1>5, <1>6, <1>7, <1>8

-----------------------------------------------------------------------------
LEMMA FusedMore ==
    ASSUME NEW pairs \in Seq(Pair), NEW p \in Pair, NEW k \in 1..(Len(pairs) - 1),
           FusedPairs(pairs, k) \in Seq(Pair)
    PROVE  FusedPairs(Append(pairs, p), k) = Append(FusedPairs(pairs, k), p)
<1>1. PICK n \in Nat : n = Len(pairs)
  BY LenProperties
<1>2. PICK more : more = Append(pairs, p)
  OBVIOUS
<1>3. Len(more) = n + 1 /\ (\A i \in 1..n : more[i] = pairs[i]) /\ more[n + 1] = p
  BY <1>1, <1>2, AppendProperties
<1>4. k \in 1..(n - 1) /\ n - 1 \in Nat /\ k \in 1..n /\ k + 1 \in 1..n /\ (n + 1) - 1 = n
  BY <1>1
<1>5. PICK f \in Seq(Pair) : f = FusedPairs(pairs, k)
  OBVIOUS
<1>6. /\ f = [i \in 1..(n - 1) |->
               IF i = k THEN Merged(pairs[k], pairs[k + 1]) ELSE pairs[IF i < k THEN i ELSE i + 1]]
      /\ Len(f) = n - 1
  <2>1. f = [i \in 1..(n - 1) |->
               IF i = k THEN Merged(pairs[k], pairs[k + 1]) ELSE pairs[IF i < k THEN i ELSE i + 1]]
    BY <1>1, <1>5, Zenon DEF FusedPairs
  <2>2. DOMAIN f = 1..(n - 1)
    BY <2>1
  <2>3. DOMAIN f = 1..Len(f) /\ Len(f) \in Nat
    BY LenProperties
  <2>4. PICK l \in Nat : l = Len(f)
    BY <2>3
  <2>5. \A m \in Nat, k1 \in Nat : 1..m = 1..k1 => m = k1
    BY SameInterval
  <2>6. l = n - 1
    BY <1>4, <2>2, <2>3, <2>4, <2>5, Zenon
  <2> QED
    BY <2>1, <2>4, <2>6, Zenon
<1>7. PICK g : g = FusedPairs(more, k)
  OBVIOUS
<1>8. g = [i \in 1..n |->
             IF i = k THEN Merged(more[k], more[k + 1]) ELSE more[IF i < k THEN i ELSE i + 1]]
  BY <1>3, <1>4, <1>7, Zenon DEF FusedPairs
<1>9. PICK h : h = Append(f, p)
  OBVIOUS
<1>10. h \in Seq(Pair) /\ Len(h) = n /\ (\A i \in 1..(n - 1) : h[i] = f[i]) /\ h[n] = p
  BY <1>4, <1>6, <1>9, AppendProperties
<1>11. ASSUME NEW i \in 1..n PROVE g[i] = h[i]
  <2>1. CASE i = n
    BY <1>3, <1>4, <1>8, <1>10, <2>1
  <2>2. CASE i # n /\ i = k
    <3>1. g[i] = Merged(more[k], more[k + 1])
      BY <1>8, <2>2, Zenon
    <3>2. more[k] = pairs[k] /\ more[k + 1] = pairs[k + 1]
      BY <1>3, <1>4
    <3>3. f[i] = Merged(pairs[k], pairs[k + 1])
      BY <1>4, <1>6, <2>2, Zenon
    <3>4. h[i] = f[i]
      BY <1>4, <1>10, <2>2
    <3> QED
      BY <3>1, <3>2, <3>3, <3>4, Zenon
  <2>3. CASE i # n /\ i # k
    <3>1. PICK j : j = IF i < k THEN i ELSE i + 1
      OBVIOUS
    <3>2. j \in 1..n /\ i \in 1..(n - 1)
      BY <1>4, <2>3, <3>1
    <3>3. g[i] = more[j]
      BY <1>8, <2>3, <3>1, Zenon
    <3>4. f[i] = pairs[j]
      BY <1>6, <2>3, <3>1, <3>2, Zenon
    <3> QED
      BY <1>3, <1>10, <3>2, <3>3, <3>4
  <2> QED
    BY <2>1, <2>2, <2>3
<1>12. g = h
  BY <1>8, <1>10, <1>11, LenProperties
<1> QED
  BY <1>2, <1>5, <1>7, <1>9, <1>12

LEMMA FusedLast ==
    ASSUME NEW front \in Seq(Pair), NEW a \in Pair, NEW p \in Pair, Merged(a, p) \in Pair
    PROVE  FusedPairs(Append(Append(front, a), p), Len(front) + 1) = Append(front, Merged(a, p))
<1>1. PICK n \in Nat : n = Len(front) + 1 /\ n - 1 = Len(front)
  BY LenProperties
<1>2. PICK pairs \in Seq(Pair) : /\ pairs = Append(front, a) /\ Len(pairs) = n
                                 /\ (\A i \in 1..(n - 1) : pairs[i] = front[i]) /\ pairs[n] = a
  <2>1. /\ Append(front, a) \in Seq(Pair) /\ Len(Append(front, a)) = Len(front) + 1
        /\ (\A i \in 1..Len(front) : Append(front, a)[i] = front[i]) /\ Append(front, a)[Len(front) + 1] = a
    BY AppendProperties
  <2> QED
    BY <1>1, <2>1, Zenon
<1>3. PICK more \in Seq(Pair) : /\ more = Append(pairs, p) /\ Len(more) = n + 1
                                /\ (\A i \in 1..n : more[i] = pairs[i]) /\ more[n + 1] = p
  <2>1. /\ Append(pairs, p) \in Seq(Pair) /\ Len(Append(pairs, p)) = Len(pairs) + 1
        /\ (\A i \in 1..Len(pairs) : Append(pairs, p)[i] = pairs[i]) /\ Append(pairs, p)[Len(pairs) + 1] = p
    BY AppendProperties
  <2> QED
    BY <1>2, <2>1, Zenon
<1>4. PICK g : g = FusedPairs(more, n)
  OBVIOUS
<1>5. g = [i \in 1..n |->
             IF i = n THEN Merged(more[n], more[n + 1]) ELSE more[IF i < n THEN i ELSE i + 1]]
  BY <1>3, <1>4 DEF FusedPairs
<1>6. PICK h : h = Append(front, Merged(a, p))
  OBVIOUS
<1>7. /\ h \in Seq(Pair) /\ Len(h) = n
      /\ (\A i \in 1..(n - 1) : h[i] = front[i]) /\ h[n] = Merged(a, p)
  BY <1>1, <1>6, AppendProperties
<1>8. n \in 1..n
  BY <1>1, LenProperties
<1>9. ASSUME NEW i \in 1..n PROVE g[i] = h[i]
  <2>1. CASE i = n
    BY <1>2, <1>3, <1>5, <1>7, <1>8, <2>1
  <2>2. CASE i # n
    BY <1>2, <1>3, <1>5, <1>7, <2>2
  <2> QED
    BY <2>1, <2>2
<1>10. g = h
  BY <1>5, <1>7, <1>9, LenProperties
<1> QED
  BY <1>1, <1>2, <1>3, <1>4, <1>6, <1>10, Zenon

-----------------------------------------------------------------------------
(* Behind the cut: one more pair on both sides. *)
LEMMA FusesMore ==
    ASSUME NEW pairs \in Seq(Pair), Plain(pairs), NEW p, PlainPair(p), NEW k \in 1..(Len(pairs) - 1),
           FieldFuses(pairs, k)
    PROVE  FieldFuses(Append(pairs, p), k)
<1>1. PICK n \in Nat : n = Len(pairs)
  BY LenProperties
<1>2. p \in Pair /\ k \in 1..n /\ k < n /\ "tidy" \in Styles
  BY <1>1 DEF PlainPair, Styles
<1>3. PICK more : more = Append(pairs, p)
  OBVIOUS
<1>4. Len(more) = n + 1
  BY <1>1, <1>2, <1>3, AppendProperties
<1>5. PICK l \in Seq(Pair), r \in Seq(Pair) :
          /\ l = SubSeq(pairs, 1, k) /\ r = SubSeq(pairs, k + 1, n)
          /\ l = SubSeq(more, 1, k) /\ Append(r, p) = SubSeq(more, k + 1, n + 1)
          /\ Plain(l) /\ Plain(r) /\ r # <<>>
  <2>1. /\ SubSeq(pairs, 1, k) \in Seq(Pair) /\ Plain(SubSeq(pairs, 1, k))
        /\ SubSeq(pairs, k + 1, n) \in Seq(Pair) /\ Plain(SubSeq(pairs, k + 1, n))
        /\ SubSeq(pairs, k + 1, n) # <<>>
    BY <1>1, <1>2, PlainPart
  <2>2. /\ SubSeq(more, k + 1, n + 1) = Append(SubSeq(pairs, k + 1, n), p)
        /\ SubSeq(more, 1, k) = SubSeq(pairs, 1, k)
    BY <1>1, <1>2, <1>3, LastPart
  <2> QED
    BY <2>1, <2>2, Zenon
<1>6. PICK f \in Seq(Pair) :
          /\ f = FusedPairs(pairs, k) /\ Plain(f) /\ f # <<>>
          /\ FieldOf(pairs, k) = WriteJar(f, "tidy")
  <2>1. /\ FusedPairs(pairs, k) \in Seq(Pair) /\ Plain(FusedPairs(pairs, k))
        /\ FieldOf(pairs, k) = WriteJar(FusedPairs(pairs, k), "tidy")
    BY Zenon DEF FieldFuses
  <2>2. FusedPairs(pairs, k) # <<>>
    <3>1. DOMAIN FusedPairs(pairs, k) = 1..(n - 1)
      BY <1>1 DEF FusedPairs
    <3>2. k \in 1..(n - 1)
      BY <1>1
    <3>3. DOMAIN << >> = {}
      OBVIOUS
    <3> QED
      BY <3>1, <3>2, <3>3, Zenon
  <2> QED
    BY <2>1, <2>2, Zenon
<1>7. FusedPairs(more, k) = Append(f, p)
  BY <1>2, <1>3, <1>6, FusedMore
<1>8. Append(f, p) \in Seq(Pair) /\ Plain(Append(f, p))
  BY <1>2, <1>6, AppendProperties, PlainAppend
<1>9. PICK x : x = Between("tidy") \o WritePair(p, "tidy")
  OBVIOUS
<1>10. x \in Text
  BY <1>2, <1>9, Betweens, WrittenText, ConcatProperties DEF Text
<1>11. WriteJar(Append(r, p), "tidy") = WriteJar(r, "tidy") \o x
  BY <1>5, <1>9, LineGrows, Zenon DEF Lead
<1>12. WriteJar(Append(f, p), "tidy") = WriteJar(f, "tidy") \o x
  BY <1>6, <1>9, LineGrows, Zenon DEF Lead
<1>13. FieldOf(more, k) = WriteJar(l, "tidy") \o Joint \o WriteJar(Append(r, p), "tidy")
  BY <1>4, <1>5, Zenon DEF FieldOf
<1>14. FieldOf(pairs, k) = WriteJar(l, "tidy") \o Joint \o WriteJar(r, "tidy")
  BY <1>1, <1>5, Zenon DEF FieldOf
<1>15. PICK lj \in Text, wr \in Text : lj = WriteJar(l, "tidy") \o Joint /\ wr = WriteJar(r, "tidy")
  BY <1>2, <1>5, LineText, JointText, ConcatProperties DEF Text
<1>16. Grouped(lj, wr, x)
  BY <1>10, Grouping
<1>17. FieldOf(more, k) = WriteJar(Append(f, p), "tidy")
  BY <1>6, <1>11, <1>12, <1>13, <1>14, <1>15, <1>16, Zenon DEF Grouped
<1> QED
  BY <1>3, <1>7, <1>8, <1>17, Zenon DEF FieldFuses

(* The first pair behind the cut. *)
LEMMA FusesLast ==
    ASSUME NEW front \in Seq(Pair), Plain(front), NEW a, PlainPair(a), NEW p, PlainPair(p)
    PROVE  FieldFuses(Append(Append(front, a), p), Len(front) + 1)
<1>1. a \in Pair /\ p \in Pair /\ "tidy" \in Styles
  BY DEF PlainPair, Styles
<1>2. PICK n \in Nat : n = Len(front) + 1
  BY LenProperties
<1>3. PICK pairs \in Seq(Pair) : pairs = Append(front, a) /\ Len(pairs) = n /\ Plain(pairs)
  BY <1>1, <1>2, AppendProperties, PlainAppend
<1>4. PICK more \in Seq(Pair) : more = Append(pairs, p) /\ Len(more) = n + 1 /\ more[n + 1] = p
  BY <1>1, <1>3, AppendProperties
<1>5. n \in 1..Len(pairs)
  BY <1>2, <1>3, LenProperties
<1>6. PICK m : m = Merged(a, p) /\ PlainPair(m) /\ m \in Pair
  BY MergedPlain DEF PlainPair
<1>7. PICK f \in Seq(Pair) : f = FusedPairs(more, n) /\ f = Append(front, m) /\ Plain(f)
  <2>1. FusedPairs(Append(Append(front, a), p), Len(front) + 1) = Append(front, Merged(a, p))
    BY <1>1, <1>6, FusedLast
  <2>2. Append(front, m) \in Seq(Pair) /\ Plain(Append(front, m))
    BY <1>6, AppendProperties, PlainAppend
  <2> QED
    BY <1>2, <1>3, <1>4, <1>6, <2>1, <2>2, Zenon
<1>8. SubSeq(more, 1, n) = pairs
  BY <1>1, <1>3, <1>4, <1>5, LastPart, SubSeqFull
<1>9. SubSeq(more, n + 1, n + 1) = <<p>>
  <2>1. n + 1 \in 1..Len(more)
    BY <1>4
  <2> QED
    BY <1>4, <2>1, OneItem
<1>10. PICK w \in Text : w = WritePair(p, "tidy")
  BY <1>1, WrittenText
<1>11. PICK v \in Text : v = WritePair(a, "tidy")
  BY <1>1, WrittenText
<1>12. WriteJar(<<p>>, "tidy") = w
  <2>1. <<>> \in Seq(Pair) /\ Plain(<<>>)
    BY EmptySeq DEF Plain
  <2>2. WriteJar(Append(<<>>, p), "tidy") = WriteJar(<<>>, "tidy") \o (Lead(<<>>, "tidy") \o w)
    BY <1>10, <2>1, LineGrows
  <2>3. WriteJar(<<>>, "tidy") = <<>>
    BY <1>1, <2>1, LineAppend DEF Plain
  <2>4. Lead(<<>>, "tidy") = <<>>
    BY Zenon DEF Lead
  <2>5. <<>> \o w = w
    BY ConcatEmptySeq DEF Text
  <2>6. Append(<<>>, p) = <<p>>
    OBVIOUS
  <2> QED
    BY <2>2, <2>3, <2>4, <2>5, <2>6, Zenon
<1>13. PICK l \in Text, d \in Text, j \in Text : l = WriteJar(front, "tidy") /\ d = Lead(front, "tidy") /\ j = Joint
  BY <1>1, LineText, Betweens, TokensAre, JointText DEF Lead
<1>14. WriteJar(pairs, "tidy") = l \o (d \o v)
  BY <1>3, <1>11, <1>13, LineGrows
<1>15. WriteJar(f, "tidy") = l \o (d \o (v \o (j \o w)))
  <2>1. WriteJar(f, "tidy") = l \o (d \o WritePair(m, "tidy"))
    BY <1>6, <1>7, <1>13, LineGrows
  <2>2. WritePair(m, "tidy") = v \o (j \o w)
    BY <1>6, <1>10, <1>11, <1>13, MergedWritten
  <2> QED
    BY <2>1, <2>2, Zenon
<1>16. FieldOf(more, n) = (l \o (d \o v)) \o j \o w
  BY <1>4, <1>8, <1>9, <1>12, <1>13, <1>14, Zenon DEF FieldOf
<1>17. PICK jw \in Text, dv \in Text : jw = j \o w /\ dv = d \o v
  BY ConcatProperties DEF Text
<1>18. l \o dv \in Text
  BY ConcatProperties DEF Text
<1>19. Grouped(l \o dv, j, w) /\ Grouped(l, dv, jw) /\ Grouped(d, v, jw)
  BY <1>18, Grouping
<1>20. FieldOf(more, n) = WriteJar(f, "tidy")
  BY <1>15, <1>16, <1>17, <1>19, Zenon DEF Grouped
<1> QED
  BY <1>2, <1>3, <1>4, <1>7, <1>20, Zenon DEF FieldFuses

LEMMA FieldsFuse ==
    \A pairs \in Seq(Pair) : Plain(pairs) => \A k \in 1..(Len(pairs) - 1) : FieldFuses(pairs, k)
<1> DEFINE good == {q \in Seq(Pair) : Plain(q) => \A k \in 1..(Len(q) - 1) : FieldFuses(q, k)}
<1>1. <<>> \in good
  BY EmptySeq
<1>2. ASSUME NEW q \in Seq(Pair), NEW p \in Pair, q \in good
      PROVE  Append(q, p) \in good
  <2>1. Append(q, p) \in Seq(Pair)
    BY AppendProperties
  <2> SUFFICES ASSUME Plain(Append(q, p)), NEW k \in 1..(Len(Append(q, p)) - 1)
               PROVE  FieldFuses(Append(q, p), k)
    BY <2>1
  <2>2. Plain(q) /\ PlainPair(p)
    BY PlainAppend
  <2>3. Len(q) \in Nat /\ k \in 1..Len(q)
    BY AppendProperties, LenProperties
  <2>4. CASE k < Len(q)
    BY <1>2, <2>2, <2>3, <2>4, FusesMore
  <2>5. CASE ~(k < Len(q))
    <3>1. k = Len(q) /\ q # <<>>
      BY <2>3, <2>5, EmptySeq
    <3>2. PICK front \in Seq(Pair), a \in Pair : q = Append(front, a)
      BY <3>1, SequenceEmptyOrAppend
    <3>3. Plain(front) /\ PlainPair(a)
      BY <2>2, <3>2, PlainAppend
    <3>4. Len(q) = Len(front) + 1
      BY <3>2, AppendProperties
    <3>5. FieldFuses(Append(Append(front, a), p), Len(front) + 1)
      BY <2>2, <3>3, FusesLast
    <3> QED
      BY <3>1, <3>2, <3>4, <3>5
  <2> QED
    BY <2>4, <2>5
<1>3. \A q \in Seq(Pair) : q \in good
  <2> HIDE DEF good
  <2> QED
    BY <1>1, <1>2, SeqInduction
<1> QED
  BY <1>3

-----------------------------------------------------------------------------
LEMMA JarsPlain ==
    ASSUME NEW jar \in Jars
    PROVE  jar.pairs \in Seq(Pair) /\ Plain(jar.pairs) /\ jar.style \in Styles
           /\ (jar.split = 0 \/ (jar.split \in 1..(Len(jar.pairs) - 1) /\ jar.style = "tidy"))
<1>1. /\ jar.pairs \in Seq([name : Seq(STRING), value : Seq(STRING)])
      /\ jar.style \in {"tidy", "spaced", "short"}
      /\ jar.split = 0 \/ (jar.split \in 1..(Len(jar.pairs) - 1) /\ jar.style = "tidy")
  BY JarsAssumption, Zenon
<1>2. \A i \in 1..Len(jar.pairs) :
              /\ \A k \in 1..Len(jar.pairs[i].name) : jar.pairs[i].name[k] \notin {Semicolon, Equals, Space}
              /\ \A k \in 1..Len(jar.pairs[i].value) : jar.pairs[i].value[k] # Semicolon
              /\ jar.pairs[i].value # <<>> =>
                     jar.pairs[i].value[1] # Space /\ jar.pairs[i].value[Len(jar.pairs[i].value)] # Space
  BY JarsAssumption, Zenon
<1>3. [name : Seq(STRING), value : Seq(STRING)] \subseteq Pair
  BY TokensAre DEF Pair
<1>4. jar.pairs \in Seq(Pair)
  BY <1>1, <1>3, SeqMonotonic
<1>5. ASSUME NEW i \in 1..Len(jar.pairs) PROVE PlainPair(jar.pairs[i])
  <2>1. PICK p : p = jar.pairs[i]
    OBVIOUS
  <2>2. p \in Pair
    BY <1>4, <2>1, ElementOfSeq
  <2>3. /\ \A k \in 1..Len(p.name) : p.name[k] \notin {Semicolon, Equals, Space}
        /\ \A k \in 1..Len(p.value) : p.value[k] # Semicolon
        /\ p.value # <<>> => p.value[1] # Space /\ p.value[Len(p.value)] # Space
    BY <1>2, <2>1, Zenon
  <2>4. PlainName(p.name) /\ Lacks(p.value, Semicolon) /\ Tight(p.value)
    BY <2>3, Zenon DEF PlainName, Lacks, Tight
  <2> QED
    BY <2>1, <2>2, <2>4 DEF PlainPair
<1> QED
  BY <1>1, <1>4, <1>5 DEF Plain, Styles

(* Every jar reads back. *)
LEMMA JarsRead == ASSUME NEW jar \in Jars PROVE ReadCookies(CookieField(jar)) = JarRead(Fused(jar))
<1>1. PICK pairs \in Seq(Pair) : pairs = jar.pairs /\ Plain(pairs)
  BY JarsPlain
<1>2. CASE jar.split = 0
  BY <1>1, <1>2, JarsPlain, JarReadsBack DEF CookieField, Fused
<1>3. CASE jar.split # 0
  <2>1. PICK k \in 1..(Len(pairs) - 1) : k = jar.split
    BY <1>1, <1>3, JarsPlain
  <2>2. jar.style = "tidy" /\ "tidy" \in Styles
    BY <1>3, JarsPlain DEF Styles
  <2>3. CookieField(jar) = FieldOf(pairs, k)
    BY <1>1, <1>3, <2>1, <2>2, Zenon DEF CookieField, FieldOf, Joint
  <2>4. Fused(jar) = FusedPairs(pairs, k)
    BY <1>1, <1>3, <2>1, <2>2, Zenon DEF Fused, FusedPairs, Merged, Joint
  <2>5. FieldFuses(pairs, k)
    BY <1>1, FieldsFuse
  <2> QED
    BY <2>2, <2>3, <2>4, <2>5, JarReadsBack DEF FieldFuses
<1> QED
  BY <1>2, <1>3

-----------------------------------------------------------------------------
(* The cookies of a response. *)
CookieCall == [op : {"add", "remove"}, name : Seq(STRING), value : STRING]

Written == UNION {[D -> STRING] : D \in SUBSET Text}

LEMMA NothingWritten == NoCookies \in Written
<1>1. NoCookies \in [{} -> STRING]
  BY DEF NoCookies
<1> QED
  BY <1>1 DEF Written

LEMMA CallType ==
    ASSUME NEW store \in Written, NEW call \in CookieCall
    PROVE  Call(store, call) \in Written
<1>1. PICK D \in SUBSET Text : store \in [D -> STRING]
  BY DEF Written
<1>2. call.name \in Seq(STRING) /\ call.value \in STRING /\ call.name \in Text
  BY TokensAre DEF CookieCall
<1>3. PICK name \in Text : name = Trim(call.name)
  BY <1>2, TrimType
<1>4. With(store, name, call.value) \in Written
  <2>1. With(store, name, call.value) \in [D \cup {name} -> STRING]
    BY <1>1, <1>2 DEF With
  <2>2. D \cup {name} \in SUBSET Text
    OBVIOUS
  <2> QED
    BY <2>1, <2>2 DEF Written
<1>5. Without(store, call.name) \in Written
  <2>1. Without(store, call.name) \in [D \ {call.name} -> STRING]
    BY <1>1 DEF Without
  <2>2. D \ {call.name} \in SUBSET Text
    OBVIOUS
  <2> QED
    BY <2>1, <2>2 DEF Written
<1> QED
  BY <1>3, <1>4, <1>5, Zenon DEF Call

(* The store of a response, call by call. *)
LEMMA CallsAppend ==
    /\ AfterCalls(<<>>) = NoCookies
    /\ \A xs \in Seq(CookieCall) : AfterCalls(xs) \in Written
    /\ \A xs \in Seq(CookieCall), x \in CookieCall : AfterCalls(Append(xs, x)) = Call(AfterCalls(xs), x)
<1>1. PICK S, T : S = Written /\ T = CookieCall
  OBVIOUS
<1>2. PICK step : step = [x \in T |-> [s \in S |-> Call(s, x)]]
  OBVIOUS
<1>3. step \in [T -> [S -> S]]
  BY <1>1, <1>2, CallType
<1>4. PICK base : base = NoCookies
  OBVIOUS
<1>5. base \in S
  BY <1>1, <1>4, NothingWritten
<1>6. PICK run : Runs(run, S, T, base, step)
  BY <1>3, <1>5, LoopOver
<1>7. /\ run \in [Seq(T) -> S] /\ run[<<>>] = base
      /\ \A xs \in Seq(T), x \in T : run[Append(xs, x)] = step[x][run[xs]]
  BY <1>6, Zenon DEF Runs
<1>8. ASSUME NEW xs \in Seq(T)
      PROVE  AfterCalls(xs) = run[xs]
  <2> DEFINE n == Len(xs)
             Right(f) == f = [i \in 0..n |-> IF i = 0 THEN NoCookies ELSE Call(f[i - 1], xs[i])]
             g == CHOOSE f : Right(f)
  <2>1. n \in Nat
    BY LenProperties
  <2>2. PICK f : /\ f = [i \in 0..n |-> IF i = 0 THEN base ELSE step[xs[i]][f[i - 1]]]
                 /\ \A i \in 0..n : f[i] \in S
    BY <1>6, Zenon DEF Runs
  <2>3. ASSUME NEW i \in 0..n
        PROVE  f[i] = IF i = 0 THEN NoCookies ELSE Call(f[i - 1], xs[i])
    <3>1. CASE i = 0
      BY <1>4, <2>2, <3>1
    <3>2. CASE i # 0
      BY <1>2, <2>1, <2>2, <3>2, ElementOfSeq
    <3> QED
      BY <3>1, <3>2
  <2>4. Right(f)
    BY <2>2, <2>3
  <2>5. Right(g)
    BY <2>4, Zenon
  <2>6. AfterCalls(xs) = g[n]
    BY Zenon DEF AfterCalls
  <2> HIDE DEF g
  <2>7. \A i \in 0..n : g[i] = IF i = 0 THEN NoCookies ELSE Call(g[i - 1], xs[i])
    BY <2>5, Zenon
  <2>8. Unfolds(g, n, S, base, step, xs)
    <3>1. g[0] = base
      BY <1>4, <2>1, <2>7
    <3>2. ASSUME NEW i \in 1..n, g[i - 1] \in S
          PROVE  g[i] = step[xs[i]][g[i - 1]]
      BY <1>2, <2>1, <2>7, <3>2, ElementOfSeq
    <3> QED
      BY <3>1, <3>2 DEF Unfolds
  <2> QED
    BY <1>6, <2>6, <2>8, Zenon DEF Runs
<1>9. AfterCalls(<<>>) = NoCookies
  BY <1>4, <1>7, <1>8, EmptySeq
<1>10. ASSUME NEW xs \in Seq(T) PROVE AfterCalls(xs) \in S
  BY <1>7, <1>8
<1>11. ASSUME NEW xs \in Seq(T), NEW x \in T
       PROVE  AfterCalls(Append(xs, x)) = Call(AfterCalls(xs), x)
  <2>1. Append(xs, x) \in Seq(T)
    BY AppendProperties
  <2>2. run[Append(xs, x)] = step[x][run[xs]] /\ run[xs] \in S
    BY <1>7
  <2>3. step[x][run[xs]] = Call(run[xs], x)
    BY <1>2, <2>2
  <2> QED
    BY <1>8, <2>1, <2>2, <2>3
<1> QED
  BY <1>1, <1>9, <1>10, <1>11, Zenon

(* What calls leave, call by call. *)
LEMMA KeptNothing == StoreKept(<<>>) = NoCookies
<1>1. StoreKept(<<>>) = [name \in {} |-> {}]
  BY DEF StoreKept
<1>2. NoCookies = [name \in {} |-> {}]
  BY DEF NoCookies
<1> QED
  BY <1>1, <1>2

LEMMA KeptAppend ==
    ASSUME NEW calls \in Seq(CookieCall), NEW c \in CookieCall
    PROVE  StoreKept(Append(calls, c)) = Call(StoreKept(calls), c)
<1> DEFINE adds(q, name) == {i \in DOMAIN q : q[i].op = "add" /\ Trim(q[i].name) = name}
           removes(q, name) == {i \in DOMAIN q : q[i].op = "remove" /\ q[i].name = name}
           kept(q, name) == \E i \in adds(q, name) : \A j \in removes(q, name) : j < i
           names(q) == {n \in {Trim(q[i].name) : i \in DOMAIN q} : kept(q, n)}
           value(q, name) == q[Max(adds(q, name))].value
<1>1. \A q : StoreKept(q) = [name \in names(q) |-> value(q, name)]
  BY Zenon DEF StoreKept
<1>3. PICK n \in Nat : n = Len(calls)
  BY LenProperties
<1>4. PICK more : more = Append(calls, c)
  OBVIOUS
<1>5. /\ DOMAIN calls = 1..n /\ DOMAIN more = 1..(n + 1)
      /\ \A i \in 1..n : more[i] = calls[i]
      /\ more[n + 1] = c
  BY <1>3, <1>4, AppendProperties, LenProperties
<1>6. /\ \A i \in 1..(n + 1) : i \in 1..n \/ i = n + 1
      /\ \A i \in 1..n : i \in 1..(n + 1) /\ i < n + 1 /\ ~(n + 1 < i)
      /\ n + 1 \in 1..(n + 1) /\ ~(n + 1 < n + 1)
  OBVIOUS
<1>7. \A q, name : kept(q, name) => name \in {Trim(q[i].name) : i \in DOMAIN q}
  BY Zenon
<1>8. \A q, name : name \in names(q) <=> kept(q, name)
  BY <1>7, Zenon
<1>9. ASSUME NEW name, ~(c.op = "add" /\ Trim(c.name) = name)
      PROVE  adds(more, name) = adds(calls, name)
  BY <1>5, <1>6, <1>9
<1>10. ASSUME NEW name, ~(c.op = "remove" /\ c.name = name)
       PROVE  removes(more, name) = removes(calls, name)
  BY <1>5, <1>6, <1>10
<1>11. \A name : adds(calls, name) \in SUBSET (1..n) /\ removes(calls, name) \in SUBSET (1..n)
  BY <1>5
<1>12. ASSUME NEW name, adds(more, name) = adds(calls, name), kept(calls, name)
       PROVE  value(more, name) = value(calls, name)
  <2>1. PICK S : S = adds(calls, name)
    OBVIOUS
  <2>2. S \in SUBSET (1..n) /\ S # {}
    BY <1>11, <1>12, <2>1
  <2>3. Max(S) \in 1..n
    BY <2>2, LastPlace
  <2>4. value(more, name) = more[Max(S)].value /\ value(calls, name) = calls[Max(S)].value
    BY <1>12, <2>1, Zenon
  <2> QED
    BY <1>5, <2>3, <2>4
<1>13. /\ StoreKept(more) = [name \in names(more) |-> value(more, name)]
       /\ StoreKept(calls) = [name \in names(calls) |-> value(calls, name)]
       /\ DOMAIN StoreKept(calls) = names(calls)
       /\ \A name \in names(calls) : StoreKept(calls)[name] = value(calls, name)
  <2> HIDE DEF names, value
  <2>1. /\ StoreKept(more) = [name \in names(more) |-> value(more, name)]
        /\ StoreKept(calls) = [name \in names(calls) |-> value(calls, name)]
    BY <1>1
  <2> QED
    BY <2>1
<1>14. CASE c.op = "add"
  <2>1. PICK m : m = Trim(c.name)
    OBVIOUS
  <2>2. c.op # "remove"
    BY <1>14
  <2>3. adds(more, m) = adds(calls, m) \cup {n + 1}
    BY <1>5, <1>6, <1>14, <2>1
  <2>4. kept(more, m)
    BY <1>6, <1>10, <1>11, <2>2, <2>3
  <2>5. value(more, m) = c.value
    <3>1. PICK S : S = adds(more, m)
      OBVIOUS
    <3>2. S \in SUBSET Int /\ n + 1 \in S /\ \A i \in S : n + 1 >= i
      <4>1. adds(calls, m) \in SUBSET (1..n)
        BY <1>11
      <4> QED
        BY <2>3, <3>1, <4>1
    <3>3. Max(S) = n + 1
      BY <3>2, MostIs
    <3> QED
      BY <1>5, <3>1, <3>3, Zenon
  <2>6. ASSUME NEW name, name # m
        PROVE  /\ kept(more, name) <=> kept(calls, name)
               /\ kept(calls, name) => value(more, name) = value(calls, name)
    BY <1>9, <1>10, <1>12, <2>1, <2>2, <2>6
  <2> HIDE DEF names, value, kept
  <2>7. names(more) = names(calls) \cup {m}
    BY <1>8, <2>4, <2>6
  <2>8. \A name \in names(calls) \cup {m} :
            value(more, name) = IF name = m THEN c.value ELSE StoreKept(calls)[name]
    BY <1>8, <1>13, <2>5, <2>6
  <2>9. With(StoreKept(calls), m, c.value) =
            [name \in names(calls) \cup {m} |-> IF name = m THEN c.value ELSE StoreKept(calls)[name]]
    BY <1>13, Zenon DEF With
  <2>10. StoreKept(more) = With(StoreKept(calls), m, c.value)
    BY <1>13, <2>7, <2>8, <2>9
  <2> QED
    BY <1>4, <1>14, <2>1, <2>10, Zenon DEF Call
<1>15. CASE c.op # "add"
  <2>1. c.op = "remove"
    BY <1>15 DEF CookieCall
  <2>2. \A name : adds(more, name) = adds(calls, name)
    BY <1>9, <1>15
  <2>3. ~kept(more, c.name)
    BY <1>5, <1>6, <1>11, <2>1, <2>2
  <2>4. ASSUME NEW name, name # c.name
        PROVE  /\ kept(more, name) <=> kept(calls, name)
               /\ kept(calls, name) => value(more, name) = value(calls, name)
    BY <1>10, <1>12, <2>2, <2>4
  <2> HIDE DEF names, value, kept
  <2>5. names(more) = names(calls) \ {c.name}
    BY <1>8, <2>3, <2>4
  <2>6. \A name \in names(calls) \ {c.name} : value(more, name) = StoreKept(calls)[name]
    BY <1>8, <1>13, <2>4
  <2>7. Without(StoreKept(calls), c.name) = [name \in names(calls) \ {c.name} |-> StoreKept(calls)[name]]
    BY <1>13, Zenon DEF Without
  <2>8. StoreKept(more) = Without(StoreKept(calls), c.name)
    BY <1>13, <2>5, <2>6, <2>7
  <2> QED
    BY <1>4, <1>15, <2>8, Zenon DEF Call
<1> QED
  BY <1>14, <1>15

LEMMA CallsKept == \A calls \in Seq(CookieCall) : AfterCalls(calls) = StoreKept(calls)
<1> DEFINE good == {q \in Seq(CookieCall) : AfterCalls(q) = StoreKept(q)}
<1>1. <<>> \in good
  BY EmptySeq, KeptNothing, CallsAppend
<1>2. ASSUME NEW q \in Seq(CookieCall), NEW c \in CookieCall, q \in good
      PROVE  Append(q, c) \in good
  BY <1>2, AppendProperties, CallsAppend, KeptAppend
<1>3. \A q \in Seq(CookieCall) : q \in good
  <2> HIDE DEF good
  <2> QED
    BY <1>1, <1>2, SeqInduction
<1> QED
  BY <1>3

-----------------------------------------------------------------------------
(* The calendar. *)

(* The days of the years before a year, which begins in March, with the leap day as its last. *)
DaysBefore(y) == 365 * y + (y \div 4) - (y \div 100) + (y \div 400)

LEMMA YearLength ==
    ASSUME NEW y \in Nat
    PROVE  DaysBefore(y) \in Int /\ DaysBefore(y + 1) = DaysBefore(y) + (IF IsLeap(y + 1) THEN 366 ELSE 365)
<1>1. DaysBefore(y + 1) = DaysBefore(y) + (IF IsLeap(y + 1) THEN 366 ELSE 365)
  BY DEF DaysBefore, IsLeap
<1>2. DaysBefore(y) \in Int
  BY DEF DaysBefore
<1> QED
  BY <1>1, <1>2

LEMMA YearsInOrder ==
    ASSUME NEW y \in Nat, NEW z \in Nat, y <= z
    PROVE  DaysBefore(y) <= DaysBefore(z)
BY DEF DaysBefore

(* A period of 400 years, its centuries, their periods of four years, and the years of these. *)
LEMMA YearSplit ==
    ASSUME NEW g \in Nat, NEW c \in 0..3, NEW b \in 0..24, NEW a \in 0..3, NEW y, y = g * 400 + c * 100 + b * 4 + a
    PROVE  /\ DaysBefore(y) = g * 146097 + c * 36524 + b * 1461 + a * 365
           /\ a = 3 /\ (b = 24 => c = 3) => IsLeap(y + 1)
<1>1. y \div 400 = g
  OBVIOUS
<1>2. y \div 100 = 4 * g + c
  OBVIOUS
<1>3. y \div 4 = 100 * g + 25 * c + b
  OBVIOUS
<1>4. DaysBefore(y) = g * 146097 + c * 36524 + b * 1461 + a * 365
  BY <1>1, <1>2, <1>3 DEF DaysBefore
<1>5. ASSUME a = 3, b = 24 => c = 3
      PROVE  IsLeap(y + 1)
  <2>1. (y + 1) % 4 = 0
    BY <1>5
  <2>2. CASE b = 24
    BY <1>5, <2>1, <2>2 DEF IsLeap
  <2>3. CASE b # 24
    BY <1>5, <2>1, <2>3 DEF IsLeap
  <2> QED
    BY <2>2, <2>3
<1> QED
  BY <1>4, <1>5

LEMMA CenturySplit ==
    ASSUME NEW r \in Nat, r < 146097, NEW c, c = ((r \div 36524 + 1) * 3) \div 4
    PROVE  c \in 0..3 /\ r - c * 36524 \in Nat /\ r - c * 36524 <= 36524 /\ (r - c * 36524 = 36524 => c = 3)
<1>1. r \div 36524 \in 0..4
  OBVIOUS
<1>2. c \in 0..3 /\ (r \div 36524 < 4 => c = r \div 36524) /\ (r \div 36524 = 4 => c = 3)
  BY <1>1
<1>3. (r \div 36524) * 36524 <= r /\ r < (r \div 36524 + 1) * 36524
  OBVIOUS
<1> QED
  BY <1>1, <1>2, <1>3

LEMMA FourYearsSplit ==
    ASSUME NEW r \in Nat, r < 1461, NEW a, a = ((r \div 365 + 1) * 3) \div 4
    PROVE  a \in 0..3 /\ r - a * 365 \in Nat /\ r - a * 365 <= 365 /\ (r - a * 365 = 365 => a = 3 /\ r = 1460)
<1>1. r \div 365 \in 0..4
  OBVIOUS
<1>2. a \in 0..3 /\ (r \div 365 < 4 => a = r \div 365) /\ (r \div 365 = 4 => a = 3)
  BY <1>1
<1>3. (r \div 365) * 365 <= r /\ r < (r \div 365 + 1) * 365
  OBVIOUS
<1> QED
  BY <1>1, <1>2, <1>3

(* The month of a day of such a year, counted from March, and its date. *)
MonthOf(da) == ((da * 5 + 308) \div 153) - 2

(* Where the months begin. *)
Start(m) == (((m + 4) * 153) \div 5) - 122

DayOfYear(y, da, weekday) ==
    [weekday |-> weekday,
     year |-> (y - 4800) + ((MonthOf(da) + 2) \div 12),
     month |-> ((MonthOf(da) + 2) % 12) + 1,
     day |-> (da - Start(MonthOf(da))) + 1]

(* A day is the da-th of the year y. *)
LiesIn(d, y, da) == d + 2472632 = DaysBefore(y) + da /\ da <= 365 /\ (da = 365 => IsLeap(y + 1))

LEMMA DateSplit ==
    ASSUME NEW d \in Nat
    PROVE  \E y \in Nat : \E da \in Nat :
              LiesIn(d, y, da) /\ DateOf(d) = DayOfYear(y, da, Weekdays[(d % 7) + 1])
<1> DEFINE j == d + 2440588 + 32044
<1>1. PICK g : g = j \div 146097
  BY SMT
<1>2. PICK dg : dg = j % 146097
  BY SMT
<1>3. PICK c : c = ((dg \div 36524 + 1) * 3) \div 4
  BY SMT
<1>4. PICK dc : dc = dg - c * 36524
  BY SMT
<1>5. PICK b : b = dc \div 1461
  BY SMT
<1>6. PICK db : db = dc % 1461
  BY SMT
<1>7. PICK a : a = ((db \div 365 + 1) * 3) \div 4
  BY SMT
<1>8. PICK da : da = db - a * 365
  BY SMT
<1>9. PICK y : y = g * 400 + c * 100 + b * 4 + a
  BY SMT
<1>11. g \in Nat /\ dg \in Int /\ 0 <= dg /\ dg < 146097 /\ j = g * 146097 + dg
  BY <1>1, <1>2, SMT
<1>12. c \in 0..3 /\ dc \in Nat /\ dc <= 36524 /\ (dc = 36524 => c = 3)
  BY <1>3, <1>4, <1>11, CenturySplit, SMT
<1>13. b \in 0..24 /\ db \in Int /\ 0 <= db /\ db < 1461 /\ dc = b * 1461 + db
  BY <1>5, <1>6, <1>12, SMT
<1>14. a \in 0..3 /\ da \in Nat /\ da <= 365 /\ (da = 365 => a = 3 /\ db = 1460)
  BY <1>7, <1>8, <1>13, FourYearsSplit, SMT
<1>10. DateOf(d) = DayOfYear(y, da, Weekdays[(d % 7) + 1])
  <2>1. PICK m : m = MonthOf(da)
    BY SMT
  <2>2. ((m + 4) * 153) \div 5 \in Int /\ da \in Int
    BY <1>2, <1>3, <1>4, <1>6, <1>7, <1>8, <2>1, SMT DEF MonthOf
  <2>3. da - (((m + 4) * 153) \div 5) + 122 + 1 = (da - Start(m)) + 1
    BY <2>2, SMT DEF Start
  <2>4. DateOf(d) = [weekday |-> Weekdays[(d % 7) + 1],
                     year |-> (((g * 400 + c * 100) + b * 4) + a - 4800) + ((m + 2) \div 12),
                     month |-> ((m + 2) % 12) + 1,
                     day |-> da - (((m + 4) * 153) \div 5) + 122 + 1]
    BY <1>1, <1>2, <1>3, <1>4, <1>5, <1>6, <1>7, <1>8, <2>1, SMTT(80) DEF DateOf, MonthOf
  <2>5. (((g * 400 + c * 100) + b * 4) + a - 4800) = y - 4800
    BY <1>9, <1>11, <1>12, <1>13, <1>14, SMT
  <2>6. DayOfYear(y, da, Weekdays[(d % 7) + 1]) =
            [weekday |-> Weekdays[(d % 7) + 1], year |-> (y - 4800) + ((m + 2) \div 12),
             month |-> ((m + 2) % 12) + 1, day |-> (da - Start(m)) + 1]
    BY <2>1 DEF DayOfYear
  <2> QED
    BY <2>3, <2>4, <2>5, <2>6, SMTT(40)
<1>15. DaysBefore(y) = g * 146097 + c * 36524 + b * 1461 + a * 365
  BY <1>9, <1>11, <1>12, <1>13, <1>14, YearSplit, SMTT(60)
<1>16. d + 2472632 = DaysBefore(y) + da
  BY <1>4, <1>8, <1>11, <1>12, <1>13, <1>14, <1>15, SMT
<1>17. ASSUME da = 365 PROVE IsLeap(y + 1)
  BY <1>9, <1>11, <1>12, <1>13, <1>14, <1>17, YearSplit, SMT
<1>18. y \in Nat
  BY <1>9, <1>11, <1>12, <1>13, <1>14, SMT
<1> QED
  BY <1>10, <1>14, <1>16, <1>17, <1>18, SMT DEF LiesIn

(* Days that follow each other lie in the same year, or end one and begin the next. *)
LEMMA NextInYear ==
    ASSUME NEW d \in Nat, NEW y \in Nat, NEW da \in Nat, LiesIn(d, y, da),
           NEW z \in Nat, NEW ea \in Nat, LiesIn(d + 1, z, ea)
    PROVE  \/ z = y /\ ea = da + 1
           \/ z = y + 1 /\ ea = 0 /\ da = IF IsLeap(y + 1) THEN 365 ELSE 364
<1>1. /\ d + 2472632 = DaysBefore(y) + da /\ da <= 365 /\ (da = 365 => IsLeap(y + 1))
      /\ (d + 1) + 2472632 = DaysBefore(z) + ea /\ ea <= 365 /\ (ea = 365 => IsLeap(z + 1))
  BY SMT DEF LiesIn
<1>2. /\ DaysBefore(y) \in Int /\ DaysBefore(y + 1) = DaysBefore(y) + (IF IsLeap(y + 1) THEN 366 ELSE 365)
      /\ DaysBefore(z) \in Int /\ DaysBefore(z + 1) = DaysBefore(z) + (IF IsLeap(z + 1) THEN 366 ELSE 365)
  BY YearLength
<1>3. CASE z < y
  BY <1>1, <1>2, <1>3, YearsInOrder
<1>4. CASE z = y
  BY <1>1, <1>2, <1>4, SMT
<1>5. CASE z = y + 1
  BY <1>1, <1>2, <1>5, SMT
<1>6. CASE z > y + 1
  <2>1. (y + 1) + 1 \in Nat /\ (y + 1) + 1 <= z /\ y + 1 \in Nat
    BY <1>6, SMT
  <2>2. DaysBefore((y + 1) + 1) <= DaysBefore(z)
    BY <2>1, YearsInOrder
  <2>3. DaysBefore((y + 1) + 1) >= DaysBefore(y + 1) + 365 /\ DaysBefore(y + 1) \in Int
    BY <2>1, YearLength, SMT
  <2>4. DaysBefore(y + 1) >= DaysBefore(y) + 365
    BY <1>2, SMT
  <2>5. DaysBefore(z) >= DaysBefore(y) + 730 /\ DaysBefore(z) \in Int /\ DaysBefore(y) \in Int
    BY <1>2, <2>1, <2>2, <2>3, <2>4, YearLength, SMT
  <2> QED
    BY <1>1, <2>5, SMT
<1> QED
  BY <1>3, <1>4, <1>5, <1>6, SMT

(* A day lies in its month, and the months have their lengths. *)
LEMMA MonthTable ==
    ASSUME NEW da \in Nat, da <= 365
    PROVE  MonthOf(da) \in 0..11 /\ Start(MonthOf(da)) <= da /\ da < Start(MonthOf(da) + 1)
BY SMT DEF MonthOf, Start

LEMMA MonthLength ==
    ASSUME NEW m \in Nat, m <= 10, NEW year
    PROVE  /\ Start(m) \in Int /\ Start(m + 1) \in Int
           /\ Start(m + 1) - Start(m) = DaysIn(((m + 2) % 12) + 1, year)
<1>1. m \in {0, 1, 2, 3, 4, 5, 6, 7, 8, 9, 10}
  BY SMT
<1> QED
  BY <1>1, SMT DEF Start, DaysIn

LEMMA MonthOfStart ==
    ASSUME NEW da \in Nat, da <= 365, NEW m \in 0..11, Start(m) <= da, da < Start(m + 1)
    PROVE  MonthOf(da) = m
BY SMT DEF MonthOf, Start

(* The day after one that does not end its month, and after one that does. *)
LEMMA WithinMonth ==
    ASSUME NEW date, date.day # DaysIn(date.month, date.year)
    PROVE  DayAfter(date) = [weekday |-> WeekdayAfter[date.weekday], day |-> date.day + 1,
                             month |-> date.month, year |-> date.year]
BY Zenon DEF DayAfter

LEMMA EndOfMonth ==
    ASSUME NEW date, date.day = DaysIn(date.month, date.year)
    PROVE  DayAfter(date) = [weekday |-> WeekdayAfter[date.weekday], day |-> 1,
                             month |-> IF date.month = 12 THEN 1 ELSE date.month + 1,
                             year |-> IF date.month = 12 THEN date.year + 1 ELSE date.year]
BY Zenon DEF DayAfter

(* The next day of the same year. *)
LEMMA DayAfterInYear ==
    ASSUME NEW y \in Nat, y >= 4800, NEW da \in Nat, da + 1 <= 365, da + 1 = 365 => IsLeap(y + 1),
           NEW weekday
    PROVE  DayAfter(DayOfYear(y, da, weekday)) = DayOfYear(y, da + 1, WeekdayAfter[weekday])
<1>1. PICK m : m = MonthOf(da)
  OBVIOUS
<1>2. PICK date : date = DayOfYear(y, da, weekday)
  OBVIOUS
<1>3. PICK n : n = MonthOf(da + 1)
  OBVIOUS
<1>4. m \in 0..11 /\ Start(m) <= da /\ da < Start(m + 1)
  BY <1>1, MonthTable, SMT
<1>5. /\ date.weekday = weekday /\ date.year = (y - 4800) + ((m + 2) \div 12)
      /\ date.month = ((m + 2) % 12) + 1 /\ date.day = (da - Start(m)) + 1
  BY <1>1, <1>2 DEF DayOfYear
<1>6. DayOfYear(y, da + 1, WeekdayAfter[weekday]) =
          [weekday |-> WeekdayAfter[weekday], day |-> ((da + 1) - Start(n)) + 1,
           month |-> ((n + 2) % 12) + 1, year |-> (y - 4800) + ((n + 2) \div 12)]
  BY <1>3 DEF DayOfYear
<1>7. \A k \in 0..11 : Start(k) <= da + 1 /\ da + 1 < Start(k + 1) => n = k
  BY <1>3, MonthOfStart, SMT
<1>8. CASE m # 11
  <2>1. m \in Nat /\ m <= 10
    BY <1>4, <1>8, SMT
  <2>2. /\ Start(m) \in Int /\ Start(m + 1) \in Int
        /\ Start(m + 1) - Start(m) = DaysIn(date.month, date.year)
    <3>1. PICK year : year = date.year
      OBVIOUS
    <3>2. /\ Start(m) \in Int /\ Start(m + 1) \in Int
          /\ Start(m + 1) - Start(m) = DaysIn(((m + 2) % 12) + 1, year)
      BY <2>1, MonthLength
    <3> QED
      BY <1>5, <3>1, <3>2
  <2>3. CASE da + 1 < Start(m + 1)
    <3>1. n = m
      BY <1>4, <1>7, <2>1, <2>2, <2>3, SMT
    <3>2. date.day # DaysIn(date.month, date.year)
      BY <1>5, <2>2, <2>3, SMT
    <3>3. ((da + 1) - Start(n)) + 1 = date.day + 1
      BY <1>5, <2>2, <3>1, SMT
    <3> QED
      BY <1>2, <1>5, <1>6, <3>1, <3>2, <3>3, WithinMonth
  <2>4. CASE da + 1 = Start(m + 1)
    <3>1. n = m + 1
      BY <1>7, <2>1, <2>2, <2>4, SMT DEF Start
    <3>2. date.day = DaysIn(date.month, date.year)
      BY <1>5, <2>2, <2>4, SMT
    <3>3. ((n + 2) % 12) + 1 = IF date.month = 12 THEN 1 ELSE date.month + 1
      BY <1>5, <2>1, <3>1, SMT
    <3>4. (y - 4800) + ((n + 2) \div 12) = IF date.month = 12 THEN date.year + 1 ELSE date.year
      BY <1>5, <2>1, <3>1, SMT
    <3>5. ((da + 1) - Start(n)) + 1 = 1
      BY <2>2, <2>4, <3>1, SMT
    <3> QED
      BY <1>2, <1>5, <1>6, <3>2, <3>3, <3>4, <3>5, EndOfMonth
  <2> QED
    BY <1>4, <2>2, <2>3, <2>4, SMT
<1>9. CASE m = 11
  <2>1. Start(11) = 337 /\ Start(11 + 1) = 367
    BY SMT DEF Start
  <2>2. n = 11
    BY <1>4, <1>7, <1>9, <2>1, SMT
  <2>3. date.month = 2 /\ date.year = (y + 1) - 4800 /\ date.day = da - 336
    BY <1>5, <1>9, <2>1, SMT
  <2>4. IsLeap(date.year) <=> IsLeap(y + 1)
    BY <2>3, SMT DEF IsLeap
  <2>5. date.day # DaysIn(date.month, date.year)
    BY <1>4, <1>9, <2>1, <2>3, <2>4, SMT DEF DaysIn
  <2>6. ((da + 1) - Start(n)) + 1 = date.day + 1 /\ ((n + 2) % 12) + 1 = date.month
    BY <2>1, <2>2, <2>3, SMT
  <2> QED
    BY <1>2, <1>5, <1>6, <1>9, <2>2, <2>5, <2>6, WithinMonth
<1> QED
  BY <1>8, <1>9

(* The last day of such a year is the last of February. *)
LEMMA DayAfterYear ==
    ASSUME NEW y \in Nat, y >= 4800, NEW da, da = IF IsLeap(y + 1) THEN 365 ELSE 364, NEW weekday
    PROVE  DayAfter(DayOfYear(y, da, weekday)) = DayOfYear(y + 1, 0, WeekdayAfter[weekday])
<1>1. PICK date : date = DayOfYear(y, da, weekday)
  OBVIOUS
<1>2. MonthOf(da) = 11 /\ MonthOf(0) = 0 /\ Start(11) = 337 /\ Start(0) = 0
  BY SMT DEF MonthOf, Start
<1>3. date.weekday = weekday /\ date.year = (y + 1) - 4800 /\ date.month = 2 /\ date.day = da - 336
  BY <1>1, <1>2 DEF DayOfYear
<1>4. IsLeap(date.year) <=> IsLeap(y + 1)
  BY <1>3, SMT DEF IsLeap
<1>5. date.day = DaysIn(date.month, date.year)
  BY <1>3, <1>4, SMT DEF DaysIn
<1>6. ((y + 1) - 4800) + ((0 + 2) \div 12) = date.year /\ ((0 + 2) % 12) + 1 = date.month + 1 /\ (0 - 0) + 1 = 1
  BY <1>3, SMT
<1>7. DayOfYear(y + 1, 0, WeekdayAfter[weekday]) =
          [weekday |-> WeekdayAfter[weekday], year |-> date.year, month |-> date.month + 1, day |-> 1]
  BY <1>2, <1>6 DEF DayOfYear
<1>8. date.month # 12
  BY <1>3, SMT
<1> QED
  BY <1>1, <1>3, <1>5, <1>7, <1>8, EndOfMonth

LEMMA WeekdayFollows ==
    ASSUME NEW d \in Nat
    PROVE  Weekdays[((d + 1) % 7) + 1] = WeekdayAfter[Weekdays[(d % 7) + 1]]
<1>1. d % 7 \in {0, 1, 2, 3, 4, 5, 6}
  BY SMT
<1>2. (d + 1) % 7 = IF d % 7 = 6 THEN 0 ELSE (d % 7) + 1
  BY SMT
<1> QED
  BY <1>1, <1>2, SMT DEF Weekdays, WeekdayAfter

LEMMA DatesRight ==
    ASSUME NEW d \in Nat
    PROVE  DateOf(d + 1) = DayAfter(DateOf(d))
<1>1. PICK y \in Nat, da \in Nat :
          LiesIn(d, y, da) /\ DateOf(d) = DayOfYear(y, da, Weekdays[(d % 7) + 1])
  BY DateSplit
<1>2. PICK z \in Nat, ea \in Nat :
          LiesIn(d + 1, z, ea) /\ DateOf(d + 1) = DayOfYear(z, ea, Weekdays[((d + 1) % 7) + 1])
  <2>1. d + 1 \in Nat
    BY SMT
  <2> QED
    BY <2>1, DateSplit
<1>3. y >= 4800
  BY <1>1, SMT DEF LiesIn, DaysBefore
<1>4. CASE z = y /\ ea = da + 1
  BY <1>1, <1>2, <1>3, <1>4, DayAfterInYear, WeekdayFollows, SMT DEF LiesIn
<1>5. CASE z = y + 1 /\ ea = 0 /\ da = IF IsLeap(y + 1) THEN 365 ELSE 364
  BY <1>1, <1>2, <1>3, <1>5, DayAfterYear, WeekdayFollows, SMT
<1> QED
  BY <1>1, <1>2, <1>4, <1>5, NextInYear, SMT

LEMMA FirstDay == DateOf(0) = [weekday |-> "Thu", day |-> 1, month |-> 1, year |-> 1970]
BY SMT DEF DateOf, Weekdays

-----------------------------------------------------------------------------
(* Lifetimes. *)
LEMMA InWord ==
    ASSUME NEW x \in Nat, NEW w \in Nat, w # 0
    PROVE  x % w = x <=> x < w
<1>1. x % w \in Nat /\ x % w < w
  OBVIOUS
<1>2. x < w => x % w = x
  OBVIOUS
<1> QED
  BY <1>1, <1>2

LEMMA LifetimeRight ==
    ASSUME NEW e \in Lifetimes
    PROVE  IF e.unit = "at"
           THEN Timestamp(e) = e.n /\ Seconds(e) \in 0..e.n /\ (Seconds(e) = 0 \/ Now + Seconds(e) = e.n)
           ELSE /\ Seconds(e) = e.n * UnitSeconds[e.unit] <=> e.n * UnitSeconds[e.unit] < WordSize
                /\ e.n * UnitSeconds[e.unit] < WordSize =>
                       (Timestamp(e) = Now + e.n * UnitSeconds[e.unit] <=> Now + e.n * UnitSeconds[e.unit] < WordSize)
<1>1. Now \in Nat /\ WordSize \in Nat /\ WordSize # 0
  BY ClockAssumption
<1>2. e.n \in Nat /\ e.unit \in DOMAIN UnitSeconds \cup {"at"}
  BY <1>1, LifetimesAssumption
<1>3. CASE e.unit = "at"
  BY <1>1, <1>2, <1>3 DEF Timestamp, Seconds, SecondsUntil
<1>4. CASE e.unit # "at"
  <2>1. UnitSeconds[e.unit] \in Nat
    BY <1>2, <1>4 DEF UnitSeconds
  <2>2. PICK asked \in Nat : asked = e.n * UnitSeconds[e.unit]
    BY <1>2, <2>1
  <2>3. Seconds(e) = asked % WordSize /\ Timestamp(e) = (Now + Seconds(e)) % WordSize
    BY <1>4, <2>2, Zenon DEF Timestamp, Seconds
  <2>4. Seconds(e) = asked <=> asked < WordSize
    BY <1>1, <2>3, InWord
  <2>5. asked < WordSize => (Timestamp(e) = Now + asked <=> Now + asked < WordSize)
    BY <1>1, <2>3, <2>4, InWord
  <2> QED
    BY <1>4, <2>2, <2>4, <2>5, Zenon
<1> QED
  BY <1>3, <1>4

-----------------------------------------------------------------------------
(* Forms. *)

(* A text lies in another, behind a position. *)
LiesAt(s, at, w) == \A i \in 1..Len(w) : s[at + i] = w[i]

LEMMA LiesParts ==
    ASSUME NEW T, NEW u \in Seq(T), NEW v \in Seq(T), NEW w, w = u \o v, NEW at \in Nat, NEW s, LiesAt(s, at, w)
    PROVE  /\ w \in Seq(T) /\ Len(w) = Len(u) + Len(v) /\ Len(u) \in Nat /\ Len(v) \in Nat
           /\ LiesAt(s, at, u) /\ LiesAt(s, at + Len(u), v)
<1>1. /\ w \in Seq(T) /\ Len(w) = Len(u) + Len(v)
      /\ \A i \in 1..(Len(u) + Len(v)) : w[i] = IF i <= Len(u) THEN u[i] ELSE v[i - Len(u)]
  BY ConcatProperties
<1>2. Len(u) \in Nat /\ Len(v) \in Nat
  BY LenProperties
<1>3. ASSUME NEW i \in 1..Len(u) PROVE s[at + i] = u[i]
  BY <1>1, <1>2 DEF LiesAt
<1>4. ASSUME NEW i \in 1..Len(v) PROVE s[(at + Len(u)) + i] = v[i]
  <2>1. Len(u) + i \in 1..Len(w) /\ ~(Len(u) + i <= Len(u)) /\ (Len(u) + i) - Len(u) = i
    BY <1>1, <1>2
  <2>2. at + (Len(u) + i) = (at + Len(u)) + i
    BY <1>2
  <2>3. w[Len(u) + i] = v[i]
    BY <1>1, <2>1
  <2>4. s[at + (Len(u) + i)] = w[Len(u) + i]
    BY <2>1 DEF LiesAt
  <2> QED
    BY <2>2, <2>3, <2>4
<1> QED
  BY <1>1, <1>2, <1>3, <1>4 DEF LiesAt

Holds(s, a, w, b) ==
    /\ s \in Seq(Token) /\ Len(s) = Len(a) + Len(w) + Len(b) /\ Len(a) \in Nat /\ Len(w) \in Nat /\ Len(b) \in Nat
    /\ LiesAt(s, 0, a) /\ LiesAt(s, Len(a), w) /\ LiesAt(s, Len(a) + Len(w), b)

LEMMA LiesWithin ==
    ASSUME NEW a \in Seq(Token), NEW w \in Seq(Token), NEW b \in Seq(Token), NEW s, s = a \o w \o b
    PROVE  Holds(s, a, w, b)
<1>1. /\ s \in Seq(Token) /\ Len(s) = Len(a) + Len(w) + Len(b)
      /\ Len(a) \in Nat /\ Len(w) \in Nat /\ Len(b) \in Nat
      /\ \A i \in 1..Len(a) : s[i] = a[i]
      /\ \A i \in 1..Len(w) : s[Len(a) + i] = w[i]
      /\ \A i \in 1..Len(b) : s[Len(a) + Len(w) + i] = b[i]
  BY ThreeParts
<1>2. LiesAt(s, 0, a)
  BY <1>1 DEF LiesAt
<1>3. LiesAt(s, Len(a), w) /\ LiesAt(s, Len(a) + Len(w), b)
  BY <1>1, Zenon DEF LiesAt
<1> QED
  BY <1>1, <1>2, <1>3, Zenon DEF Holds

LEMMA LiesSame ==
    ASSUME NEW T, NEW s \in Seq(T), NEW w \in Seq(T), NEW at \in Nat, at + Len(w) <= Len(s), LiesAt(s, at, w)
    PROVE  SubSeq(s, at + 1, at + Len(w)) = w
<1>1. Len(w) \in Nat /\ Len(s) \in Nat
  BY LenProperties
<1>2. PICK m, n : m = at + 1 /\ n = at + Len(w)
  OBVIOUS
<1>3. m \in Int /\ n \in Int /\ m >= 1 /\ n <= Len(s) /\ n - m + 1 = Len(w)
  BY <1>1, <1>2
<1>4. \A i \in m..n : s[i] \in T
  BY <1>1, <1>3, ElementOfSeq
<1>5. PICK q : q = SubSeq(s, m, n)
  OBVIOUS
<1>6. /\ q \in Seq(T) /\ Len(q) = IF m <= n THEN n - m + 1 ELSE 0
      /\ \A i \in 1..(n - m + 1) : q[i] = s[m + i - 1]
  BY <1>3, <1>4, <1>5, SubSeqProperties
<1>7. Len(q) = Len(w)
  BY <1>1, <1>3, <1>6
<1>8. ASSUME NEW i \in 1..Len(w) PROVE q[i] = w[i]
  <2>1. m + i - 1 = at + i
    BY <1>1, <1>2
  <2> QED
    BY <1>3, <1>6, <2>1 DEF LiesAt
<1> QED
  BY <1>2, <1>5, <1>6, <1>7, <1>8, SeqEqual

(* Where two tokens stand side by side for the first time. *)
StandAt(s, i, x, y) == SubSeq(s, i, i + 1) = <<x, y>> <=> s[i] = x /\ s[i + 1] = y

LEMMA SideBySide ==
    ASSUME NEW T, NEW s \in Seq(T), NEW x, NEW y, NEW i \in 1..(Len(s) - 1)
    PROVE  StandAt(s, i, x, y)
<1>1. Len(s) \in Nat /\ i \in Int /\ i + 1 \in Int /\ i + 1 - i + 1 = 2 /\ i + 1 - 1 = i /\ i + 2 - 1 = i + 1 /\ i <= i + 1
  BY LenProperties
<1>2. \A k \in i..(i + 1) : s[k] \in T
  BY <1>1, ElementOfSeq
<1>3. PICK q : q = SubSeq(s, i, i + 1)
  OBVIOUS
<1>4. q \in Seq(T) /\ Len(q) = 2 /\ \A k \in 1..2 : q[k] = s[i + k - 1]
  BY <1>1, <1>2, <1>3, SubSeqProperties
<1>5. q[1] = s[i] /\ q[2] = s[i + 1]
  BY <1>1, <1>4
<1>6. q = <<x, y>> => q[1] = x /\ q[2] = y
  OBVIOUS
<1>7. ASSUME q[1] = x, q[2] = y PROVE q = <<x, y>>
  <2>1. x \in T /\ y \in T
    BY <1>4, <1>7, ElementOfSeq
  <2>2. <<x, y>> \in Seq(T) /\ Len(<<x, y>>) = 2 /\ <<x, y>>[1] = x /\ <<x, y>>[2] = y
    BY <2>1
  <2>3. \A k \in 1..2 : q[k] = <<x, y>>[k]
    BY <1>7, <2>2
  <2> QED
    BY <1>4, <2>2, <2>3, SeqEqual
<1> QED
  BY <1>3, <1>5, <1>6, <1>7 DEF StandAt

NoPair(s, x, y, from, to) == \A i \in from..(to - 1) : ~(s[i] = x /\ s[i + 1] = y)

LEMMA PairAt ==
    ASSUME NEW T, NEW s \in Seq(T), NEW x, NEW y, NEW from \in Nat, from >= 1
    PROVE  /\ \A m \in Nat : from <= m /\ m + 1 <= Len(s) /\ s[m] = x /\ s[m + 1] = y /\ NoPair(s, x, y, from, m)
                             => FirstAt(<<x, y>>, s, from) = m
           /\ NoPair(s, x, y, from, Len(s)) => FirstAt(<<x, y>>, s, from) = 0
           /\ FirstAt(<<x, y>>, s, from) # 0 =>
                  \E m \in from..(Len(s) - 1) : FirstAt(<<x, y>>, s, from) = m /\ s[m] = x /\ s[m + 1] = y
<1>1. Len(s) \in Nat /\ Len(<<x, y>>) = 2
  BY LenProperties
<1>2. PICK places : places = {i \in from..(Len(s) - Len(<<x, y>>) + 1) : SubSeq(s, i, i + Len(<<x, y>>) - 1) = <<x, y>>}
  OBVIOUS
<1>3. places = {i \in from..(Len(s) - 1) : s[i] = x /\ s[i + 1] = y}
  <2>1. Len(s) - Len(<<x, y>>) + 1 = Len(s) - 1
    BY <1>1
  <2>2. ASSUME NEW i \in from..(Len(s) - 1)
        PROVE  SubSeq(s, i, i + Len(<<x, y>>) - 1) = <<x, y>> <=> s[i] = x /\ s[i + 1] = y
    <3>1. i + Len(<<x, y>>) - 1 = i + 1 /\ i \in 1..(Len(s) - 1)
      BY <1>1
    <3>2. StandAt(s, i, x, y)
      BY <3>1, SideBySide
    <3> QED
      BY <3>1, <3>2, Zenon DEF StandAt
  <2> QED
    BY <1>2, <2>1, <2>2
<1>4. FirstAt(<<x, y>>, s, from) = IF places = {} THEN 0 ELSE Min(places)
  BY <1>2, Zenon DEF FirstAt
<1>5. ASSUME NEW m \in Nat, from <= m, m + 1 <= Len(s), s[m] = x, s[m + 1] = y, NoPair(s, x, y, from, m)
      PROVE  FirstAt(<<x, y>>, s, from) = m
  <2>1. m \in places /\ places \in SUBSET Int /\ \A i \in places : m <= i
    BY <1>1, <1>3, <1>5 DEF NoPair
  <2>2. Min(places) = m
    BY <2>1, LeastIs
  <2> QED
    BY <1>4, <2>1, <2>2
<1>6. ASSUME NoPair(s, x, y, from, Len(s)) PROVE FirstAt(<<x, y>>, s, from) = 0
  BY <1>3, <1>4, <1>6 DEF NoPair
<1>7. ASSUME FirstAt(<<x, y>>, s, from) # 0
      PROVE  \E m \in from..(Len(s) - 1) : FirstAt(<<x, y>>, s, from) = m /\ s[m] = x /\ s[m + 1] = y
  <2>1. places # {}
    BY <1>4, <1>7
  <2>2. \E m \in places : \A i \in places : m <= i
    <3>1. places \in SUBSET Nat /\ places # {}
      BY <1>3, <2>1
    <3>2. PICK m \in places : \A i \in places : <<i, m>> \notin OpToRel(<, Nat)
      BY <3>1, NatLessThanWellFounded, WFMin
    <3>3. \A i \in places : ~(i < m)
      BY <3>1, <3>2, Zenon DEF OpToRel
    <3> QED
      BY <3>1, <3>3
  <2>3. PICK m \in places : \A i \in places : m <= i
    BY <2>2
  <2>4. places \in SUBSET Int
    BY <1>3
  <2>5. Min(places) = m
    BY <2>3, <2>4, LeastIs
  <2> QED
    BY <1>3, <1>4, <2>1, <2>3, <2>5
<1> QED
  BY <1>5, <1>6, <1>7

LEMMA MarksAre ==
    /\ Marks \subseteq Token /\ Space \in Token /\ Semicolon \in Token
    /\ Delimiter \in Token /\ Hyphens \in Token /\ CrLf \in Token /\ Quote \in Token /\ Disposition \in Token
    /\ ContentType \in Token /\ NameKey \in Token /\ FileKey \in Token /\ FormData \in Token /\ FileName \in Token
BY Zenon DEF Marks, Token

LEMMA MarksDiffer ==
    /\ CrLf # Delimiter /\ CrLf # Hyphens /\ Hyphens # Delimiter
    /\ Disposition # CrLf /\ Space # CrLf /\ FormData # CrLf /\ Semicolon # CrLf /\ NameKey # CrLf
    /\ Quote # CrLf /\ FileKey # CrLf /\ FileName # CrLf /\ ContentType # CrLf
    /\ Disposition # ContentType
    /\ FormData # Space /\ Quote # Space /\ NameKey # Space /\ FileKey # Space /\ FileName # Space
    /\ FormData # Semicolon /\ Quote # Semicolon /\ NameKey # Semicolon /\ FileKey # Semicolon /\ FileName # Semicolon
    /\ NameKey # FileKey /\ FormData # NameKey /\ FormData # FileKey /\ Quote # NameKey /\ Quote # FileKey
    /\ Space # NameKey /\ Space # FileKey /\ FileName # NameKey /\ Semicolon # NameKey
BY Zenon DEF Delimiter, Hyphens, CrLf, Quote, Disposition, ContentType, NameKey, FileKey, FormData, FileName, Space, Semicolon

(* A part as a client may send it. *)
FormPart == [name : Seq(STRING), file : BOOLEAN, type : Seq(STRING), content : Seq(STRING)]

FilePart(part) == IF part.file THEN <<Semicolon, Space, FileKey>> \o Quoted(<<FileName>>) ELSE <<>>
FirstLine(part) == <<Disposition, Space, FormData, Semicolon, Space, NameKey>> \o Quoted(part.name) \o FilePart(part)
TypeLine(part) == IF part.type = <<>> THEN <<>> ELSE <<CrLf, ContentType, Space>> \o part.type

LEMMA HeadLines == ASSUME NEW part PROVE EncodeHead(part) = FirstLine(part) \o TypeLine(part)
BY Zenon DEF EncodeHead, FirstLine, FilePart, TypeLine

(* Which tokens a part consists of. *)
LEMMA FirstLineOf ==
    ASSUME NEW S, NEW part, part.name \in Seq(S), Disposition \in S, Space \in S, FormData \in S, Semicolon \in S,
           NameKey \in S, Quote \in S, FileKey \in S, FileName \in S
    PROVE  Quoted(part.name) \in Seq(S) /\ FilePart(part) \in Seq(S) /\ FirstLine(part) \in Seq(S)
<1>1. /\ <<Disposition, Space, FormData, Semicolon, Space, NameKey>> \in Seq(S) /\ <<Quote>> \in Seq(S)
      /\ <<Semicolon, Space, FileKey>> \in Seq(S) /\ <<FileName>> \in Seq(S) /\ <<>> \in Seq(S)
  OBVIOUS
<1>2. Quoted(part.name) \in Seq(S) /\ Quoted(<<FileName>>) \in Seq(S)
  BY <1>1, ConcatProperties, Zenon DEF Quoted
<1>3. FilePart(part) \in Seq(S)
  BY <1>1, <1>2, ConcatProperties, Zenon DEF FilePart
<1>4. FirstLine(part) \in Seq(S)
  BY <1>1, <1>2, <1>3, ConcatProperties, Zenon DEF FirstLine
<1> QED
  BY <1>2, <1>3, <1>4

LEMMA PartOf ==
    ASSUME NEW S, NEW part, part.name \in Seq(S), part.type \in Seq(S), part.content \in Seq(S),
           Disposition \in S, Space \in S, FormData \in S, Semicolon \in S, NameKey \in S, Quote \in S,
           FileKey \in S, FileName \in S, ContentType \in S, CrLf \in S, Delimiter \in S
    PROVE  EncodeHead(part) \in Seq(S) /\ EncodePart(part) \in Seq(S)
<1>1. /\ <<CrLf, ContentType, Space>> \in Seq(S) /\ <<Delimiter, CrLf>> \in Seq(S)
      /\ <<CrLf, CrLf>> \in Seq(S) /\ <<CrLf>> \in Seq(S) /\ <<>> \in Seq(S)
  OBVIOUS
<1>2. FirstLine(part) \in Seq(S)
  BY FirstLineOf
<1>3. TypeLine(part) \in Seq(S)
  BY <1>1, ConcatProperties, Zenon DEF TypeLine
<1>4. EncodeHead(part) \in Seq(S)
  BY <1>2, <1>3, HeadLines, ConcatProperties, Zenon
<1>5. EncodePart(part) \in Seq(S)
  BY <1>1, <1>4, ConcatProperties, Zenon DEF EncodePart
<1> QED
  BY <1>4, <1>5

(* Where the pieces of a part lie. *)
Lays(s, at, u, v, w, m, n) ==
    /\ LiesAt(s, at, u) /\ LiesAt(s, at + m, v)
    /\ m \in Nat /\ n \in Nat /\ Len(u) = m /\ Len(v) = n /\ Len(w) = m + n

LEMMA LiesText ==
    ASSUME NEW u \in Seq(Token), NEW v \in Seq(Token), NEW w, w = u \o v, NEW at \in Nat, NEW s, LiesAt(s, at, w),
           NEW m, m = Len(u), NEW n, n = Len(v)
    PROVE  Lays(s, at, u, v, w, m, n)
<1>1. /\ Len(w) = Len(u) + Len(v) /\ Len(u) \in Nat /\ Len(v) \in Nat
      /\ LiesAt(s, at, u) /\ LiesAt(s, at + Len(u), v)
  BY LiesParts
<1> QED
  BY <1>1 DEF Lays

PartLaid(s, at, part, h, c) ==
    /\ s[at + 1] = Delimiter /\ s[at + 2] = CrLf
    /\ LiesAt(s, at + 2, EncodeHead(part))
    /\ s[at + h + 3] = CrLf /\ s[at + h + 4] = CrLf
    /\ LiesAt(s, at + h + 4, part.content)
    /\ s[at + h + c + 5] = CrLf

LEMMA PartLies ==
    ASSUME NEW part \in FormPart, NEW at \in Nat, NEW s, LiesAt(s, at, EncodePart(part))
    PROVE  /\ EncodePart(part) \in Text /\ EncodeHead(part) \in Text /\ part.content \in Text
           /\ \E h, c \in Nat :
                 /\ h = Len(EncodeHead(part)) /\ c = Len(part.content)
                 /\ Len(EncodePart(part)) = h + c + 5 /\ PartLaid(s, at, part, h, c)
<1>1. /\ part.name \in Seq(Token) /\ part.type \in Seq(Token) /\ part.content \in Seq(Token)
      /\ Delimiter \in Token /\ CrLf \in Token
  BY TokensAre, MarksAre DEF FormPart, Text
<1>2. EncodeHead(part) \in Seq(Token) /\ EncodePart(part) \in Seq(Token)
  BY <1>1, MarksAre, PartOf
<1>3. PICK a \in Seq(Token) : a = <<Delimiter, CrLf>> /\ Len(a) = 2 /\ a[1] = Delimiter /\ a[2] = CrLf
  <2>1. <<Delimiter, CrLf>> \in Seq(Token)
    BY <1>1
  <2> QED
    BY <2>1
<1>4. PICK w \in Seq(Token) : w = <<CrLf, CrLf>> /\ Len(w) = 2 /\ w[1] = CrLf /\ w[2] = CrLf
  <2>1. <<CrLf, CrLf>> \in Seq(Token)
    BY <1>1
  <2> QED
    BY <2>1
<1>5. PICK z \in Seq(Token) : z = <<CrLf>> /\ Len(z) = 1 /\ z[1] = CrLf
  <2>1. <<CrLf>> \in Seq(Token)
    BY <1>1
  <2> QED
    BY <2>1
<1>6. PICK head \in Seq(Token) : head = EncodeHead(part)
  BY <1>2
<1>7. PICK content \in Seq(Token) : content = part.content
  BY <1>1
<1>h. PICK h \in Nat : h = Len(head)
  BY LenProperties
<1>c. PICK c \in Nat : c = Len(content)
  BY LenProperties
<1>8. PICK p1 \in Seq(Token) : p1 = a \o head
  BY ConcatProperties
<1>9. PICK p2 \in Seq(Token) : p2 = p1 \o w
  BY ConcatProperties
<1>10. PICK p3 \in Seq(Token) : p3 = p2 \o content
  BY ConcatProperties
<1>11. PICK p4 \in Seq(Token) : p4 = p3 \o z
  BY ConcatProperties
<1>12. p4 = EncodePart(part)
  BY <1>3, <1>4, <1>5, <1>6, <1>7, <1>8, <1>9, <1>10, <1>11, Zenon DEF EncodePart
<1>13. LiesAt(s, at, p4)
  BY <1>12
<1>14. PICK l1 \in Nat, l2 \in Nat, l3 \in Nat : l1 = Len(p1) /\ l2 = Len(p2) /\ l3 = Len(p3)
  BY LenProperties
<1>15. Lays(s, at, p3, z, p4, l3, 1)
  BY <1>5, <1>11, <1>13, <1>14, LiesText
<1>16. LiesAt(s, at, p3)
  BY <1>15 DEF Lays
<1>17. Lays(s, at, p2, content, p3, l2, c)
  BY <1>c, <1>10, <1>14, <1>16, LiesText
<1>18. LiesAt(s, at, p2)
  BY <1>17 DEF Lays
<1>19. Lays(s, at, p1, w, p2, l1, 2)
  BY <1>4, <1>9, <1>14, <1>18, LiesText
<1>20. LiesAt(s, at, p1)
  BY <1>19 DEF Lays
<1>21. Lays(s, at, a, head, p1, 2, h)
  BY <1>3, <1>h, <1>8, <1>20, LiesText
<1>22. /\ l1 = h + 2 /\ l2 = h + 4 /\ l3 = h + c + 4
       /\ Len(p4) = h + c + 5
  BY <1>15, <1>17, <1>19, <1>21 DEF Lays
<1>23. s[at + 1] = Delimiter /\ s[at + 2] = CrLf
  <2>1. 1 \in 1..Len(a) /\ 2 \in 1..Len(a)
    BY <1>3
  <2> QED
    BY <1>3, <1>21, <2>1 DEF LiesAt, Lays
<1>24. s[at + h + 3] = CrLf /\ s[at + h + 4] = CrLf
  <2>1. 1 \in 1..Len(w) /\ 2 \in 1..Len(w)
    BY <1>4
  <2>2. s[(at + l1) + 1] = CrLf /\ s[(at + l1) + 2] = CrLf
    BY <1>4, <1>19, <2>1 DEF LiesAt, Lays
  <2>3. (at + l1) + 1 = at + h + 3 /\ (at + l1) + 2 = at + h + 4
    BY <1>22
  <2> QED
    BY <2>2, <2>3
<1>25. s[at + h + c + 5] = CrLf
  BY <1>5, <1>15, <1>22 DEF LiesAt, Lays
<1>26. LiesAt(s, at + h + 4, part.content)
  BY <1>7, <1>17, <1>22 DEF Lays
<1>27. LiesAt(s, at + 2, EncodeHead(part))
  BY <1>6, <1>21 DEF Lays
<1>28. PartLaid(s, at, part, h, c)
  BY <1>23, <1>24, <1>25, <1>26, <1>27, Zenon DEF PartLaid
<1> QED
  BY <1>2, <1>6, <1>7, <1>h, <1>c, <1>12, <1>22, <1>28 DEF Text

LEMMA SeqOfOnly ==
    ASSUME NEW T, NEW s \in Seq(T), NEW S, \A i \in 1..Len(s) : s[i] \in S
    PROVE  s \in Seq(S)
<1>1. Len(s) \in Nat /\ s \in [1..Len(s) -> T]
  BY LenProperties
<1>2. s \in [1..Len(s) -> S]
  BY <1>1
<1> QED
  BY <1>1, <1>2, IsSeq

NameToken == Token \ {CrLf, Quote, NameKey, FileKey}

LEMMA SentTokens ==
    ASSUME NEW part \in FormPart, NEW delimiter, MayBeSent(part, delimiter)
    PROVE  /\ part.name \in Seq(NameToken) /\ part.type \in Seq(Token \ {CrLf}) /\ Tight(part.type)
           /\ delimiter # Delimiter =>
                 /\ part.name \in Seq(Token \ {delimiter}) /\ part.type \in Seq(Token \ {delimiter})
                 /\ part.content \in Seq(Token \ {delimiter})
<1>1. part.name \in Seq(Token) /\ part.type \in Seq(Token) /\ part.content \in Seq(Token)
  BY TokensAre DEF FormPart, Text
<1>2. /\ \A i \in 1..Len(part.name) : part.name[i] \in Token
      /\ \A i \in 1..Len(part.type) : part.type[i] \in Token
      /\ \A i \in 1..Len(part.content) : part.content[i] \in Token
  BY <1>1, ElementOfSeq
<1>3. part.name \in Seq(NameToken)
  BY <1>1, <1>2, SeqOfOnly DEF MayBeSent, NameToken
<1>4. part.type \in Seq(Token \ {CrLf})
  BY <1>1, <1>2, SeqOfOnly DEF MayBeSent
<1>5. Tight(part.type)
  BY Zenon DEF MayBeSent, Tight
<1>6. ASSUME delimiter # Delimiter
      PROVE  /\ part.name \in Seq(Token \ {delimiter}) /\ part.type \in Seq(Token \ {delimiter})
             /\ part.content \in Seq(Token \ {delimiter})
  BY <1>1, <1>2, <1>6, SeqOfOnly DEF MayBeSent
<1> QED
  BY <1>3, <1>4, <1>5, <1>6

LEMMA FirstLineLies ==
    ASSUME NEW part, part.name \in Seq(NameToken)
    PROVE  /\ FirstLine(part) \in Seq(Token \ {CrLf}) /\ FirstLine(part) \in Seq(Token)
           /\ Len(FirstLine(part)) >= 6 /\ FirstLine(part)[1] = Disposition
<1>1. part.name \in Seq(Token \ {CrLf}) /\ part.name \in Seq(Token)
  BY SeqMonotonic DEF NameToken
<1>2. FirstLine(part) \in Seq(Token \ {CrLf})
  <2>1. PICK S : S = Token \ {CrLf}
    OBVIOUS
  <2>2. /\ Disposition \in S /\ Space \in S /\ FormData \in S /\ Semicolon \in S
        /\ NameKey \in S /\ Quote \in S /\ FileKey \in S /\ FileName \in S
    BY <2>1, MarksAre, MarksDiffer, Zenon
  <2> QED
    BY <1>1, <2>1, <2>2, FirstLineOf
<1>3. /\ FirstLine(part) \in Seq(Token) /\ Quoted(part.name) \in Seq(Token) /\ FilePart(part) \in Seq(Token)
  BY <1>1, MarksAre, FirstLineOf
<1>4. PICK a \in Seq(Token) : a = <<Disposition, Space, FormData, Semicolon, Space, NameKey>> /\ Len(a) = 6 /\ a[1] = Disposition
  <2>1. <<Disposition, Space, FormData, Semicolon, Space, NameKey>> \in Seq(Token)
    BY MarksAre
  <2> QED
    BY <2>1
<1>5. PICK q \in Seq(Token) : q = Quoted(part.name)
  BY <1>3
<1>6. PICK f \in Seq(Token) : f = FilePart(part)
  BY <1>3
<1>7. FirstLine(part) = a \o q \o f
  BY <1>4, <1>5, <1>6, Zenon DEF FirstLine
<1>8. PICK l : l = FirstLine(part)
  OBVIOUS
<1>9. Len(l) = Len(a) + Len(q) + Len(f) /\ Len(q) \in Nat /\ Len(f) \in Nat /\ LiesAt(l, 0, a)
  <2>1. Holds(l, a, q, f)
    BY <1>7, <1>8, LiesWithin
  <2> QED
    BY <2>1, Zenon DEF Holds
<1>10. l[1] = Disposition
  BY <1>4, <1>9 DEF LiesAt
<1> QED
  BY <1>2, <1>3, <1>4, <1>8, <1>9, <1>10

LEMMA TypeLineLies ==
    ASSUME NEW part, part.type \in Seq(Token \ {CrLf}), part.type # <<>>
    PROVE  /\ TypeLine(part) \in Seq(Token) /\ Len(TypeLine(part)) >= 3 /\ TypeLine(part)[1] = CrLf
           /\ \A i \in 2..Len(TypeLine(part)) : TypeLine(part)[i] # CrLf
<1>1. PICK l \in Seq(Token) : l = <<CrLf, ContentType, Space>> /\ Len(l) = 3 /\ l[1] = CrLf /\ l[2] = ContentType /\ l[3] = Space
  <2>1. <<CrLf, ContentType, Space>> \in Seq(Token)
    BY MarksAre
  <2> QED
    BY <2>1
<1>2. PICK t \in Seq(Token) : t = part.type
  BY SeqMonotonic
<1>3. TypeLine(part) = l \o t
  BY <1>1, <1>2, Zenon DEF TypeLine
<1>4. \A i \in 1..Len(t) : t[i] # CrLf
  BY <1>2, ElementOfSeq
<1>5. PICK v : v = TypeLine(part)
  OBVIOUS
<1>6. /\ v \in Seq(Token) /\ Len(v) = Len(l) + Len(t)
      /\ \A i \in 1..(Len(l) + Len(t)) : v[i] = IF i <= Len(l) THEN l[i] ELSE t[i - Len(l)]
  BY <1>3, <1>5, ConcatProperties
<1>7. Len(t) \in Nat
  BY LenProperties
<1>8. ASSUME NEW i \in 2..Len(v) PROVE v[i] # CrLf
  <2>1. CASE i <= 3
    BY <1>1, <1>6, <1>7, <2>1, MarksDiffer
  <2>2. CASE ~(i <= 3)
    BY <1>1, <1>4, <1>6, <1>7, <2>2
  <2> QED
    BY <2>1, <2>2
<1>9. v[1] = CrLf /\ Len(v) >= 3
  BY <1>1, <1>6, <1>7
<1> QED
  BY <1>5, <1>6, <1>8, <1>9

(* No blank line ends a head too early. *)
LEMMA HeadClosed ==
    ASSUME NEW part, part.name \in Seq(NameToken), part.type \in Seq(Token \ {CrLf}), NEW head, head = EncodeHead(part)
    PROVE  /\ head \in Seq(Token) /\ Len(head) >= 1 /\ head[Len(head)] # CrLf
           /\ NoPair(head, CrLf, CrLf, 1, Len(head))
<1>1. PICK u \in Seq(Token) : u = FirstLine(part)
  BY FirstLineLies
<1>2. Len(u) >= 6 /\ Len(u) \in Nat /\ \A i \in 1..Len(u) : u[i] # CrLf
  BY <1>1, FirstLineLies, ElementOfSeq, LenProperties
<1>3. CASE part.type = <<>>
  <2>1. head = u \o <<>>
    BY <1>1, <1>3, HeadLines DEF TypeLine
  <2>2. head = u
    BY <2>1, ConcatEmptySeq
  <2> QED
    BY <1>2, <2>2 DEF NoPair
<1>4. CASE part.type # <<>>
  <2>1. PICK v \in Seq(Token) : v = TypeLine(part)
    BY <1>4, TypeLineLies
  <2>2. Len(v) >= 3 /\ Len(v) \in Nat /\ \A i \in 2..Len(v) : v[i] # CrLf
    BY <1>4, <2>1, TypeLineLies, LenProperties
  <2>3. head = u \o v
    BY <1>1, <2>1, HeadLines
  <2>4. /\ head \in Seq(Token) /\ Len(head) = Len(u) + Len(v)
        /\ \A i \in 1..(Len(u) + Len(v)) : head[i] = IF i <= Len(u) THEN u[i] ELSE v[i - Len(u)]
    BY <2>3, ConcatProperties
  <2>5. ASSUME NEW i \in 1..Len(head), i # Len(u) + 1 PROVE head[i] # CrLf
    <3>1. CASE i <= Len(u)
      BY <1>2, <2>4, <3>1
    <3>2. CASE ~(i <= Len(u))
      <4>1. i - Len(u) \in 2..Len(v) /\ head[i] = v[i - Len(u)]
        BY <1>2, <2>2, <2>4, <2>5, <3>2
      <4> QED
        BY <2>2, <4>1
    <3> QED
      BY <3>1, <3>2
  <2>6. Len(head) \in 1..Len(head) /\ Len(head) # Len(u) + 1
    BY <1>2, <2>2, <2>4
  <2>7. ASSUME NEW i \in 1..(Len(head) - 1) PROVE ~(head[i] = CrLf /\ head[i + 1] = CrLf)
    BY <1>2, <2>2, <2>4, <2>5
  <2> QED
    BY <2>4, <2>5, <2>6, <2>7 DEF NoPair
<1> QED
  BY <1>3, <1>4

(* The first parts of a form, as they are sent. *)
Blocks(form, k) == [i \in 1..k |-> EncodePart(form[i])]
Flat(form, k) == FlattenSeq(Blocks(form, k))
Offset(form, k) == Len(Flat(form, k))

LEMMA BlocksType ==
    ASSUME NEW S, NEW form, NEW k \in Nat, \A i \in 1..k : EncodePart(form[i]) \in Seq(S)
    PROVE  Blocks(form, k) \in Seq(Seq(S)) /\ Len(Blocks(form, k)) = k /\ Flat(form, k) \in Seq(S)
<1>1. Blocks(form, k) \in [1..k -> Seq(S)]
  BY DEF Blocks
<1>2. Blocks(form, k) \in Seq(Seq(S)) /\ Len(Blocks(form, k)) = k
  BY <1>1, IsSeq
<1>3. Flat(form, k) \in Seq(S)
  BY <1>2, FlattenAppend DEF Flat
<1> QED
  BY <1>2, <1>3

LEMMA FlatNext ==
    ASSUME NEW form \in Seq(FormPart), NEW k \in Nat, k + 1 <= Len(form)
    PROVE  /\ Flat(form, k) \in Seq(Token) /\ EncodePart(form[k + 1]) \in Seq(Token)
           /\ Flat(form, k + 1) = Flat(form, k) \o EncodePart(form[k + 1])
<1>1. ASSUME NEW i \in 1..(k + 1) PROVE EncodePart(form[i]) \in Seq(Token)
  <2>1. form[i] \in FormPart
    BY ElementOfSeq, LenProperties
  <2>2. form[i].name \in Seq(Token) /\ form[i].type \in Seq(Token) /\ form[i].content \in Seq(Token)
    BY <2>1, TokensAre DEF FormPart, Text
  <2> QED
    BY <2>2, MarksAre, PartOf
<1>2. \A i \in 1..k : EncodePart(form[i]) \in Seq(Token)
  BY <1>1
<1>3. PICK s \in Seq(Seq(Token)) : s = Blocks(form, k) /\ Len(s) = k /\ Flat(form, k) = FlattenSeq(s)
  BY <1>2, BlocksType DEF Flat
<1>4. PICK x \in Seq(Token) : x = EncodePart(form[k + 1])
  BY <1>1
<1>5. PICK f : f = Blocks(form, k + 1)
  OBVIOUS
<1>6. f = Append(s, x)
  <2>1. f = [i \in 1..(k + 1) |-> EncodePart(form[i])] /\ s = [i \in 1..k |-> EncodePart(form[i])]
    BY <1>3, <1>5 DEF Blocks
  <2>2. (\A i \in 1..k : f[i] = s[i]) /\ f[k + 1] = x
    BY <1>4, <2>1
  <2>3. f = [i \in 1..(k + 1) |-> f[i]]
    BY <2>1
  <2>4. Grown(f, s, x)
    BY <1>3, <2>2, <2>3 DEF Grown
  <2> QED
    BY <2>4, GrownBy
<1>7. FlattenSeq(Append(s, x)) = FlattenSeq(s) \o x
  BY FlattenAppend
<1> QED
  BY <1>2, <1>3, <1>4, <1>5, <1>6, <1>7, BlocksType DEF Flat

LEMMA FlatNone == ASSUME NEW form PROVE Flat(form, 0) = <<>> /\ Offset(form, 0) = 0
<1>1. Blocks(form, 0) = <<>>
  BY IsSeq, EmptySeq DEF Blocks
<1>2. FlattenSeq(<<>>) = <<>>
  BY FlattenAppend
<1> QED
  BY <1>1, <1>2, EmptySeq DEF Flat, Offset

LEMMA FlatType ==
    ASSUME NEW form \in Seq(FormPart), NEW k \in 0..Len(form)
    PROVE  Flat(form, k) \in Seq(Token) /\ Offset(form, k) \in Nat
<1>1. k \in Nat /\ Len(form) \in Nat
  BY LenProperties
<1>2. Flat(form, k) \in Seq(Token)
  <2>1. CASE k = 0
    BY <2>1, FlatNone, EmptySeq
  <2>2. CASE k # 0
    <3>1. k - 1 \in Nat /\ (k - 1) + 1 <= Len(form) /\ (k - 1) + 1 = k
      BY <1>1, <2>2
    <3>2. Flat(form, (k - 1) + 1) = Flat(form, k - 1) \o EncodePart(form[(k - 1) + 1])
      BY <3>1, FlatNext
    <3>3. Flat(form, k - 1) \in Seq(Token) /\ EncodePart(form[(k - 1) + 1]) \in Seq(Token)
      BY <3>1, FlatNext
    <3>4. Flat(form, k - 1) \o EncodePart(form[(k - 1) + 1]) \in Seq(Token)
      BY <3>3, ConcatProperties
    <3> QED
      BY <3>1, <3>2, <3>4
  <2> QED
    BY <2>1, <2>2
<1>3. Offset(form, k) \in Nat
  BY <1>2, LenProperties DEF Offset
<1> QED
  BY <1>2, <1>3

(* The parts before a part are a beginning of all of them. *)
Begins(s, a) == s \in Seq(Token) /\ \E r \in Seq(Token) : s = a \o r

LEMMA BeginsMore ==
    ASSUME NEW s, NEW a \in Seq(Token), Begins(s, a), NEW p \in Seq(Token)
    PROVE  Begins(s \o p, a)
<1>1. PICK r \in Seq(Token) : s = a \o r
  BY DEF Begins
<1>2. r \o p \in Seq(Token) /\ s \o p \in Seq(Token)
  BY ConcatProperties DEF Begins
<1>3. (a \o r) \o p = a \o (r \o p)
  BY Grouping DEF Text, Grouped
<1> QED
  BY <1>1, <1>2, <1>3 DEF Begins

LEMMA BeginsItself == ASSUME NEW a \in Seq(Token) PROVE Begins(a, a)
<1>1. a \o <<>> = a /\ <<>> \in Seq(Token)
  BY ConcatEmptySeq, EmptySeq
<1> QED
  BY <1>1 DEF Begins

LEMMA BeginsLies ==
    ASSUME NEW a \in Seq(Token), NEW s, Begins(s, a)
    PROVE  LiesAt(s, 0, a) /\ Len(a) <= Len(s)
<1>1. PICK r \in Seq(Token) : s = a \o r
  BY DEF Begins
<1>2. /\ Len(s) = Len(a) + Len(r) /\ Len(a) \in Nat /\ Len(r) \in Nat
      /\ \A i \in 1..(Len(a) + Len(r)) : s[i] = IF i <= Len(a) THEN a[i] ELSE r[i - Len(a)]
  BY <1>1, ConcatProperties, LenProperties
<1>3. ASSUME NEW i \in 1..Len(a) PROVE s[0 + i] = a[i]
  BY <1>2
<1>4. LiesAt(s, 0, a)
  BY <1>3 DEF LiesAt
<1> QED
  BY <1>2, <1>4

LEMMA FlatBegins ==
    ASSUME NEW form \in Seq(FormPart), NEW k \in 0..Len(form)
    PROVE  \A j \in k..Len(form) : Begins(Flat(form, j), Flat(form, k))
<1> DEFINE good == {j \in Nat : j \in k..Len(form) => Begins(Flat(form, j), Flat(form, k))}
<1>1. Len(form) \in Nat /\ k \in Nat
  BY LenProperties
<1>2. Flat(form, k) \in Seq(Token)
  BY FlatType
<1>3. Begins(Flat(form, k), Flat(form, k))
  BY <1>2, BeginsItself
<1>4. 0 \in good
  BY <1>1, <1>3
<1>5. ASSUME NEW j \in Nat, j \in good PROVE j + 1 \in good
  <2> SUFFICES ASSUME j + 1 \in k..Len(form) PROVE Begins(Flat(form, j + 1), Flat(form, k))
    OBVIOUS
  <2>1. CASE j + 1 = k
    BY <1>3, <2>1
  <2>2. CASE j + 1 # k
    <3>1. j \in k..Len(form) /\ j + 1 <= Len(form)
      BY <1>1, <2>2
    <3>2. Begins(Flat(form, j), Flat(form, k))
      BY <1>5, <3>1
    <3>3. /\ EncodePart(form[j + 1]) \in Seq(Token)
          /\ Flat(form, j + 1) = Flat(form, j) \o EncodePart(form[j + 1])
      BY <3>1, FlatNext
    <3> QED
      BY <1>2, <3>2, <3>3, BeginsMore
  <2> QED
    BY <2>1, <2>2
<1>6. \A j \in Nat : j \in good
  <2> HIDE DEF good
  <2> QED
    BY <1>4, <1>5, SetInduction
<1> QED
  BY <1>1, <1>6

LEMMA EncodedForm ==
    ASSUME NEW form \in Seq(FormPart)
    PROVE  Encode(form) = Flat(form, Len(form)) \o <<Delimiter, Hyphens, CrLf>>
<1>1. DOMAIN form = 1..Len(form)
  BY LenProperties
<1> QED
  BY <1>1, Zenon DEF Encode, Flat, Blocks

LEMMA FormLies ==
    ASSUME NEW form \in Seq(FormPart), NEW s, s = Encode(form)
    PROVE  /\ s \in Seq(Token) /\ Len(s) = Offset(form, Len(form)) + 3 /\ Offset(form, Len(form)) \in Nat
           /\ s[Offset(form, Len(form)) + 1] = Delimiter /\ s[Offset(form, Len(form)) + 2] = Hyphens
           /\ s[Offset(form, Len(form)) + 3] = CrLf
           /\ \A k \in 0..Len(form) : Begins(s, Flat(form, k))
<1>1. PICK z \in Seq(Token) : z = <<Delimiter, Hyphens, CrLf>> /\ Len(z) = 3 /\ z[1] = Delimiter /\ z[2] = Hyphens /\ z[3] = CrLf
  <2>1. <<Delimiter, Hyphens, CrLf>> \in Seq(Token)
    BY MarksAre
  <2> QED
    BY <2>1
<1>2. Len(form) \in Nat /\ Len(form) \in 0..Len(form)
  BY LenProperties
<1>3. PICK a \in Seq(Token) : a = Flat(form, Len(form))
  BY <1>2, FlatType
<1>4. s = a \o z
  BY <1>1, <1>3, EncodedForm
<1>5. PICK n \in Nat : n = Len(a)
  BY LenProperties
<1>6. /\ s \in Seq(Token) /\ Len(s) = n + 3
      /\ \A i \in 1..(n + 3) : s[i] = IF i <= n THEN a[i] ELSE z[i - n]
  BY <1>1, <1>4, <1>5, ConcatProperties
<1>7. s[n + 1] = Delimiter /\ s[n + 2] = Hyphens /\ s[n + 3] = CrLf
  BY <1>1, <1>6
<1>8. ASSUME NEW k \in 0..Len(form) PROVE Begins(s, Flat(form, k))
  <2>1. Flat(form, k) \in Seq(Token) /\ Len(form) \in k..Len(form)
    BY <1>2, FlatType
  <2>2. Begins(a, Flat(form, k))
    BY <1>3, <2>1, FlatBegins
  <2> QED
    BY <1>4, <2>1, <2>2, BeginsMore
<1>9. n = Offset(form, Len(form))
  BY <1>3, <1>5 DEF Offset
<1> QED
  BY <1>6, <1>7, <1>8, <1>9

(* The next part lies behind the ones before it. *)
PartThere(form, s, k, h, c) ==
    /\ h = Len(EncodeHead(form[k + 1])) /\ c = Len(form[k + 1].content)
    /\ Offset(form, k + 1) = Offset(form, k) + h + c + 5
    /\ PartLaid(s, Offset(form, k), form[k + 1], h, c)

LEMMA NextPart ==
    ASSUME NEW form \in Seq(FormPart), NEW s, s = Encode(form), NEW k \in 0..(Len(form) - 1)
    PROVE  \E h, c \in Nat : PartThere(form, s, k, h, c)
<1>1. /\ k \in Nat /\ k + 1 <= Len(form) /\ k \in 0..Len(form) /\ k + 1 \in 0..Len(form) /\ k + 1 \in 1..Len(form)
      /\ Len(form) \in Nat
  BY LenProperties
<1>2. PICK part \in FormPart : part = form[k + 1]
  BY <1>1, ElementOfSeq
<1>3. PICK p \in Seq(Token) : p = EncodePart(part)
  BY <1>1, <1>2, FlatNext
<1>4. PICK a \in Seq(Token) : a = Flat(form, k)
  BY <1>1, FlatType
<1>5. PICK b \in Seq(Token) : b = Flat(form, k + 1)
  BY <1>1, FlatType
<1>6. b = a \o p
  BY <1>1, <1>2, <1>3, <1>4, <1>5, FlatNext
<1>7. Begins(s, b)
  BY <1>1, <1>5, FormLies
<1>8. LiesAt(s, 0, b)
  BY <1>7, BeginsLies
<1>9. PICK at \in Nat, n \in Nat : at = Len(a) /\ n = Len(p)
  BY LenProperties
<1>10. Lays(s, 0, a, p, b, at, n)
  BY <1>6, <1>8, <1>9, LiesText
<1>11. LiesAt(s, at, p) /\ Len(b) = at + n
  BY <1>10 DEF Lays
<1>12. PICK h \in Nat, c \in Nat : /\ h = Len(EncodeHead(part)) /\ c = Len(part.content)
                                   /\ n = h + c + 5 /\ PartLaid(s, at, part, h, c)
  BY <1>3, <1>9, <1>11, PartLies
<1>13. Offset(form, k) = at /\ Offset(form, k + 1) = at + n
  BY <1>4, <1>5, <1>9, <1>11 DEF Offset
<1>14. Offset(form, k + 1) = Offset(form, k) + h + c + 5
  <2>1. n = h + c + 5
    BY <1>12
  <2>2. at + n = at + h + c + 5
    BY <2>1
  <2> QED
    BY <1>13, <2>2, Zenon
<1> QED
  BY <1>2, <1>12, <1>13, <1>14 DEF PartThere

(* Without the spaces at its ends, and in pieces, a text has no other tokens. *)
LEMMA TrimKeeps ==
    ASSUME NEW S \in SUBSET Token, NEW s \in Seq(S)
    PROVE  Trim(s) \in Seq(S)
<1>1. s \in Text
  BY SeqMonotonic DEF Text
<1>2. PICK w \in Text : Inside(s, w)
  BY <1>1, Trimmed
<1>3. PICK a \in Spaces, b \in Spaces : s = a \o w \o b
  BY <1>2 DEF Inside
<1>4. a \in Seq(Token) /\ b \in Seq(Token) /\ w \in Seq(Token)
  BY TokensAre DEF Text
<1>5. Holds(s, a, w, b)
  BY <1>3, <1>4, LiesWithin
<1>6. \A i \in 1..Len(w) : w[i] \in S
  <2> SUFFICES ASSUME NEW i \in 1..Len(w) PROVE w[i] \in S
    OBVIOUS
  <2>1. s[Len(a) + i] = w[i] /\ Len(s) = Len(a) + Len(w) + Len(b) /\ Len(a) \in Nat /\ Len(w) \in Nat /\ Len(b) \in Nat
    BY <1>5 DEF Holds, LiesAt
  <2>2. Len(a) + i \in 1..Len(s)
    BY <2>1
  <2>3. s[Len(a) + i] \in S
    BY <2>2, ElementOfSeq
  <2> QED
    BY <2>1, <2>3
<1>7. w \in Seq(S)
  BY <1>4, <1>6, SeqOfOnly
<1> QED
  BY <1>2, <1>7, TrimInside

LEMMA SplitKeeps ==
    ASSUME NEW separator, NEW S \in SUBSET Token
    PROVE  \A s \in Seq(S) : Split(s, separator) \in Seq(Seq(S)) /\ Split(s, separator) # <<>>
<1> DEFINE good == {s \in Seq(S) : Split(s, separator) \in Seq(Seq(S)) /\ Split(s, separator) # <<>>}
<1>1. <<>> \in good
  <2>1. <<>> \in Seq(S) /\ << <<>> >> \in Seq(Seq(S)) /\ << <<>> >> # <<>>
    BY EmptySeq, OnePiece, AppendProperties
  <2> QED
    BY <2>1, SplitAppend
<1>2. ASSUME NEW s \in Seq(S), NEW x \in S, s \in good PROVE Append(s, x) \in good
  <2>1. Append(s, x) \in Seq(S) /\ s \in Seq(Token) /\ x \in Token
    BY AppendProperties, SeqMonotonic
  <2>2. PICK front \in Seq(Seq(S)), last \in Seq(S) : Split(s, separator) = Append(front, last)
    BY <1>2, SequenceEmptyOrAppend
  <2>3. front \in Seq(Text) /\ last \in Text
    BY SeqMonotonic DEF Text
  <2>4. Extend(Append(front, last), x, separator) =
            IF x = separator THEN Append(Append(front, last), <<>>) ELSE Append(front, Append(last, x))
    BY <2>1, <2>3, ExtendLast
  <2>5. Append(Append(front, last), <<>>) \in Seq(Seq(S)) /\ Append(Append(front, last), <<>>) # <<>>
    <3>1. PICK U : U = Seq(S)
      OBVIOUS
    <3>2. front \in Seq(U) /\ last \in U /\ <<>> \in U
      BY <2>2, <3>1, EmptySeq
    <3>3. Append(front, last) \in Seq(U)
      BY <3>2, AppendProperties
    <3>4. Append(Append(front, last), <<>>) \in Seq(U) /\ Append(Append(front, last), <<>>) # <<>>
      BY <3>2, <3>3, AppendProperties
    <3> QED
      BY <3>1, <3>4
  <2>6. Append(front, Append(last, x)) \in Seq(Seq(S)) /\ Append(front, Append(last, x)) # <<>>
    <3>1. PICK U : U = Seq(S)
      OBVIOUS
    <3>2. PICK l : l = Append(last, x)
      OBVIOUS
    <3>3. front \in Seq(U) /\ l \in U
      BY <2>2, <3>1, <3>2, AppendProperties
    <3>4. Append(front, l) \in Seq(U) /\ Append(front, l) # <<>>
      BY <3>3, AppendProperties
    <3> QED
      BY <3>1, <3>2, <3>4
  <2>7. Split(Append(s, x), separator) = Extend(Split(s, separator), x, separator)
    BY <2>1, SplitAppend
  <2>8. Split(Append(s, x), separator) \in Seq(Seq(S)) /\ Split(Append(s, x), separator) # <<>>
    BY <2>2, <2>4, <2>5, <2>6, <2>7
  <2> QED
    BY <2>1, <2>8
<1> HIDE DEF good
<1>3. \A s \in Seq(S) : s \in good
  BY <1>1, <1>2, SeqInduction
<1> QED
  BY <1>3 DEF good

LEMMA AppendBehind ==
    ASSUME NEW T, NEW p \in Seq(T), NEW f \in Seq(T), NEW l \in T
    PROVE  p \o f \in Seq(T) /\ p \o Append(f, l) = Append(p \o f, l)
<1>1. <<l>> \in Seq(T)
  OBVIOUS
<1>2. p \o f \in Seq(T)
  BY ConcatProperties
<1>3. Append(f, l) = f \o <<l>> /\ Append(p \o f, l) = (p \o f) \o <<l>>
  BY <1>2, AppendIsConcat
<1>4. p \o (f \o <<l>>) = (p \o f) \o <<l>>
  BY <1>1, ConcatAssociative
<1> QED
  BY <1>2, <1>3, <1>4

Joins(p, q, token, separator) == Extend(p \o q, token, separator) = p \o Extend(q, token, separator)

LEMMA ExtendBehind ==
    ASSUME NEW p \in Seq(Text), NEW q \in Pieces, NEW token \in Token, NEW separator
    PROVE  Joins(p, q, token, separator)
<1>1. PICK front \in Seq(Text), last \in Text : q = Append(front, last)
  BY SequenceEmptyOrAppend DEF Pieces
<1>2. <<>> \in Text /\ Append(last, token) \in Text
  BY TokensAre, AppendProperties DEF Text
<1>3. PICK pf \in Seq(Text) : pf = p \o front
  BY ConcatProperties
<1>4. p \o Append(front, last) = Append(pf, last) /\ p \o Append(front, Append(last, token)) = Append(pf, Append(last, token))
  BY <1>2, <1>3, AppendBehind
<1>5. p \o Append(Append(front, last), <<>>) = Append(Append(pf, last), <<>>)
  BY <1>2, <1>4, AppendProperties, AppendBehind
<1>6. Extend(Append(pf, last), token, separator) =
          IF token = separator THEN Append(Append(pf, last), <<>>) ELSE Append(pf, Append(last, token))
  BY ExtendLast
<1>7. Extend(Append(front, last), token, separator) =
          IF token = separator THEN Append(Append(front, last), <<>>) ELSE Append(front, Append(last, token))
  BY ExtendLast
<1>8. PICK r : r = Extend(q, token, separator)
  OBVIOUS
<1>9. Extend(p \o q, token, separator) = p \o r
  <2>1. CASE token = separator
    BY <1>1, <1>4, <1>5, <1>6, <1>7, <1>8, <2>1
  <2>2. CASE token # separator
    BY <1>1, <1>4, <1>6, <1>7, <1>8, <2>2
  <2> QED
    BY <2>1, <2>2
<1> QED
  BY <1>8, <1>9 DEF Joins

(* Two texts with a separator between them: the pieces of the one, and of the other. *)
SplitsAt(s, a, b, separator) == Split(s, separator) = Split(a, separator) \o Split(b, separator)

LEMMA SplitJoin ==
    ASSUME NEW separator \in Token, NEW a \in Text
    PROVE  \A b \in Text : \A s : s = a \o <<separator>> \o b => SplitsAt(s, a, b, separator)
<1> DEFINE good == {b \in Seq(Token) : SplitsAt((a \o <<separator>>) \o b, a, b, separator)}
<1>1. a \in Seq(Token) /\ Split(a, separator) \in Seq(Text) /\ Split(a, separator) \in Pieces
  BY SplitAppend DEF Text, Pieces
<1>2. PICK u \in Seq(Token) : u = a \o <<separator>> /\ u = Append(a, separator)
  BY <1>1, AppendIsConcat, AppendProperties
<1>3. Split(u, separator) = Append(Split(a, separator), <<>>)
  <2>1. PICK front \in Seq(Text), last \in Text : Split(a, separator) = Append(front, last)
    BY <1>1, SequenceEmptyOrAppend DEF Pieces
  <2>2. Split(u, separator) = Extend(Split(a, separator), separator, separator)
    BY <1>1, <1>2, SplitAppend
  <2> QED
    BY <2>1, <2>2, ExtendLast
<1>4. <<>> \in good
  <2>1. u \o <<>> = u
    BY ConcatEmptySeq
  <2>2. Split(<<>>, separator) = << <<>> >>
    BY SplitAppend
  <2>3. Append(Split(a, separator), <<>>) = Split(a, separator) \o << <<>> >>
    BY <1>1, TokensAre, AppendIsConcat
  <2>4. SplitsAt(u \o <<>>, a, <<>>, separator)
    BY <1>3, <2>1, <2>2, <2>3, Zenon DEF SplitsAt
  <2> QED
    BY <1>2, <2>4, EmptySeq
<1>5. ASSUME NEW b \in Seq(Token), NEW x \in Token, b \in good PROVE Append(b, x) \in good
  <2>1. Append(b, x) \in Seq(Token)
    BY AppendProperties
  <2>2. u \o Append(b, x) = Append(u \o b, x) /\ u \o b \in Seq(Token)
    BY AppendBehind
  <2>3. Split(Append(u \o b, x), separator) = Extend(Split(u \o b, separator), x, separator)
    BY <2>2, SplitAppend
  <2>4. Split(Append(b, x), separator) = Extend(Split(b, separator), x, separator) /\ Split(b, separator) \in Pieces
    BY SplitAppend
  <2>5. Split(u \o b, separator) = Split(a, separator) \o Split(b, separator)
    BY <1>2, <1>5 DEF SplitsAt
  <2>6. Joins(Split(a, separator), Split(b, separator), x, separator)
    BY <1>1, <2>4, ExtendBehind
  <2>7. SplitsAt(u \o Append(b, x), a, Append(b, x), separator)
    BY <2>2, <2>3, <2>4, <2>5, <2>6, Zenon DEF SplitsAt, Joins
  <2> QED
    BY <1>2, <2>1, <2>7
<1>6. \A b \in Seq(Token) : b \in good
  <2> HIDE DEF good
  <2> QED
    BY <1>4, <1>5, SeqInduction
<1> QED
  BY <1>6 DEF Text

LEMMA SplitOne ==
    ASSUME NEW separator, NEW w \in Text, Lacks(w, separator)
    PROVE  Split(w, separator) = <<w>>
<1>1. <<>> \in Text /\ <<>> \in Seq(Text)
  BY TokensAre, EmptySeq
<1>2. Split(<<>>, separator) = Append(<<>>, <<>>)
  BY SplitAppend, OnePiece
<1>3. Split(<<>> \o w, separator) = Append(<<>>, <<>> \o w)
  BY <1>1, <1>2, SplitWord
<1>4. <<>> \o w = w
  BY ConcatEmptySeq DEF Text
<1> QED
  BY <1>3, <1>4

(* Quotes around a text. *)
LEMMA OneMark == ASSUME NEW x \in Token PROVE <<x>> \in Seq(Token) /\ Len(<<x>>) = 1 /\ <<x>>[1] = x
OBVIOUS

LEMMA Peel ==
    ASSUME NEW x \in Token, NEW t \in Seq(Token), NEW u \in Seq(Token), NEW s, s = <<x>> \o t
    PROVE  s \o u = <<x>> \o (t \o u)
<1>1. Grouped(<<x>>, t, u)
  BY OneMark, Grouping DEF Text
<1> QED
  BY <1>1 DEF Grouped

LEMMA TrimTight == ASSUME NEW w \in Text, Tight(w) PROVE Trim(w) = w
<1>1. <<>> \o w = w
  BY ConcatEmptySeq DEF Text
<1>2. Inside(<<>> \o w, w)
  BY TokensAre, InsideLead
<1> QED
  BY <1>1, <1>2, TrimInside

LEMMA LedBy ==
    ASSUME NEW key \in Token, NEW w \in Seq(Token), NEW x, x = <<key>> \o w
    PROVE  x \in Seq(Token) /\ x # <<>> /\ x[1] = key /\ Tail(x) = w /\ Len(x) = Len(w) + 1
<1>1. <<key>> \in Seq(Token) /\ Len(<<key>>) = 1 /\ <<key>>[1] = key /\ Len(w) \in Nat
  BY OneMark, LenProperties
<1>2. /\ x \in Seq(Token) /\ Len(x) = Len(w) + 1
      /\ \A i \in 1..(Len(w) + 1) : x[i] = IF i <= 1 THEN <<key>>[i] ELSE w[i - 1]
  BY <1>1, ConcatProperties
<1>3. x # <<>> /\ x[1] = key
  BY <1>1, <1>2, EmptySeq
<1>4. Tail(x) \in Seq(Token) /\ Len(Tail(x)) = Len(x) - 1 /\ \A i \in 1..Len(Tail(x)) : Tail(x)[i] = x[i + 1]
  BY <1>2, <1>3, HeadTailProperties
<1>5. Tail(x) = w
  <2>1. Len(Tail(x)) = Len(w)
    BY <1>1, <1>2, <1>4
  <2>2. ASSUME NEW i \in 1..Len(w) PROVE Tail(x)[i] = w[i]
    BY <1>1, <1>2, <1>4, <2>1
  <2> QED
    BY <1>4, <2>1, <2>2, SeqEqual
<1> QED
  BY <1>2, <1>3, <1>5

LEMMA QuotedIs ==
    ASSUME NEW w \in Seq(Token), NEW q, q = Quoted(w)
    PROVE  /\ q \in Seq(Token) /\ Len(q) = Len(w) + 2 /\ q[1] = Quote /\ q[Len(q)] = Quote
           /\ SubSeq(q, 2, Len(q) - 1) = w
<1>1. PICK a \in Seq(Token) : a = <<Quote>> /\ Len(a) = 1 /\ a[1] = Quote
  BY MarksAre, OneMark
<1>2. Holds(q, a, w, a)
  BY <1>1, LiesWithin, Zenon DEF Quoted
<1>3. PICK n \in Nat : n = Len(w)
  BY LenProperties
<1>4. q \in Seq(Token) /\ Len(q) = n + 2 /\ LiesAt(q, 0, a) /\ LiesAt(q, 1, w) /\ LiesAt(q, n + 1, a)
  BY <1>1, <1>2, <1>3 DEF Holds
<1>5. q[1] = Quote /\ q[n + 2] = Quote
  BY <1>1, <1>4 DEF LiesAt
<1>6. SubSeq(q, 2, n + 1) = w
  <2>1. 1 + Len(w) <= Len(q) /\ 1 + 1 = 2 /\ 1 + Len(w) = n + 1
    BY <1>3, <1>4
  <2>2. SubSeq(q, 1 + 1, 1 + Len(w)) = w
    BY <1>4, <2>1, LiesSame
  <2> QED
    BY <2>1, <2>2
<1> QED
  BY <1>3, <1>4, <1>5, <1>6

LEMMA UnquoteQuoted == ASSUME NEW w \in Seq(Token) PROVE Unquote(Quoted(w)) = w
<1>1. PICK q : q = Quoted(w)
  OBVIOUS
<1>2. /\ q \in Seq(Token) /\ Len(q) = Len(w) + 2 /\ q[1] = Quote /\ q[Len(q)] = Quote
      /\ SubSeq(q, 2, Len(q) - 1) = w
  BY <1>1, QuotedIs
<1>3. Len(q) >= 2
  BY <1>2, LenProperties
<1>4. Trim(q) = q
  BY <1>2, MarksDiffer, TrimTight DEF Tight, Text
<1> QED
  BY <1>1, <1>2, <1>3, <1>4, Zenon DEF Unquote

LEMMA UnquoteOpen ==
    ASSUME NEW w \in Text, Tight(w), w[Len(w)] # Quote \/ Len(w) = 1
    PROVE  Unquote(w) = w
<1>1. Trim(w) = w
  BY TrimTight
<1>2. ~(Len(w) >= 2 /\ w[1] = Quote /\ w[Len(w)] = Quote)
  BY LenProperties DEF Text
<1> QED
  BY <1>1, <1>2, Zenon DEF Unquote

(* A key behind a space, and what it is given. *)
LEMMA KeyTrimmed ==
    ASSUME NEW key \in Token, key # Space, NEW w \in Seq(Token), w # <<>>, w[Len(w)] # Space, NEW b \in Spaces,
           NEW x, x = <<Space>> \o (<<key>> \o (w \o b))
    PROVE  Trim(x) = <<key>> \o w
<1>1. PICK k \in Seq(Token) : k = <<key>> \o w /\ k # <<>> /\ k[1] = key /\ Len(k) = Len(w) + 1
  BY LedBy
<1>2. b \in Seq(Token) /\ <<Space>> \in Spaces /\ <<Space>> \in Seq(Token)
  BY TokensAre DEF Text
<1>3. <<key>> \o (w \o b) = k \o b
  BY <1>1, <1>2, Peel
<1>4. x = <<Space>> \o k \o b
  <2>1. Grouped(<<Space>>, k, b)
    BY <1>2, Grouping DEF Text
  <2> QED
    BY <1>3, <2>1 DEF Grouped
<1>5. k[Len(k)] = w[Len(w)]
  BY <1>1, LenProperties, EmptySeq, OneMark, ConcatProperties
<1>6. Tight(k)
  BY <1>1, <1>5 DEF Tight
<1>7. Inside(x, k)
  BY <1>2, <1>4, <1>6, InsideBoth DEF Text
<1> QED
  BY <1>1, <1>7, TrimInside DEF Text

LEMMA OpenQuote ==
    ASSUME NEW head \in Seq(NameToken)
    PROVE  \E w \in Text, b \in Spaces :
              /\ <<Quote>> \o head = w \o b /\ Trim(<<Quote>> \o head) = w
              /\ w # <<>> /\ w[Len(w)] # Space /\ Unquote(w) = w
<1>1. head \in Seq(Token) /\ \A i \in 1..Len(head) : head[i] # Quote
  BY SeqMonotonic, ElementOfSeq DEF NameToken
<1>2. PICK s \in Seq(Token) : s = <<Quote>> \o head /\ s[1] = Quote /\ Len(s) = Len(head) + 1
  BY <1>1, MarksAre, LedBy
<1>3. PICK w \in Text : Inside(s, w)
  BY Trimmed DEF Text
<1>4. PICK a \in Spaces, b \in Spaces : s = a \o w \o b
  BY <1>3 DEF Inside
<1>5. w \in Seq(Token) /\ a \in Seq(Token) /\ b \in Seq(Token) /\ Tight(w)
  BY <1>3, TokensAre DEF Text, Inside
<1>6. Holds(s, a, w, b)
  BY <1>4, <1>5, LiesWithin
<1>7. /\ Len(s) = Len(a) + Len(w) + Len(b) /\ Len(a) \in Nat /\ Len(w) \in Nat /\ Len(b) \in Nat
      /\ LiesAt(s, 0, a) /\ LiesAt(s, Len(a), w) /\ LiesAt(s, Len(a) + Len(w), b)
  BY <1>6, Zenon DEF Holds
<1>8. a = <<>>
  <2> SUFFICES ASSUME a # <<>> PROVE FALSE
    OBVIOUS
  <2>1. 1 \in 1..Len(a) /\ 0 + 1 = 1
    BY <1>5, <1>7, EmptySeq
  <2>2. s[1] = a[1]
    BY <1>7, <2>1 DEF LiesAt
  <2>3. a[1] = Space
    BY <2>1, AllSpaces
  <2> QED
    BY <1>2, <2>2, <2>3, MarksDiffer
<1>9. Len(a) = 0 /\ s = w \o b
  BY <1>4, <1>5, <1>8, ConcatEmptySeq, EmptySeq
<1>10. w # <<>>
  <2> SUFFICES ASSUME w = <<>> PROVE FALSE
    OBVIOUS
  <2>1. s = b
    BY <1>5, <1>9, ConcatEmptySeq
  <2>2. 1 \in 1..Len(b)
    BY <1>1, <1>2, <2>1, LenProperties
  <2> QED
    BY <1>2, <2>1, <2>2, AllSpaces, MarksDiffer
<1>11. w[Len(w)] # Space
  BY <1>5, <1>10 DEF Tight
<1>12. w[Len(w)] # Quote \/ Len(w) = 1
  <2> SUFFICES ASSUME Len(w) # 1 PROVE w[Len(w)] # Quote
    OBVIOUS
  <2>1. Len(w) \in 1..Len(w) /\ Len(w) # 0
    BY <1>5, <1>7, <1>10, EmptySeq
  <2>2. s[0 + Len(w)] = w[Len(w)] /\ 0 + Len(w) = Len(w)
    BY <1>7, <1>9, <2>1 DEF LiesAt
  <2>3. Len(w) - 1 \in 1..Len(head)
    <3>1. Len(head) \in Nat
      BY <1>1, LenProperties
    <3>2. Len(head) + 1 = Len(w) + Len(b)
      BY <1>2, <1>7, <1>9
    <3>3. PICK l \in Nat, m \in Nat, n \in Nat : l = Len(w) /\ m = Len(b) /\ n = Len(head)
      BY <1>7, <3>1
    <3>4. n + 1 = l + m /\ l # 0 /\ l # 1
      BY <2>1, <3>2, <3>3
    <3>5. l - 1 \in 1..n
      BY <3>4
    <3> QED
      BY <3>3, <3>5
  <2>4. s[Len(w)] = head[Len(w) - 1]
    <3>1. /\ <<Quote>> \in Seq(Token) /\ Len(<<Quote>>) = 1
      BY MarksAre, OneMark
    <3>2. \A i \in 1..(Len(<<Quote>>) + Len(head)) : s[i] = IF i <= Len(<<Quote>>) THEN <<Quote>>[i] ELSE head[i - Len(<<Quote>>)]
      BY <1>1, <1>2, <3>1, ConcatProperties
    <3>3. Len(w) \in 1..(1 + Len(head)) /\ ~(Len(w) <= 1)
      BY <1>1, <1>7, <2>3, LenProperties
    <3> QED
      BY <3>1, <3>2, <3>3
  <2> QED
    BY <1>1, <2>2, <2>3, <2>4
<1>13. Unquote(w) = w
  BY <1>5, <1>12, UnquoteOpen DEF Text
<1>14. Trim(s) = w
  BY <1>3, TrimInside
<1> QED
  BY <1>2, <1>9, <1>10, <1>11, <1>13, <1>14

(* The parameters of the first line. *)
FileParam == <<Space>> \o (<<FileKey>> \o Quoted(<<FileName>>))
Named(name, f) == <<Space>> \o (<<NameKey>> \o (Quoted(name) \o f))
NamePieces(pieces, name) ==
    \E first, w \in Seq(Token), others \in Seq(Seq(Token \ {NameKey})) :
        /\ pieces = <<first>> \o others
        /\ Trim(first) = <<NameKey>> \o w /\ Unquote(w) = NameRead(name)

LEMMA FileParamIs ==
    /\ FileParam \in Seq(Token \ {NameKey}) /\ FileParam \in Seq(Token)
    /\ Lacks(FileParam, Semicolon) /\ Trim(FileParam) = <<FileKey>> \o Quoted(<<FileName>>)
<1>1. ASSUME NEW S, Space \in S, FileKey \in S, Quote \in S, FileName \in S
      PROVE  FileParam \in Seq(S)
  BY <1>1, ConcatProperties DEF Quoted, FileParam
<1>2. FileParam \in Seq(Token)
  BY <1>1, MarksAre
<1>3. FileParam \in Seq(Token \ {NameKey})
  <2>1. PICK S : S = Token \ {NameKey}
    OBVIOUS
  <2>2. Space \in S /\ FileKey \in S /\ Quote \in S /\ FileName \in S
    BY <2>1, MarksAre, MarksDiffer, Zenon
  <2> QED
    BY <1>1, <2>1, <2>2
<1>4. Lacks(FileParam, Semicolon)
  <2>1. PICK S : S = Token \ {Semicolon}
    OBVIOUS
  <2>2. Space \in S /\ FileKey \in S /\ Quote \in S /\ FileName \in S
    BY <2>1, MarksAre, MarksDiffer, SignsDiffer, Zenon
  <2>3. FileParam \in Seq(S)
    BY <1>1, <2>2
  <2> QED
    BY <2>1, <2>3, ElementOfSeq DEF Lacks
<1>5. Trim(FileParam) = <<FileKey>> \o Quoted(<<FileName>>)
  <2>1. PICK q \in Seq(Token) : q = Quoted(<<FileName>>) /\ Len(q) = Len(<<FileName>>) + 2 /\ q[Len(q)] = Quote
    BY MarksAre, OneMark, QuotedIs
  <2>2. q # <<>> /\ q[Len(q)] # Space
    <3>1. Len(<<FileName>>) = 1
      BY MarksAre, OneMark
    <3>2. Len(q) = 3
      BY <2>1, <3>1
    <3>3. q # <<>>
      BY <3>2, EmptySeq
    <3> QED
      BY <2>1, <3>3, MarksDiffer
  <2>3. q \o <<>> = q
    BY ConcatEmptySeq
  <2>4. FileParam = <<Space>> \o (<<FileKey>> \o (q \o <<>>))
    BY <2>1, <2>3 DEF FileParam
  <2>5. FileKey \in Token /\ FileKey # Space
    BY MarksAre, MarksDiffer
  <2>6. <<>> \in Spaces
    BY TokensAre
  <2> QED
    BY <2>1, <2>2, <2>4, <2>5, <2>6, KeyTrimmed
<1> QED
  BY <1>2, <1>3, <1>4, <1>5

LEMMA QuotedBefore ==
    ASSUME NEW name \in Seq(Token), NEW f \in Seq(Token)
    PROVE  Quoted(name) \o f = <<Quote>> \o (name \o (<<Quote>> \o f))
<1>1. PICK q \in Seq(Token) : q = <<Quote>>
  BY MarksAre, OneMark
<1>2. name \o q \in Seq(Token) /\ q \o f \in Seq(Token)
  BY ConcatProperties
<1>3. Grouped(q, name, q) /\ Grouped(q, name \o q, f) /\ Grouped(name, q, f)
  BY <1>2, Grouping DEF Text
<1> QED
  BY <1>1, <1>3, Zenon DEF Quoted, Grouped

LEMMA NameSplit ==
    ASSUME NEW name \in Seq(NameToken), NEW f \in Seq(Token), f = <<>> \/ f = <<Semicolon>> \o FileParam
    PROVE  NamePieces(Split(Named(name, f), Semicolon), name)
<1>1. name \in Seq(Token) /\ name \in Text
  BY SeqMonotonic DEF NameToken, Text
<1>2. PICK q \in Seq(Token) : q = <<Quote>>
  BY MarksAre, OneMark
<1>3. PICK key \in Seq(Token) : key = <<NameKey>>
  BY MarksAre, OneMark
<1>4. PICK space \in Seq(Token) : space = <<Space>>
  BY MarksAre, OneMark
<1>5. PICK semi \in Seq(Token) : semi = <<Semicolon>>
  BY MarksAre, OneMark
<1>6. CASE Lacks(name, Semicolon)
  <2>1. NameRead(name) = name
    BY <1>1, <1>6, NoSign, Zenon DEF NameRead
  <2>2. PICK w \in Seq(Token) : w = Quoted(name) /\ Len(w) = Len(name) + 2 /\ w[Len(w)] = Quote
    BY <1>1, QuotedIs
  <2>3. Unquote(w) = name
    BY <1>1, <2>2, UnquoteQuoted
  <2>4. PICK first \in Seq(Token) : first = space \o (key \o w)
    BY ConcatProperties
  <2>5. Trim(first) = key \o w
    <3>1. w # <<>> /\ w[Len(w)] # Space
      BY <1>1, <2>2, MarksDiffer, EmptySeq, LenProperties
    <3>2. w \o <<>> = w /\ <<>> \in Spaces
      BY TokensAre, ConcatEmptySeq
    <3>3. first = <<Space>> \o (<<NameKey>> \o (w \o <<>>))
      BY <1>3, <1>4, <2>4, <3>2
    <3>4. NameKey \in Token /\ NameKey # Space
      BY MarksAre, MarksDiffer
    <3> QED
      BY <1>3, <3>1, <3>2, <3>3, <3>4, KeyTrimmed
  <2>6. Lacks(first, Semicolon)
    <3>1. PICK S : S = Token \ {Semicolon}
      OBVIOUS
    <3>2. name \in Seq(S)
      BY <1>1, <1>6, <3>1, ElementOfSeq, SeqOfOnly DEF Lacks
    <3>3. q \in Seq(S) /\ key \in Seq(S) /\ space \in Seq(S)
      BY <1>2, <1>3, <1>4, <3>1, MarksAre, MarksDiffer, SignsDiffer
    <3>4. w \in Seq(S)
      BY <1>2, <2>2, <3>2, <3>3, ConcatProperties, Zenon DEF Quoted
    <3>5. first \in Seq(S)
      BY <2>4, <3>3, <3>4, ConcatProperties, Zenon
    <3> QED
      BY <3>1, <3>5, ElementOfSeq DEF Lacks
  <2>7. Split(first, Semicolon) = <<first>>
    BY <2>6, SplitOne DEF Text
  <2>8. Named(name, f) = first \o f
    <3>1. key \o w \in Seq(Token)
      BY ConcatProperties
    <3>2. Grouped(key, w, f) /\ Grouped(space, key \o w, f)
      BY <3>1, Grouping DEF Text
    <3> QED
      BY <1>3, <1>4, <2>2, <2>4, <3>2, Zenon DEF Named, Grouped
  <2>9. CASE f = <<>>
    <3>1. Named(name, f) = first
      BY <2>8, <2>9, ConcatEmptySeq
    <3>2. <<first>> = <<first>> \o <<>> /\ <<>> \in Seq(Seq(Token \ {NameKey}))
      BY ConcatEmptySeq, EmptySeq
    <3> QED
      BY <1>3, <2>1, <2>3, <2>5, <2>7, <3>1, <3>2, Zenon DEF NamePieces
  <2>10. CASE f = <<Semicolon>> \o FileParam
    <3>1. PICK p \in Seq(Token) : p = FileParam
      BY FileParamIs
    <3>2. Named(name, f) = first \o <<Semicolon>> \o p
      <4>1. Grouped(first, semi, p)
        BY Grouping DEF Text
      <4> QED
        BY <1>5, <2>8, <2>10, <3>1, <4>1, Zenon DEF Grouped
    <3>3. SplitsAt(Named(name, f), first, p, Semicolon)
      BY <3>2, MarksAre, SplitJoin DEF Text
    <3>4. Split(p, Semicolon) \in Seq(Seq(Token \ {NameKey}))
      BY <3>1, FileParamIs, SplitKeeps
    <3> QED
      BY <1>3, <2>1, <2>3, <2>5, <2>7, <3>3, <3>4, Zenon DEF NamePieces, SplitsAt
  <2> QED
    BY <2>9, <2>10
<1>7. CASE \E head, tail \in Text : Around(name, head, Semicolon, tail)
  <2>1. PICK head \in Seq(Token), tail \in Seq(Token) : Around(name, head, Semicolon, tail)
    BY <1>7 DEF Text
  <2>2. name = head \o <<Semicolon>> \o tail /\ Lacks(head, Semicolon)
    BY <2>1, Zenon DEF Around
  <2>3. FirstAt(<<Semicolon>>, name, 1) = Len(head) + 1 /\ SubSeq(name, 1, Len(head)) = head
    BY <2>1, MarksAre, FirstSign DEF Text
  <2>4. NameRead(name) = Trim(<<Quote>> \o head)
    <3>1. Len(head) + 1 # 0 /\ (Len(head) + 1) - 1 = Len(head)
      BY LenProperties
    <3> QED
      BY <2>3, <3>1, Zenon DEF NameRead
  <2>5. head \in Seq(NameToken) /\ tail \in Seq(NameToken)
    <3>1. Holds(name, head, semi, tail)
      BY <1>5, <2>2, LiesWithin
    <3>2. /\ LiesAt(name, 0, head) /\ LiesAt(name, Len(head) + Len(semi), tail)
          /\ Len(name) = Len(head) + Len(semi) + Len(tail)
          /\ Len(head) \in Nat /\ Len(semi) \in Nat /\ Len(tail) \in Nat
      BY <3>1, Zenon DEF Holds
    <3>3. ASSUME NEW i \in 1..Len(head) PROVE head[i] \in NameToken
      BY <3>2, ElementOfSeq DEF LiesAt
    <3>4. ASSUME NEW i \in 1..Len(tail) PROVE tail[i] \in NameToken
      BY <3>2, ElementOfSeq DEF LiesAt
    <3> QED
      BY <3>3, <3>4, SeqOfOnly
  <2>6. PICK w \in Seq(Token), b \in Spaces :
            /\ <<Quote>> \o head = w \o b /\ Trim(<<Quote>> \o head) = w
            /\ w # <<>> /\ w[Len(w)] # Space /\ Unquote(w) = w
    BY <2>5, OpenQuote DEF Text
  <2>7. PICK first \in Seq(Token) : first = space \o (key \o (q \o head))
    BY ConcatProperties, Zenon
  <2>8. Trim(first) = key \o w
    <3>1. first = <<Space>> \o (<<NameKey>> \o (w \o b))
      BY <1>2, <1>3, <1>4, <2>6, <2>7, Zenon
    <3>2. NameKey \in Token /\ NameKey # Space
      BY MarksAre, MarksDiffer
    <3>3. w # <<>> /\ w[Len(w)] # Space
      BY <2>6
    <3> QED
      BY <1>3, <3>1, <3>2, <3>3, KeyTrimmed
  <2>9. Lacks(first, Semicolon)
    <3>1. PICK S : S = Token \ {Semicolon}
      OBVIOUS
    <3>2. head \in Seq(S)
      BY <2>2, <3>1, ElementOfSeq, SeqOfOnly DEF Lacks
    <3>3. q \in Seq(S) /\ key \in Seq(S) /\ space \in Seq(S)
      BY <1>2, <1>3, <1>4, <3>1, MarksAre, MarksDiffer, SignsDiffer
    <3>4. first \in Seq(S)
      BY <2>7, <3>2, <3>3, ConcatProperties, Zenon
    <3> QED
      BY <3>1, <3>4, ElementOfSeq DEF Lacks
  <2>10. Split(first, Semicolon) = <<first>>
    BY <2>9, SplitOne DEF Text
  <2>11. PICK qf \in Seq(Token) : qf = q \o f
    BY ConcatProperties
  <2>12. PICK rest \in Seq(Token) : rest = tail \o qf
    BY ConcatProperties
  <2>13. Named(name, f) = first \o <<Semicolon>> \o rest
    <3>1. Named(name, f) = space \o (key \o (q \o (name \o qf)))
      BY <1>1, <1>2, <1>3, <1>4, <2>11, QuotedBefore, Zenon DEF Named
    <3>2. PICK hs \in Seq(Token) : hs = head \o semi
      BY ConcatProperties
    <3>3. name \o qf = hs \o rest
      <4>1. Grouped(hs, tail, qf)
        BY Grouping DEF Text
      <4> QED
        BY <1>5, <2>2, <2>12, <3>2, <4>1, Zenon DEF Grouped
    <3>4. PICK qh \in Seq(Token) : qh = q \o head
      BY ConcatProperties
    <3>5. PICK kqh \in Seq(Token) : kqh = key \o qh
      BY ConcatProperties
    <3>6. q \o (hs \o rest) = (qh \o semi) \o rest
      <4>1. Grouped(q, hs, rest) /\ Grouped(q, head, semi)
        BY Grouping DEF Text
      <4> QED
        BY <3>2, <3>4, <4>1, Zenon DEF Grouped
    <3>7. PICK qhs \in Seq(Token) : qhs = qh \o semi
      BY ConcatProperties
    <3>8. key \o (qhs \o rest) = (kqh \o semi) \o rest
      <4>1. Grouped(key, qhs, rest) /\ Grouped(key, qh, semi)
        BY Grouping DEF Text
      <4> QED
        BY <3>5, <3>7, <4>1, Zenon DEF Grouped
    <3>9. PICK ks \in Seq(Token) : ks = kqh \o semi
      BY ConcatProperties
    <3>10. space \o (ks \o rest) = (first \o semi) \o rest
      <4>1. Grouped(space, ks, rest) /\ Grouped(space, kqh, semi)
        BY Grouping DEF Text
      <4> QED
        BY <2>7, <3>4, <3>5, <3>9, <4>1, Zenon DEF Grouped
    <3> QED
      BY <1>5, <3>1, <3>3, <3>6, <3>7, <3>8, <3>9, <3>10, Zenon
  <2>14. SplitsAt(Named(name, f), first, rest, Semicolon)
    BY <2>13, MarksAre, SplitJoin DEF Text
  <2>15. Split(rest, Semicolon) \in Seq(Seq(Token \ {NameKey}))
    <3>1. PICK S : S = Token \ {NameKey}
      OBVIOUS
    <3>2. tail \in Seq(S)
      BY <2>5, <3>1, SeqMonotonic DEF NameToken
    <3>3. q \in Seq(S) /\ semi \in Seq(S) /\ <<>> \in Seq(S) /\ FileParam \in Seq(S)
      BY <1>2, <1>5, <3>1, MarksAre, MarksDiffer, EmptySeq, FileParamIs
    <3>4. f \in Seq(S)
      BY <1>5, <3>3, ConcatProperties, Zenon
    <3>5. rest \in Seq(S)
      BY <2>11, <2>12, <3>2, <3>3, <3>4, ConcatProperties, Zenon
    <3>6. S \in SUBSET Token
      BY <3>1
    <3>7. Split(rest, Semicolon) \in Seq(Seq(S))
      BY <3>5, <3>6, SplitKeeps
    <3> QED
      BY <3>1, <3>7
  <2> QED
    BY <1>3, <2>4, <2>6, <2>8, <2>10, <2>14, <2>15, Zenon DEF NamePieces, SplitsAt
<1> QED
  BY <1>1, <1>6, <1>7, MarksAre, FirstOrNone

Params(parts) == [i \in DOMAIN parts |-> Trim(parts[i])]
LineValue(name, f) == <<FormData>> \o (<<Semicolon>> \o Named(name, f))

LEMMA LastOf ==
    ASSUME NEW u \in Seq(Token), NEW v \in Seq(Token), v # <<>>, NEW s, s = u \o v
    PROVE  s \in Seq(Token) /\ s # <<>> /\ s[Len(s)] = v[Len(v)]
<1>1. PICK m \in Nat, n \in Nat : m = Len(u) /\ n = Len(v) /\ n # 0
  BY LenProperties, EmptySeq
<1>2. /\ s \in Seq(Token) /\ Len(s) = m + n
      /\ \A i \in 1..(m + n) : s[i] = IF i <= m THEN u[i] ELSE v[i - m]
  BY <1>1, ConcatProperties
<1>3. m + n \in 1..(m + n) /\ ~(m + n <= m) /\ (m + n) - m = n
  BY <1>1
<1>4. s[m + n] = v[n] /\ s # <<>>
  BY <1>2, <1>3, EmptySeq
<1> QED
  BY <1>1, <1>2, <1>4

EndsQuoted(s) == s \in Seq(Token) /\ s # <<>> /\ s[Len(s)] = Quote

LEMMA QuotedEnds == ASSUME NEW w \in Seq(Token) PROVE EndsQuoted(Quoted(w))
<1>1. PICK q \in Seq(Token) : q = Quoted(w) /\ Len(q) = Len(w) + 2 /\ q[Len(q)] = Quote
  BY QuotedIs
<1>2. Len(w) \in Nat
  BY LenProperties
<1>3. Len(q) # 0
  BY <1>1, <1>2
<1>4. q # <<>>
  BY <1>3, EmptySeq
<1> QED
  BY <1>1, <1>4 DEF EndsQuoted

LEMMA EndsBehind ==
    ASSUME NEW u \in Seq(Token), NEW v, EndsQuoted(v), NEW s, s = u \o v
    PROVE  EndsQuoted(s)
BY LastOf DEF EndsQuoted

LEMMA FirstAndRest ==
    ASSUME NEW x \in Token, NEW w \in Seq(Token), NEW t \in Seq(Token), Len(t) = Len(w) + 1, t[1] = x,
           \A i \in 1..Len(w) : t[i + 1] = w[i]
    PROVE  t = <<x>> \o w
<1>1. PICK s \in Seq(Token) : s = <<x>> \o w /\ s[1] = x /\ Len(s) = Len(w) + 1 /\ s # <<>> /\ Tail(s) = w
  BY LedBy
<1>2. Len(w) \in Nat
  BY LenProperties
<1>3. Len(Tail(s)) = Len(s) - 1 /\ \A i \in 1..Len(Tail(s)) : Tail(s)[i] = s[i + 1]
  BY <1>1, HeadTailProperties
<1>4. ASSUME NEW i \in 1..Len(t) PROVE t[i] = s[i]
  <2>1. CASE i = 1
    BY <1>1, <2>1
  <2>2. CASE i # 1
    BY <1>1, <1>2, <1>3, <2>2
  <2> QED
    BY <2>1, <2>2
<1> QED
  BY <1>1, <1>4, SeqEqual

SixInRow(a, b, c, d, e, f) == <<a, b, c, d, e, f>> = <<a>> \o (<<b>> \o (<<c>> \o (<<d>> \o (<<e>> \o <<f>>))))

LEMMA SixTokens ==
    ASSUME NEW a \in Token, NEW b \in Token, NEW c \in Token, NEW d \in Token, NEW e \in Token, NEW f \in Token
    PROVE  SixInRow(a, b, c, d, e, f)
<1>1. PICK t1 \in Seq(Token) : t1 = <<f>> /\ Len(t1) = 1 /\ t1[1] = f
  <2>1. <<f>> \in Seq(Token)
    OBVIOUS
  <2> QED
    BY <2>1
<1>2. PICK t2 \in Seq(Token) : t2 = <<e, f>> /\ Len(t2) = 2 /\ t2[1] = e /\ t2[2] = f
  <2>1. <<e, f>> \in Seq(Token)
    OBVIOUS
  <2> QED
    BY <2>1
<1>3. PICK t3 \in Seq(Token) : t3 = <<d, e, f>> /\ Len(t3) = 3 /\ t3[1] = d /\ t3[2] = e /\ t3[3] = f
  <2>1. <<d, e, f>> \in Seq(Token)
    OBVIOUS
  <2> QED
    BY <2>1
<1>4. PICK t4 \in Seq(Token) : t4 = <<c, d, e, f>> /\ Len(t4) = 4 /\ t4[1] = c /\ t4[2] = d /\ t4[3] = e /\ t4[4] = f
  <2>1. <<c, d, e, f>> \in Seq(Token)
    OBVIOUS
  <2> QED
    BY <2>1
<1>5. PICK t5 \in Seq(Token) : t5 = <<b, c, d, e, f>> /\ Len(t5) = 5 /\ t5[1] = b /\ t5[2] = c /\ t5[3] = d /\ t5[4] = e /\ t5[5] = f
  <2>1. <<b, c, d, e, f>> \in Seq(Token)
    OBVIOUS
  <2> QED
    BY <2>1
<1>6. PICK t6 \in Seq(Token) : t6 = <<a, b, c, d, e, f>> /\ Len(t6) = 6 /\ t6[1] = a /\ t6[2] = b /\ t6[3] = c /\ t6[4] = d /\ t6[5] = e /\ t6[6] = f
  <2>1. <<a, b, c, d, e, f>> \in Seq(Token)
    OBVIOUS
  <2> QED
    BY <2>1
<1>7. t2 = <<e>> \o t1
  <2>1. Len(t2) = Len(t1) + 1 /\ \A i \in 1..Len(t1) : t2[i + 1] = t1[i]
    BY <1>1, <1>2
  <2>2. t2[1] = e
    BY <1>2
  <2> QED
    BY <2>1, <2>2, FirstAndRest
<1>8. t3 = <<d>> \o t2
  BY <1>2, <1>3, FirstAndRest
<1>9. t4 = <<c>> \o t3
  BY <1>3, <1>4, FirstAndRest
<1>10. t5 = <<b>> \o t4
  BY <1>4, <1>5, FirstAndRest
<1>11. t6 = <<a>> \o t5
  BY <1>5, <1>6, FirstAndRest
<1> QED
  BY <1>1, <1>6, <1>7, <1>8, <1>9, <1>10, <1>11, Zenon DEF SixInRow

LEMMA FilePartIs ==
    ASSUME NEW part
    PROVE  FilePart(part) = IF part.file THEN <<Semicolon>> \o FileParam ELSE <<>>
<1>1. PICK q \in Seq(Token) : q = Quoted(<<FileName>>)
  BY MarksAre, OneMark, QuotedIs
<1>2. PICK a \in Seq(Token), b \in Seq(Token), c \in Seq(Token) : a = <<Semicolon>> /\ b = <<Space>> /\ c = <<FileKey>>
  BY MarksAre, OneMark
<1>3. <<Semicolon, Space, FileKey>> = a \o (b \o c)
  BY <1>2
<1>4. b \o c \in Seq(Token)
  BY ConcatProperties
<1>5. Grouped(a, b \o c, q) /\ Grouped(b, c, q)
  BY <1>4, Grouping DEF Text
<1>6. <<Semicolon, Space, FileKey>> \o q = <<Semicolon>> \o FileParam
  BY <1>1, <1>2, <1>3, <1>5, Zenon DEF FileParam, Grouped
<1> QED
  BY <1>1, <1>6, Zenon DEF FilePart

LEMMA FirstLineIs ==
    ASSUME NEW part, part.name \in Seq(Token), NEW f \in Seq(Token), f = FilePart(part)
    PROVE  FirstLine(part) = <<Disposition>> \o (<<Space>> \o LineValue(part.name, f))
<1>1. PICK q \in Seq(Token) : q = Quoted(part.name)
  BY QuotedIs
<1>2. PICK qf \in Seq(Token) : qf = q \o f
  BY ConcatProperties
<1>3. PICK d \in Seq(Token), b \in Seq(Token), m \in Seq(Token), c \in Seq(Token), k \in Seq(Token) :
          d = <<Disposition>> /\ b = <<Space>> /\ m = <<FormData>> /\ c = <<Semicolon>> /\ k = <<NameKey>>
  BY MarksAre, OneMark
<1>4. <<Disposition, Space, FormData, Semicolon, Space, NameKey>> = d \o (b \o (m \o (c \o (b \o k))))
  <2>1. SixInRow(Disposition, Space, FormData, Semicolon, Space, NameKey)
    BY MarksAre, SixTokens
  <2> QED
    BY <1>3, <2>1, Zenon DEF SixInRow
<1>5. PICK x1 \in Seq(Token) : x1 = b \o k
  BY ConcatProperties
<1>6. PICK x2 \in Seq(Token) : x2 = c \o x1
  BY ConcatProperties
<1>7. PICK x3 \in Seq(Token) : x3 = m \o x2
  BY ConcatProperties
<1>8. PICK x4 \in Seq(Token) : x4 = b \o x3
  BY ConcatProperties
<1>9. PICK x5 \in Seq(Token) : x5 = d \o x4
  BY ConcatProperties
<1>10. /\ Grouped(b, k, qf) /\ Grouped(c, x1, qf) /\ Grouped(m, x2, qf) /\ Grouped(b, x3, qf)
       /\ Grouped(d, x4, qf) /\ Grouped(x5, q, f)
  BY Grouping DEF Text
<1>11. x5 \o qf = d \o (b \o (m \o (c \o (b \o (k \o qf)))))
  BY <1>5, <1>6, <1>7, <1>8, <1>9, <1>10, Zenon DEF Grouped
<1>12. FirstLine(part) = (x5 \o q) \o f
  BY <1>1, <1>4, <1>5, <1>6, <1>7, <1>8, <1>9, Zenon DEF FirstLine
<1> QED
  BY <1>1, <1>2, <1>3, <1>10, <1>11, <1>12, Zenon DEF Grouped, LineValue, Named

LEMMA LineValueIs ==
    ASSUME NEW name \in Seq(Token), NEW f \in Seq(Token), f = <<>> \/ f = <<Semicolon>> \o FileParam,
           NEW v, v = LineValue(name, f)
    PROVE  v \in Seq(Token) /\ v # <<>> /\ Tight(v) /\ Named(name, f) \in Seq(Token)
<1>1. PICK q \in Seq(Token) : q = Quoted(name) /\ EndsQuoted(q)
  BY QuotedEnds DEF EndsQuoted
<1>2. PICK qf \in Seq(Token) : qf = q \o f /\ EndsQuoted(qf)
  <2>1. CASE f = <<>>
    BY <1>1, <2>1, ConcatEmptySeq
  <2>2. CASE f = <<Semicolon>> \o FileParam
    <3>1. <<FileName>> \in Seq(Token) /\ <<FileKey>> \in Seq(Token) /\ <<Space>> \in Seq(Token) /\ <<Semicolon>> \in Seq(Token)
      BY MarksAre, OneMark
    <3>2. EndsQuoted(Quoted(<<FileName>>))
      BY <3>1, QuotedEnds
    <3>3. EndsQuoted(<<FileKey>> \o Quoted(<<FileName>>))
      BY <3>1, <3>2, EndsBehind
    <3>4. EndsQuoted(FileParam)
      BY <3>1, <3>3, EndsBehind DEF FileParam
    <3>5. EndsQuoted(f)
      BY <2>2, <3>1, <3>4, EndsBehind
    <3>6. EndsQuoted(q \o f)
      BY <3>5, EndsBehind
    <3> QED
      BY <3>6 DEF EndsQuoted
  <2> QED
    BY <2>1, <2>2
<1>3. <<NameKey>> \in Seq(Token) /\ <<Space>> \in Seq(Token) /\ <<Semicolon>> \in Seq(Token) /\ <<FormData>> \in Seq(Token)
  BY MarksAre, OneMark
<1>4. EndsQuoted(<<NameKey>> \o qf)
  BY <1>2, <1>3, EndsBehind
<1>5. EndsQuoted(Named(name, f))
  BY <1>1, <1>2, <1>3, <1>4, EndsBehind DEF Named
<1>6. EndsQuoted(<<Semicolon>> \o Named(name, f))
  BY <1>3, <1>5, EndsBehind
<1>7. EndsQuoted(v)
  BY <1>3, <1>6, EndsBehind DEF LineValue
<1>8. v[1] = FormData
  <2>1. PICK y \in Seq(Token) : y = <<Semicolon>> \o Named(name, f)
    BY <1>6 DEF EndsQuoted
  <2>2. v = <<FormData>> \o y
    BY <2>1 DEF LineValue
  <2> QED
    BY <2>2, MarksAre, LedBy
<1> QED
  BY <1>5, <1>7, <1>8, MarksDiffer DEF Tight, EndsQuoted

LEMMA ValueSplit ==
    ASSUME NEW name \in Seq(Token), NEW f \in Seq(Token), f = <<>> \/ f = <<Semicolon>> \o FileParam
    PROVE  Split(LineValue(name, f), Semicolon) = << <<FormData>> >> \o Split(Named(name, f), Semicolon)
<1>1. PICK n \in Seq(Token) : n = Named(name, f)
  BY LineValueIs
<1>2. PICK d \in Seq(Token), c \in Seq(Token) : d = <<FormData>> /\ c = <<Semicolon>> /\ Len(d) = 1 /\ d[1] = FormData
  BY MarksAre, OneMark
<1>3. LineValue(name, f) = d \o <<Semicolon>> \o n
  BY <1>1, <1>2, Grouping DEF Text, LineValue, Grouped
<1>4. SplitsAt(LineValue(name, f), d, n, Semicolon)
  BY <1>3, MarksAre, SplitJoin DEF Text
<1>5. Split(d, Semicolon) = <<d>>
  <2>1. Lacks(d, Semicolon)
    BY <1>2, MarksDiffer DEF Lacks
  <2> QED
    BY <2>1, SplitOne DEF Text
<1> QED
  BY <1>1, <1>2, <1>4, <1>5 DEF SplitsAt

(* The j-th parameter, and no other, has the key. *)
OnlyAt(parts, n, j, key, w) ==
    /\ DOMAIN parts = 1..n /\ Trim(parts[j]) = <<key>> \o w
    /\ \A i \in 1..n : i # j => parts[i] \in Seq(Token \ {key})

(* What the first line gives. *)
LEMMA GivenOne ==
    ASSUME NEW parts, NEW n \in Nat, NEW j \in 1..n, NEW key \in Token, NEW w \in Seq(Token),
           OnlyAt(parts, n, j, key, w)
    PROVE  Given(Params(parts), key) = {Unquote(w)}
<1> USE DEF OnlyAt
<1>1. PICK params : params = Params(parts)
  OBVIOUS
<1>2. DOMAIN params = 1..n /\ \A i \in 1..n : params[i] = Trim(parts[i])
  BY <1>1 DEF Params
<1>3. params[j] # <<>> /\ params[j][1] = key /\ Tail(params[j]) = w
  <2>1. PICK x : x = <<key>> \o w
    OBVIOUS
  <2>2. x # <<>> /\ x[1] = key /\ Tail(x) = w
    BY <2>1, LedBy
  <2> QED
    BY <1>2, <2>1, <2>2
<1>4. ASSUME NEW i \in 1..n, i # j, params[i] # <<>> PROVE params[i][1] # key
  <2>1. parts[i] \in Seq(Token \ {key}) /\ Token \ {key} \in SUBSET Token
    BY <1>4
  <2>2. PICK p \in Seq(Token \ {key}) : p = params[i]
    BY <1>2, <2>1, TrimKeeps
  <2>3. 1 \in 1..Len(p)
    BY <1>4, <2>2, LenProperties, EmptySeq
  <2> QED
    BY <2>2, <2>3, ElementOfSeq
<1>5. PICK places : places = {i \in DOMAIN params : params[i] # <<>> /\ params[i][1] = key}
  OBVIOUS
<1>6. places = {j}
  BY <1>2, <1>3, <1>4, <1>5
<1>7. Max(places) = j
  <2>1. {j} \in SUBSET Int /\ j \in {j} /\ \A x \in {j} : j >= x
    OBVIOUS
  <2> QED
    BY <1>6, <2>1, MostIs
<1>8. Given(params, key) = IF places = {} THEN {} ELSE {Unquote(Tail(params[Max(places)]))}
  BY <1>5, Zenon DEF Given
<1>9. places # {}
  BY <1>6
<1> QED
  BY <1>1, <1>3, <1>7, <1>8, <1>9, Zenon

LEMMA GivenNone ==
    ASSUME NEW parts, NEW key, parts \in Seq(Seq(Token \ {key}))
    PROVE  Given(Params(parts), key) = {}
<1>1. PICK params : params = Params(parts)
  OBVIOUS
<1>2. DOMAIN params = 1..Len(parts) /\ \A i \in 1..Len(parts) : params[i] = Trim(parts[i])
  BY <1>1, LenProperties DEF Params
<1>3. ASSUME NEW i \in 1..Len(parts), params[i] # <<>> PROVE params[i][1] # key
  <2>1. parts[i] \in Seq(Token \ {key}) /\ Token \ {key} \in SUBSET Token
    BY ElementOfSeq
  <2>2. PICK p \in Seq(Token \ {key}) : p = params[i]
    BY <1>2, <2>1, TrimKeeps
  <2>3. 1 \in 1..Len(p)
    BY <1>3, <2>2, LenProperties, EmptySeq
  <2> QED
    BY <2>2, <2>3, ElementOfSeq
<1>4. PICK places : places = {i \in DOMAIN params : params[i] # <<>> /\ params[i][1] = key}
  OBVIOUS
<1>5. places = {}
  BY <1>2, <1>3, <1>4
<1>6. Given(params, key) = IF places = {} THEN {} ELSE {Unquote(Tail(params[Max(places)]))}
  BY <1>4, Zenon DEF Given
<1> QED
  BY <1>1, <1>5, <1>6, Zenon

LEMMA GivenSome ==
    ASSUME NEW parts, NEW n \in Nat, DOMAIN parts = 1..n, NEW j \in 1..n, NEW key \in Token, NEW w \in Seq(Token),
           Trim(parts[j]) = <<key>> \o w
    PROVE  Given(Params(parts), key) # {}
<1>1. PICK params : params = Params(parts)
  OBVIOUS
<1>2. DOMAIN params = 1..n /\ \A i \in 1..n : params[i] = Trim(parts[i])
  BY <1>1 DEF Params
<1>3. params[j] # <<>> /\ params[j][1] = key
  <2>1. PICK x : x = <<key>> \o w
    OBVIOUS
  <2>2. x # <<>> /\ x[1] = key
    BY <2>1, LedBy
  <2> QED
    BY <1>2, <2>1, <2>2
<1>4. PICK places : places = {i \in DOMAIN params : params[i] # <<>> /\ params[i][1] = key}
  OBVIOUS
<1>5. places # {}
  BY <1>2, <1>3, <1>4
<1>6. Given(params, key) = IF places = {} THEN {} ELSE {Unquote(Tail(params[Max(places)]))}
  BY <1>4, Zenon DEF Given
<1> QED
  BY <1>1, <1>5, <1>6

LEMMA NameGiven ==
    ASSUME NEW name \in Seq(NameToken), NEW f \in Seq(Token), f = <<>> \/ f = <<Semicolon>> \o FileParam,
           NEW parts, parts = Split(LineValue(name, f), Semicolon)
    PROVE  Given(Params(parts), NameKey) = {NameRead(name)}
<1>1. name \in Seq(Token)
  BY SeqMonotonic DEF NameToken
<1>2. parts = << <<FormData>> >> \o Split(Named(name, f), Semicolon)
  BY <1>1, ValueSplit
<1>3. PICK first \in Seq(Token), w \in Seq(Token), others \in Seq(Seq(Token \ {NameKey})) :
         /\ Split(Named(name, f), Semicolon) = <<first>> \o others
         /\ Trim(first) = <<NameKey>> \o w /\ Unquote(w) = NameRead(name)
  BY NameSplit, Zenon DEF NamePieces
<1>4. PICK o \in Seq(Seq(Token)) : o = others
  BY SeqMonotonic
<1>5. PICK a \in Seq(Seq(Token)), b \in Seq(Seq(Token)) :
         a = << <<FormData>> >> /\ b = <<first>> /\ Len(a) = 1 /\ Len(b) = 1 /\ a[1] = <<FormData>> /\ b[1] = first
  <2>1. <<FormData>> \in Seq(Token)
    BY MarksAre, OneMark
  <2>2. << <<FormData>> >> \in Seq(Seq(Token)) /\ <<first>> \in Seq(Seq(Token))
    BY <2>1
  <2> QED
    BY <2>2
<1>6. PICK n \in Nat : n = Len(o)
  BY LenProperties
<1>7. PICK c \in Seq(Seq(Token)) : c = b \o o /\ Len(c) = n + 1 /\ c[1] = first /\ \A i \in 2..(n + 1) : c[i] = o[i - 1]
  <2>1. /\ b \o o \in Seq(Seq(Token)) /\ Len(b \o o) = n + 1
        /\ \A i \in 1..(n + 1) : (b \o o)[i] = IF i <= 1 THEN b[i] ELSE o[i - 1]
    BY <1>5, <1>6, ConcatProperties
  <2>2. (b \o o)[1] = first /\ \A i \in 2..(n + 1) : (b \o o)[i] = o[i - 1]
    BY <1>5, <2>1
  <2> QED
    BY <2>1, <2>2
<1>8. PICK d \in Seq(Seq(Token)) : d = a \o c /\ Len(d) = n + 2 /\ d[1] = <<FormData>> /\ \A i \in 2..(n + 2) : d[i] = c[i - 1]
  <2>1. /\ a \o c \in Seq(Seq(Token)) /\ Len(a \o c) = n + 2
        /\ \A i \in 1..(n + 2) : (a \o c)[i] = IF i <= 1 THEN a[i] ELSE c[i - 1]
    BY <1>5, <1>7, ConcatProperties
  <2>2. (a \o c)[1] = <<FormData>> /\ \A i \in 2..(n + 2) : (a \o c)[i] = c[i - 1]
    BY <1>5, <2>1
  <2> QED
    BY <2>1, <2>2
<1>9. d = parts
  BY <1>2, <1>3, <1>4, <1>5, <1>7, <1>8, Zenon
<1>10. d[2] = first
  <2>1. 2 \in 2..(n + 2) /\ 2 - 1 = 1
    OBVIOUS
  <2> QED
    BY <1>7, <1>8, <2>1
<1>11. ASSUME NEW i \in 1..(n + 2), i # 2 PROVE d[i] \in Seq(Token \ {NameKey})
  <2>1. CASE i = 1
    <3>1. PICK S : S = Token \ {NameKey}
      OBVIOUS
    <3>2. FormData \in S
      BY <3>1, MarksAre, MarksDiffer
    <3>3. <<FormData>> \in Seq(S)
      BY <3>2
    <3> QED
      BY <1>8, <2>1, <3>1, <3>3, Zenon
  <2>2. CASE i # 1
    <3>1. i \in 2..(n + 2) /\ i - 1 \in 2..(n + 1) /\ (i - 1) - 1 \in 1..n
      BY <1>11, <2>2
    <3>2. d[i] = o[(i - 1) - 1]
      BY <1>7, <1>8, <3>1
    <3>3. others[(i - 1) - 1] \in Seq(Token \ {NameKey})
      BY <1>4, <1>6, <3>1, ElementOfSeq
    <3> QED
      BY <1>4, <3>2, <3>3
  <2> QED
    BY <2>1, <2>2
<1>12. n + 2 \in Nat /\ DOMAIN d = 1..(n + 2) /\ 2 \in 1..(n + 2) /\ NameKey \in Token
  BY <1>8, MarksAre, LenProperties
<1>13. Trim(d[2]) = <<NameKey>> \o w
  BY <1>3, <1>10
<1>14. Given(Params(d), NameKey) = {Unquote(w)}
  <2>1. PICK n2 \in Nat : n2 = n + 2
    OBVIOUS
  <2>2. OnlyAt(d, n2, 2, NameKey, w)
    BY <1>11, <1>12, <1>13, <2>1, Zenon DEF OnlyAt
  <2>3. 2 \in 1..n2
    BY <1>12, <2>1
  <2> QED
    BY <1>12, <2>2, <2>3, GivenOne
<1> QED
  BY <1>3, <1>9, <1>14

LEMMA FileGiven ==
    ASSUME NEW name \in Seq(NameToken), NEW f \in Seq(Token), f = <<>> \/ f = <<Semicolon>> \o FileParam,
           NEW parts, parts = Split(LineValue(name, f), Semicolon)
    PROVE  Given(Params(parts), FileKey) = {} <=> f = <<>>
<1>1. name \in Seq(Token) /\ name \in Seq(Token \ {FileKey})
  BY SeqMonotonic DEF NameToken
<1>2. ASSUME f = <<>> PROVE Given(Params(parts), FileKey) = {}
  <2>1. PICK S : S = Token \ {FileKey}
    OBVIOUS
  <2>2. FormData \in S /\ Semicolon \in S /\ Space \in S /\ NameKey \in S /\ Quote \in S
    BY <2>1, MarksAre, MarksDiffer, Zenon
  <2>3. <<FormData>> \in Seq(S) /\ <<Semicolon>> \in Seq(S) /\ <<Space>> \in Seq(S) /\ <<NameKey>> \in Seq(S) /\ <<Quote>> \in Seq(S)
        /\ f \in Seq(S) /\ name \in Seq(S)
    BY <1>1, <1>2, <2>1, <2>2, EmptySeq
  <2>4. Quoted(name) \in Seq(S)
    BY <2>3, ConcatProperties, Zenon DEF Quoted
  <2>5. Named(name, f) \in Seq(S)
    BY <2>3, <2>4, ConcatProperties, Zenon DEF Named
  <2>6. LineValue(name, f) \in Seq(S)
    BY <2>3, <2>5, ConcatProperties, Zenon DEF LineValue
  <2>7. S \in SUBSET Token
    BY <2>1
  <2>8. parts \in Seq(Seq(S))
    BY <2>6, <2>7, SplitKeeps
  <2> QED
    BY <2>1, <2>8, GivenNone
<1>3. ASSUME f = <<Semicolon>> \o FileParam PROVE Given(Params(parts), FileKey) # {}
  <2>1. PICK p \in Seq(Token) : p = FileParam /\ Lacks(p, Semicolon)
    BY FileParamIs
  <2>2. PICK before \in Seq(Token) : before = LineValue(name, <<>>)
    BY <1>1, EmptySeq, LineValueIs
  <2>3. LineValue(name, f) = before \o <<Semicolon>> \o p
    <3>1. PICK x1 \in Seq(Token) : x1 = Quoted(name)
      BY <1>1, QuotedIs
    <3>2. PICK k \in Seq(Token), b \in Seq(Token), c \in Seq(Token), m \in Seq(Token) :
             k = <<NameKey>> /\ b = <<Space>> /\ c = <<Semicolon>> /\ m = <<FormData>>
      BY MarksAre, OneMark
    <3>3. PICK x2 \in Seq(Token) : x2 = k \o x1
      BY ConcatProperties
    <3>4. PICK x3 \in Seq(Token) : x3 = b \o x2
      BY ConcatProperties
    <3>5. PICK x4 \in Seq(Token) : x4 = c \o x3
      BY ConcatProperties
    <3>6. PICK x5 \in Seq(Token) : x5 = m \o x4
      BY ConcatProperties
    <3>7. x1 \o <<>> = x1
      BY ConcatEmptySeq
    <3>8. before = x5
      BY <2>2, <3>1, <3>2, <3>3, <3>4, <3>5, <3>6, <3>7, Zenon DEF LineValue, Named
    <3>9. Grouped(k, x1, f) /\ Grouped(b, x2, f) /\ Grouped(c, x3, f) /\ Grouped(m, x4, f)
      BY Grouping DEF Text
    <3>10. LineValue(name, f) = x5 \o f
      BY <3>1, <3>2, <3>3, <3>4, <3>5, <3>6, <3>9, Zenon DEF LineValue, Named, Grouped
    <3>11. Grouped(x5, c, p)
      BY Grouping DEF Text
    <3> QED
      BY <1>3, <2>1, <3>2, <3>8, <3>10, <3>11, Zenon DEF Grouped
  <2>4. SplitsAt(LineValue(name, f), before, p, Semicolon)
    BY <2>3, MarksAre, SplitJoin DEF Text
  <2>5. Split(p, Semicolon) = <<p>>
    BY <2>1, SplitOne DEF Text
  <2>6. PICK a \in Seq(Text) : a = Split(before, Semicolon)
    BY SplitAppend DEF Pieces
  <2>7. PICK n \in Nat : n = Len(a)
    BY LenProperties
  <2>8. parts = Append(a, p)
    BY <2>4, <2>5, <2>6, AppendIsConcat DEF SplitsAt, Text
  <2>9. DOMAIN parts = 1..(n + 1) /\ parts[n + 1] = p
    BY <2>7, <2>8, AppendProperties, LenProperties DEF Text
  <2>10. PICK q \in Seq(Token) : q = Quoted(<<FileName>>)
    BY MarksAre, OneMark, QuotedIs
  <2>11. Trim(parts[n + 1]) = <<FileKey>> \o q
    BY <2>1, <2>9, <2>10, FileParamIs
  <2>12. n + 1 \in Nat /\ n + 1 \in 1..(n + 1) /\ FileKey \in Token
    BY MarksAre
  <2> QED
    BY <2>9, <2>11, <2>12, GivenSome
<1> QED
  BY <1>2, <1>3

FoundAll(name, file, type) == [name |-> name, file |-> file, type |-> type]

(* The two lines that a head may have, as the server reads them. *)
LEMMA DispositionRead ==
    ASSUME NEW line, line # <<>>, line[1] = Disposition, NEW value, value = Trim(Tail(line)),
           NEW names, names = Given(Params(Split(value, Semicolon)), NameKey),
           NEW files, files = Given(Params(Split(value, Semicolon)), FileKey)
    PROVE  HeaderLine(NoHeaders, line) = FoundAll(names, files, {})
<1>1. line[1] # ContentType
  BY MarksDiffer
<1>2. HeaderLine(NoHeaders, line) =
         [NoHeaders EXCEPT !.name = Latest(@, names), !.file = Latest(@, files)]
  BY <1>1 DEF HeaderLine, Params
<1>3. Latest({}, names) = names /\ Latest({}, files) = files
  BY DEF Latest
<1> QED
  BY <1>2, <1>3 DEF NoHeaders, FoundAll

LEMMA TypeLineRead ==
    ASSUME NEW names, NEW files, NEW line, line # <<>>, line[1] = ContentType, NEW value, value = Trim(Tail(line)),
           value # <<>>
    PROVE  HeaderLine(FoundAll(names, files, {}), line) = FoundAll(names, files, {value})
<1>1. HeaderLine(FoundAll(names, files, {}), line) = [FoundAll(names, files, {}) EXCEPT !.type = {value}]
  BY DEF HeaderLine
<1> QED
  BY <1>1 DEF FoundAll

LEMMA TypeLineHas ==
    ASSUME NEW t \in Text, Tight(t), NEW line, line = <<ContentType, Space>> \o t
    PROVE  line # <<>> /\ line[1] = ContentType /\ Trim(Tail(line)) = t
<1>1. PICK k \in Seq(Token), b \in Seq(Token) : k = <<ContentType>> /\ b = <<Space>>
  BY MarksAre, OneMark
<1>2. <<ContentType, Space>> = k \o b
  BY <1>1
<1>3. PICK w \in Seq(Token) : w = b \o t
  BY ConcatProperties DEF Text
<1>4. Grouped(k, b, t)
  BY Grouping DEF Text
<1>5. line = <<ContentType>> \o w
  BY <1>1, <1>2, <1>3, <1>4 DEF Grouped
<1>6. line # <<>> /\ line[1] = ContentType /\ Tail(line) = w
  BY <1>5, MarksAre, LedBy
<1>7. b \in Spaces
  BY <1>1, TokensAre
<1>8. Inside(w, t)
  BY <1>3, <1>7, InsideLead
<1> QED
  BY <1>6, <1>8, TrimInside

LEMMA FirstLineRead ==
    ASSUME NEW part \in FormPart, part.name \in Seq(NameToken)
    PROVE  \E files : /\ HeaderLine(NoHeaders, FirstLine(part)) = FoundAll({NameRead(part.name)}, files, {})
                      /\ files = {} <=> ~part.file
<1>1. part.name \in Seq(Token)
  BY SeqMonotonic DEF NameToken
<1>2. PICK f : f = FilePart(part)
  OBVIOUS
<1>3. f \in Seq(Token) /\ (f = <<>> \/ f = <<Semicolon>> \o FileParam) /\ (f = <<>> <=> ~part.file)
  <2>1. f = IF part.file THEN <<Semicolon>> \o FileParam ELSE <<>>
    BY <1>2, FilePartIs
  <2>2. PICK p \in Seq(Token) : p = FileParam
    BY FileParamIs
  <2>3. PICK x : x = <<Semicolon>> \o p
    OBVIOUS
  <2>4. x \in Seq(Token) /\ x # <<>>
    BY <2>3, MarksAre, LedBy
  <2> QED
    BY <2>1, <2>2, <2>3, <2>4, EmptySeq
<1>4. PICK v \in Seq(Token) : v = LineValue(part.name, f) /\ v # <<>> /\ Tight(v)
  BY <1>1, <1>3, LineValueIs
<1>5. PICK w \in Seq(Token) : w = <<Space>> \o v
  BY MarksAre, OneMark, ConcatProperties
<1>6. FirstLine(part) = <<Disposition>> \o w
  BY <1>1, <1>2, <1>3, <1>4, <1>5, FirstLineIs
<1>7. PICK line : line = FirstLine(part)
  OBVIOUS
<1>8. line # <<>> /\ line[1] = Disposition /\ Tail(line) = w
  BY <1>6, <1>7, MarksAre, LedBy
<1>9. Trim(w) = v
  BY <1>4, <1>5, TokensAre, InsideLead, TrimInside DEF Text
<1>10. PICK parts : parts = Split(v, Semicolon)
  OBVIOUS
<1>11. Given(Params(parts), NameKey) = {NameRead(part.name)}
  BY <1>3, <1>4, <1>10, NameGiven
<1>12. Given(Params(parts), FileKey) = {} <=> ~part.file
  BY <1>3, <1>4, <1>10, FileGiven
<1>13. HeaderLine(NoHeaders, line) = FoundAll(Given(Params(parts), NameKey), Given(Params(parts), FileKey), {})
  BY <1>8, <1>9, <1>10, DispositionRead
<1> QED
  BY <1>7, <1>11, <1>12, <1>13

LacksIs(s, x) == s \in Seq(Token \ {x}) => Lacks(s, x) /\ s \in Text

LEMMA LacksBySet == ASSUME NEW s, NEW x PROVE LacksIs(s, x)
<1> SUFFICES ASSUME s \in Seq(Token \ {x}) PROVE Lacks(s, x) /\ s \in Text
  BY DEF LacksIs
<1>1. PICK S : S = Token \ {x}
  OBVIOUS
<1>2. s \in Seq(S)
  BY <1>1
<1>3. \A i \in 1..Len(s) : s[i] \in S
  BY <1>2, ElementOfSeq
<1>4. S \subseteq Token
  BY <1>1
<1> QED
  BY <1>1, <1>2, <1>3, <1>4, SeqMonotonic DEF Lacks, Text

LEMMA TwoItems == ASSUME NEW T, NEW a \in T, NEW x \in T PROVE <<a>> \o <<x>> = <<a, x>>
<1>1. <<a, x>> = Append(<<a>>, x)
  OBVIOUS
<1>2. <<a>> \in Seq(T)
  OBVIOUS
<1>3. Append(<<a>>, x) = <<a>> \o <<x>>
  BY <1>2, AppendIsConcat
<1> QED
  BY <1>1, <1>3

LineOfType(t) == <<ContentType, Space>> \o t

LEMMA HeadSplit ==
    ASSUME NEW part \in FormPart, part.name \in Seq(NameToken), part.type \in Seq(Token \ {CrLf})
    PROVE  Split(EncodeHead(part), CrLf) =
               IF part.type = <<>> THEN <<FirstLine(part)>> ELSE <<FirstLine(part), LineOfType(part.type)>>
<1>1. PICK a : a = FirstLine(part)
  OBVIOUS
<1>2. a \in Text /\ Lacks(a, CrLf)
  BY <1>1, FirstLineLies, LacksBySet DEF LacksIs
<1>3. Split(a, CrLf) = <<a>>
  BY <1>2, SplitOne
<1>4. EncodeHead(part) = a \o TypeLine(part)
  BY <1>1, HeadLines
<1>5. CASE part.type = <<>>
  <2>1. EncodeHead(part) = a
    BY <1>2, <1>4, <1>5, ConcatEmptySeq DEF TypeLine, Text
  <2> QED
    BY <1>1, <1>3, <1>5, <2>1
<1>6. CASE part.type # <<>>
  <2>1. PICK t \in Seq(Token \ {CrLf}) : t = part.type
    OBVIOUS
  <2>2. t \in Text /\ Lacks(t, CrLf)
    BY LacksBySet DEF LacksIs
  <2>3. PICK c \in Seq(Token), k \in Seq(Token), b \in Seq(Token) : c = <<CrLf>> /\ k = <<ContentType>> /\ b = <<Space>>
    BY MarksAre, OneMark
  <2>4. PICK x : x = LineOfType(t)
    OBVIOUS
  <2>5. x = <<ContentType, Space>> \o t
    BY <2>4 DEF LineOfType
  <2>6. x = k \o (b \o t)
    BY <2>2, <2>3, <2>5, Grouping DEF Text, Grouped
  <2>7. x \in Text /\ Lacks(x, CrLf)
    <3>1. PICK S : S = Token \ {CrLf}
      OBVIOUS
    <3>2. ContentType \in S /\ Space \in S
      BY <3>1, MarksAre, MarksDiffer
    <3>3. <<ContentType>> \in Seq(S) /\ <<Space>> \in Seq(S) /\ t \in Seq(S)
      BY <3>1, <3>2
    <3>4. x \in Seq(S)
      BY <2>3, <2>6, <3>3, ConcatProperties, Zenon
    <3> QED
      BY <3>1, <3>4, LacksBySet DEF LacksIs
  <2>8. Split(x, CrLf) = <<x>>
    BY <2>7, SplitOne
  <2>9. TypeLine(part) = c \o x
    <3>1. TypeLine(part) = <<CrLf, ContentType, Space>> \o t
      BY <1>6, <2>1 DEF TypeLine
    <3>2. <<CrLf, ContentType, Space>> = c \o (k \o b)
      BY <2>3
    <3>3. PICK kb \in Seq(Token) : kb = k \o b
      BY ConcatProperties
    <3>4. Grouped(c, kb, t) /\ Grouped(k, b, t)
      BY <2>2, Grouping DEF Text
    <3> QED
      BY <2>6, <3>1, <3>2, <3>3, <3>4 DEF Grouped
  <2>10. EncodeHead(part) = a \o <<CrLf>> \o x
    BY <1>2, <1>4, <2>3, <2>7, <2>9, Grouping DEF Text, Grouped
  <2>11. SplitsAt(EncodeHead(part), a, x, CrLf)
    BY <1>2, <2>7, <2>10, MarksAre, SplitJoin
  <2>12. Split(EncodeHead(part), CrLf) = <<a>> \o <<x>>
    BY <1>3, <2>8, <2>11 DEF SplitsAt
  <2>13. <<a>> \o <<x>> = <<a, x>>
    BY <1>2, <2>7, TwoItems
  <2> QED
    BY <1>1, <1>6, <2>1, <2>4, <2>12, <2>13
<1> QED
  BY <1>5, <1>6

AfterLines(lines, found) ==
    LET all == found[Len(lines)] IN
    IF all.type = {} /\ all.file # {} THEN [all EXCEPT !.type = {<<"application/octet-stream">>}] ELSE all

LinesFound(lines, found) ==
    found = [n \in 0..Len(lines) |-> IF n = 0 THEN NoHeaders ELSE HeaderLine(found[n - 1], lines[n])]

LEMMA HeadersBy ==
    ASSUME NEW block, NEW lines, lines = Split(block, CrLf), NEW f, LinesFound(lines, f)
    PROVE  \E g : LinesFound(lines, g) /\ Headers(block) = AfterLines(lines, g)
<1> DEFINE all == Split(block, CrLf)
           g == CHOOSE found : found = [n \in 0..Len(all) |-> IF n = 0 THEN NoHeaders ELSE HeaderLine(found[n - 1], all[n])]
<1>1. LinesFound(lines, g)
  BY Zenon DEF LinesFound
<1>2. Headers(block) = AfterLines(all, g)
  BY Zenon DEF Headers, AfterLines
<1> QED
  BY <1>1, <1>2

LEMMA TwoLines ==
    ASSUME NEW block, NEW a \in Text, NEW x \in Text, Split(block, CrLf) = <<a, x>>
    PROVE  Headers(block) = LET all == HeaderLine(HeaderLine(NoHeaders, a), x) IN
               IF all.type = {} /\ all.file # {} THEN [all EXCEPT !.type = {<<"application/octet-stream">>}] ELSE all
<1>1. PICK lines : lines = <<a, x>> /\ Len(lines) = 2 /\ lines[1] = a /\ lines[2] = x
  OBVIOUS
<1>2. PICK h1, h2 : h1 = HeaderLine(NoHeaders, a) /\ h2 = HeaderLine(h1, x)
  OBVIOUS
<1>3. 0..2 = {0, 1, 2} /\ 1 - 1 = 0 /\ 2 - 1 = 1
  OBVIOUS
<1>4. PICK f : f = [n \in 0..2 |-> IF n = 0 THEN NoHeaders ELSE IF n = 1 THEN h1 ELSE h2]
  OBVIOUS
<1>5. LinesFound(lines, f)
  <2>1. f[0] = NoHeaders /\ f[1] = h1 /\ f[2] = h2
    BY <1>4
  <2>2. ASSUME NEW n \in 0..2 PROVE f[n] = IF n = 0 THEN NoHeaders ELSE HeaderLine(f[n - 1], lines[n])
    <3>1. CASE n = 0
      BY <2>1, <3>1
    <3>2. CASE n = 1
      BY <1>1, <1>2, <2>1, <3>2
    <3>3. CASE n = 2
      BY <1>1, <1>2, <2>1, <3>3
    <3> QED
      BY <1>3, <3>1, <3>2, <3>3
  <2>3. f = [n \in 0..2 |-> f[n]]
    BY <1>4
  <2> QED
    BY <1>1, <2>2, <2>3, Zenon DEF LinesFound
<1>6. PICK g : LinesFound(lines, g) /\ Headers(block) = AfterLines(lines, g)
  BY <1>1, <1>5, HeadersBy
<1>7. \A n \in 0..2 : g[n] = IF n = 0 THEN NoHeaders ELSE HeaderLine(g[n - 1], lines[n])
  BY <1>1, <1>6, Zenon DEF LinesFound
<1>8. g[2] = h2
  BY <1>1, <1>2, <1>3, <1>7
<1> QED
  BY <1>1, <1>2, <1>6, <1>8, Zenon DEF AfterLines

LEMMA SingleLine ==
    ASSUME NEW block, NEW a \in Text, Split(block, CrLf) = <<a>>
    PROVE  Headers(block) = LET all == HeaderLine(NoHeaders, a) IN
               IF all.type = {} /\ all.file # {} THEN [all EXCEPT !.type = {<<"application/octet-stream">>}] ELSE all
<1>1. PICK lines : lines = <<a>> /\ Len(lines) = 1 /\ lines[1] = a
  OBVIOUS
<1>2. PICK h1 : h1 = HeaderLine(NoHeaders, a)
  OBVIOUS
<1>3. 0..1 = {0, 1} /\ 1 - 1 = 0
  OBVIOUS
<1>4. PICK f : f = [n \in 0..1 |-> IF n = 0 THEN NoHeaders ELSE h1]
  OBVIOUS
<1>5. LinesFound(lines, f)
  <2>1. f[0] = NoHeaders /\ f[1] = h1
    BY <1>4
  <2>2. ASSUME NEW n \in 0..1 PROVE f[n] = IF n = 0 THEN NoHeaders ELSE HeaderLine(f[n - 1], lines[n])
    <3>1. CASE n = 0
      BY <2>1, <3>1
    <3>2. CASE n = 1
      BY <1>1, <1>2, <2>1, <3>2
    <3> QED
      BY <1>3, <3>1, <3>2
  <2>3. f = [n \in 0..1 |-> f[n]]
    BY <1>4
  <2> QED
    BY <1>1, <2>2, <2>3, Zenon DEF LinesFound
<1>6. PICK g : LinesFound(lines, g) /\ Headers(block) = AfterLines(lines, g)
  BY <1>1, <1>5, HeadersBy
<1>7. \A n \in 0..1 : g[n] = IF n = 0 THEN NoHeaders ELSE HeaderLine(g[n - 1], lines[n])
  BY <1>1, <1>6, Zenon DEF LinesFound
<1>8. g[1] = h1
  BY <1>1, <1>2, <1>3, <1>7
<1> QED
  BY <1>1, <1>2, <1>6, <1>8, Zenon DEF AfterLines

(* What the head of a part that was sent says. *)
LEMMA HeadIs ==
    ASSUME NEW part \in FormPart, part.name \in Seq(NameToken), part.type \in Seq(Token \ {CrLf}), Tight(part.type),
           NEW head, head = Headers(EncodeHead(part))
    PROVE  head.name = {NameRead(part.name)} /\ head.type = TypeRead(part)
<1>1. PICK a : a = FirstLine(part)
  OBVIOUS
<1>2. a \in Text
  BY <1>1, FirstLineLies DEF Text
<1>3. PICK files : /\ HeaderLine(NoHeaders, a) = FoundAll({NameRead(part.name)}, files, {})
                   /\ files = {} <=> ~part.file
  BY <1>1, FirstLineRead
<1>4. CASE part.type = <<>>
  <2>1. Split(EncodeHead(part), CrLf) = <<a>>
    BY <1>1, <1>4, HeadSplit
  <2>2. PICK all : all = HeaderLine(NoHeaders, a)
    OBVIOUS
  <2>3. head = IF all.type = {} /\ all.file # {} THEN [all EXCEPT !.type = {<<"application/octet-stream">>}] ELSE all
    BY <1>2, <2>1, <2>2, SingleLine
  <2>4. all = [name |-> {NameRead(part.name)}, file |-> files, type |-> {}]
    BY <1>3, <2>2 DEF FoundAll
  <2>5. all.name = {NameRead(part.name)} /\ all.file = files /\ all.type = {}
    BY <2>4
  <2>6. head.name = all.name /\ head.type = IF files # {} THEN {<<"application/octet-stream">>} ELSE {}
    BY <2>3, <2>4, <2>5
  <2> QED
    BY <1>3, <1>4, <2>5, <2>6 DEF TypeRead
<1>5. CASE part.type # <<>>
  <2>1. PICK t : t = part.type
    OBVIOUS
  <2>2. t \in Text /\ Tight(t) /\ t # <<>>
    BY <1>5, <2>1, LacksBySet DEF LacksIs
  <2>3. PICK x : x = LineOfType(t)
    OBVIOUS
  <2>4. x = <<ContentType, Space>> \o t
    BY <2>3 DEF LineOfType
  <2>5. x # <<>> /\ x[1] = ContentType /\ Trim(Tail(x)) = t
    BY <2>2, <2>4, TypeLineHas
  <2>6. x \in Text
    BY <2>2, <2>4, MarksAre, ConcatProperties DEF Text
  <2>7. Split(EncodeHead(part), CrLf) = <<a, x>>
    BY <1>1, <1>5, <2>1, <2>3, HeadSplit
  <2>8. PICK all : all = HeaderLine(HeaderLine(NoHeaders, a), x)
    OBVIOUS
  <2>9. head = IF all.type = {} /\ all.file # {} THEN [all EXCEPT !.type = {<<"application/octet-stream">>}] ELSE all
    BY <1>2, <2>6, <2>7, <2>8, TwoLines
  <2>10. all = FoundAll({NameRead(part.name)}, files, {t})
    BY <1>3, <2>2, <2>5, <2>8, TypeLineRead
  <2>11. all = [name |-> {NameRead(part.name)}, file |-> files, type |-> {t}]
    BY <2>10 DEF FoundAll
  <2>12. all.name = {NameRead(part.name)} /\ all.type = {t}
    BY <2>11
  <2>13. head = all
    BY <2>9, <2>12
  <2> QED
    BY <1>5, <2>1, <2>12, <2>13 DEF TypeRead
<1> QED
  BY <1>4, <1>5

(* A part that lies in the tokens of a form: where its blank line and the next delimiter are. *)
PartClosed(s, at, part, h, c) ==
    /\ NoPair(s, CrLf, CrLf, at + 3, at + h + 3)
    /\ NoPair(s, CrLf, Delimiter, at + h + 5, at + h + c + 5)

Sendable(part) ==
    /\ part \in FormPart /\ part.name \in Seq(NameToken) /\ part.type \in Seq(Token \ {CrLf}) /\ Tight(part.type)
    /\ NoPair(part.content, CrLf, Delimiter, 1, Len(part.content))

LEMMA SentPart ==
    ASSUME NEW part \in FormPart, NEW delimiter, MayBeSent(part, delimiter)
    PROVE  Sendable(part)
<1>1. part.name \in Seq(NameToken) /\ part.type \in Seq(Token \ {CrLf}) /\ Tight(part.type)
  BY SentTokens
<1>2. NoPair(part.content, CrLf, Delimiter, 1, Len(part.content))
  BY DEF MayBeSent, NoPair
<1> QED
  BY <1>1, <1>2 DEF Sendable

LEMMA PlaceWithin ==
    ASSUME NEW a \in Nat, NEW c \in Nat, NEW i \in (a + 1)..((a + c + 1) - 1)
    PROVE  \E j \in 1..c : i = a + j
<1>1. i - a \in 1..c /\ i = a + (i - a)
  OBVIOUS
<1> QED
  BY <1>1

Sizes(part, h, c) == h = Len(EncodeHead(part)) /\ c = Len(part.content)

LEMMA ClosedPart ==
    ASSUME NEW part, Sendable(part), NEW at \in Nat, NEW h \in Nat, NEW c \in Nat, NEW s,
           Sizes(part, h, c), PartLaid(s, at, part, h, c)
    PROVE  PartClosed(s, at, part, h, c) /\ h >= 1
<1>1. PICK head : head = EncodeHead(part)
  OBVIOUS
<1>2. head \in Seq(Token) /\ Len(head) >= 1 /\ head[Len(head)] # CrLf /\ NoPair(head, CrLf, CrLf, 1, Len(head))
  BY <1>1, HeadClosed DEF Sendable
<1>3. h >= 1 /\ Len(head) = h
  BY <1>1, <1>2 DEF Sizes
<1>4. \A i \in 1..h : s[at + 2 + i] = head[i]
  BY <1>1, <1>3 DEF PartLaid, LiesAt
<1>5. NoPair(s, CrLf, CrLf, at + 3, at + h + 3)
  <2> SUFFICES ASSUME NEW i \in (at + 3)..(at + h + 3 - 1), s[i] = CrLf, s[i + 1] = CrLf PROVE FALSE
    BY DEF NoPair
  <2>1. PICK j \in 1..h : i = at + 2 + j
    OBVIOUS
  <2>2. CASE j = h
    BY <1>2, <1>3, <1>4, <2>1, <2>2
  <2>3. CASE j # h
    <3>1. j + 1 \in 1..h /\ at + 2 + (j + 1) = i + 1 /\ j \in 1..(h - 1)
      BY <2>1, <2>3
    <3>2. head[j] = CrLf /\ head[j + 1] = CrLf
      BY <1>4, <2>1, <3>1
    <3> QED
      BY <1>2, <1>3, <3>1, <3>2 DEF NoPair
  <2> QED
    BY <2>2, <2>3
<1>6. \A i \in 1..c : s[at + h + 4 + i] = part.content[i]
  BY DEF PartLaid, LiesAt, Sizes
<1>7. s[at + h + c + 5] = CrLf /\ CrLf # Delimiter
  BY MarksDiffer DEF PartLaid
<1>8. PICK a \in Nat : a = at + h + 4 /\ a + 1 = at + h + 5 /\ a + c + 1 = at + h + c + 5
  OBVIOUS
<1>9. ASSUME NEW i \in (a + 1)..((a + c + 1) - 1), s[i] = CrLf, s[i + 1] = Delimiter PROVE FALSE
  <2>1. PICK j \in 1..c : i = a + j
    BY PlaceWithin
  <2>2. CASE j = c
    BY <1>7, <1>8, <1>9, <2>1, <2>2
  <2>3. CASE j # c
    <3>1. j + 1 \in 1..c /\ a + (j + 1) = i + 1 /\ j \in 1..(c - 1)
      BY <2>1, <2>3
    <3>2. part.content[j] = CrLf /\ part.content[j + 1] = Delimiter
      BY <1>6, <1>8, <1>9, <2>1, <3>1
    <3>3. NoPair(part.content, CrLf, Delimiter, 1, c)
      BY DEF Sendable, Sizes
    <3> QED
      BY <3>1, <3>2, <3>3 DEF NoPair
  <2> QED
    BY <2>2, <2>3
<1>10. NoPair(s, CrLf, Delimiter, at + h + 5, at + h + c + 5)
  BY <1>8, <1>9 DEF NoPair
<1> QED
  BY <1>3, <1>5, <1>10 DEF PartClosed

(* One round, in terms of what it finds. *)
Ended(body, after) == after <= Len(body) /\ body[after] = Hyphens

Reading(pos, fields) == [pos |-> pos, fields |-> fields, state |-> "reading"]

LEMMA RoundFails ==
    ASSUME NEW body, NEW boundary, NEW pos, NEW fields, NEW headEnd, headEnd = FirstAt(<<CrLf, CrLf>>, body, pos),
           NEW mid, mid = FirstAt(<<CrLf, boundary>>, body, headEnd + 2),
           \/ headEnd = 0 \/ mid = 0
           \/ ~Ended(body, mid + 2) /\ ~EndOfLine(body, mid + 2)
    PROVE  ReadPart(body, boundary, Reading(pos, fields)).state = "failed"
<1>1. PICK s : s = Reading(pos, fields)
  OBVIOUS
<1>2. s.state = "reading" /\ s.pos = pos /\ s.fields = fields
  BY <1>1 DEF Reading
<1>3. ReadPart(body, boundary, s) = [s EXCEPT !.state = "failed"]
  BY <1>2, Zenon DEF ReadPart, Ended
<1> QED
  BY <1>1, <1>3 DEF Reading

RoundOf(body, boundary, pos, headEnd, mid, head, content) ==
    /\ headEnd = FirstAt(<<CrLf, CrLf>>, body, pos) /\ mid = FirstAt(<<CrLf, boundary>>, body, headEnd + 2)
    /\ head = Headers(SubSeq(body, pos, headEnd - 1)) /\ content = SubSeq(body, headEnd + 2, mid - 1)
    /\ headEnd # 0 /\ mid # 0 /\ head.name # {} /\ (Ended(body, mid + 2) \/ EndOfLine(body, mid + 2))

AfterRound(body, fields, mid, head, content) ==
    [pos |-> mid + 2 + 1, fields |-> Insert(fields, head.name, [type |-> head.type, content |-> content]),
     state |-> IF Ended(body, mid + 2) \/ mid + 2 + 1 > Len(body) THEN "done" ELSE "reading"]

LEMMA RoundReads ==
    ASSUME NEW body, NEW boundary, NEW pos, NEW fields, NEW headEnd, NEW mid, NEW head, NEW content,
           RoundOf(body, boundary, pos, headEnd, mid, head, content)
    PROVE  ReadPart(body, boundary, Reading(pos, fields)) = AfterRound(body, fields, mid, head, content)
<1>1. PICK s : s = Reading(pos, fields)
  OBVIOUS
<1>2. s.state = "reading" /\ s.pos = pos /\ s.fields = fields
  BY <1>1 DEF Reading
<1>3. ReadPart(body, boundary, s) = AfterRound(body, s.fields, mid, head, content)
  BY <1>2, Zenon DEF ReadPart, Ended, RoundOf, AfterRound
<1> QED
  BY <1>1, <1>2, <1>3

LEMMA RoundKeeps ==
    ASSUME NEW body, NEW boundary, NEW s, s.state # "reading"
    PROVE  ReadPart(body, boundary, s) = s
BY Zenon DEF ReadPart

(* The first tokens of a form: what has arrived of it. *)
Cut(s, cut, b) == b \in Seq(Token) /\ Len(b) = cut /\ \A i \in 1..cut : b[i] = s[i]

LEMMA CutBody ==
    ASSUME NEW s \in Seq(Token), NEW cut \in 0..Len(s)
    PROVE  Cut(s, cut, SubSeq(s, 1, cut))
<1>1. cut \in Nat /\ Len(s) \in Nat /\ cut <= Len(s)
  BY LenProperties
<1>2. SubSeq(s, 1, cut) \in Seq(Token) /\ Len(SubSeq(s, 1, cut)) = cut /\ \A i \in 1..cut : SubSeq(s, 1, cut)[i] = s[i]
  BY <1>1
<1> QED
  BY <1>2 DEF Cut

LEMMA PairInCut ==
    ASSUME NEW s, NEW cut \in Nat, NEW b, Cut(s, cut, b), NEW x, NEW y, NEW from \in Nat, from >= 1,
           NEW m \in Nat, from <= m, s[m] = x, s[m + 1] = y, NoPair(s, x, y, from, m)
    PROVE  FirstAt(<<x, y>>, b, from) = IF m + 1 <= cut THEN m ELSE 0
<1>1. b \in Seq(Token) /\ Len(b) = cut /\ \A i \in 1..cut : b[i] = s[i]
  BY DEF Cut
<1>2. CASE m + 1 <= cut
  <2>1. m \in 1..cut /\ m + 1 \in 1..cut
    BY <1>2
  <2>2. b[m] = x /\ b[m + 1] = y
    BY <1>1, <2>1
  <2>3. NoPair(b, x, y, from, m)
    <3>1. ASSUME NEW i \in from..(m - 1) PROVE ~(b[i] = x /\ b[i + 1] = y)
      BY <1>1, <1>2 DEF NoPair
    <3> QED
      BY <3>1 DEF NoPair
  <2> QED
    BY <1>1, <1>2, <2>2, <2>3, PairAt
<1>3. CASE ~(m + 1 <= cut)
  <2>1. NoPair(b, x, y, from, cut)
    <3>1. ASSUME NEW i \in from..(cut - 1) PROVE ~(b[i] = x /\ b[i + 1] = y)
      BY <1>1, <1>3 DEF NoPair
    <3> QED
      BY <3>1 DEF NoPair
  <2> QED
    BY <1>1, <1>3, <2>1, PairAt
<1> QED
  BY <1>2, <1>3

LEMMA TextInCut ==
    ASSUME NEW s, NEW cut \in Nat, NEW b, Cut(s, cut, b), NEW w \in Seq(Token), NEW at \in Nat,
           LiesAt(s, at, w), at + Len(w) <= cut
    PROVE  SubSeq(b, at + 1, at + Len(w)) = w
<1>1. b \in Seq(Token) /\ Len(b) = cut /\ \A i \in 1..cut : b[i] = s[i]
  BY DEF Cut
<1>2. PICK n \in Nat : n = Len(w)
  BY LenProperties
<1>3. \A i \in 1..n : b[at + i] = w[i]
  <2> SUFFICES ASSUME NEW i \in 1..n PROVE b[at + i] = w[i]
    OBVIOUS
  <2>1. at + i \in 1..cut
    BY <1>2
  <2> QED
    BY <1>1, <1>2, <2>1 DEF LiesAt
<1>4. LiesAt(b, at, w)
  BY <1>2, <1>3 DEF LiesAt
<1> QED
  BY <1>1, <1>4, LiesSame

FieldOfPart(part) == [type |-> TypeRead(part), content |-> part.content]

(* A part as it lies behind the line of its delimiter, which ends at "at + 2", up to the next delimiter. *)
PartBefore(s, at, part, h, c, next, sign) ==
    /\ Sendable(part) /\ Sizes(part, h, c) /\ PartLaid(s, at, part, h, c)
    /\ next = at + h + c + 5 /\ s[next + 1] = Delimiter /\ s[next + 2] = sign

LEMMA HeadEnds ==
    ASSUME NEW s, NEW at \in Nat, NEW part, NEW h \in Nat, NEW c \in Nat, NEW next \in Nat, NEW sign,
           PartBefore(s, at, part, h, c, next, sign), NEW cut \in Nat, NEW b, Cut(s, cut, b)
    PROVE  /\ FirstAt(<<CrLf, CrLf>>, b, at + 3) = IF at + h + 4 <= cut THEN at + h + 3 ELSE 0
           /\ FirstAt(<<CrLf, Delimiter>>, b, (at + h + 3) + 2) = IF next + 1 <= cut THEN next ELSE 0
           /\ h >= 1
<1>1. PartClosed(s, at, part, h, c) /\ h >= 1
  BY ClosedPart DEF PartBefore
<1>2. s[at + h + 3] = CrLf /\ s[at + h + 4] = CrLf /\ s[at + h + c + 5] = CrLf
  BY DEF PartBefore, PartLaid
<1>3. PICK m \in Nat, from \in Nat, mid \in Nat :
         m = at + h + 3 /\ m + 1 = at + h + 4 /\ from = at + 3 /\ from >= 1 /\ from <= m
         /\ mid = m + 2 /\ mid = at + h + 5 /\ mid >= 1
  OBVIOUS
<1>4. next = at + h + c + 5 /\ mid <= next /\ s[next] = CrLf /\ s[next + 1] = Delimiter
  BY <1>2, <1>3 DEF PartBefore
<1>5. NoPair(s, CrLf, CrLf, from, m) /\ NoPair(s, CrLf, Delimiter, mid, next)
  BY <1>1, <1>3, <1>4 DEF PartClosed
<1>6. s[m] = CrLf /\ s[m + 1] = CrLf
  BY <1>2, <1>3
<1>7. FirstAt(<<CrLf, CrLf>>, b, from) = IF m + 1 <= cut THEN m ELSE 0
  BY <1>3, <1>5, <1>6, PairInCut
<1>8. FirstAt(<<CrLf, Delimiter>>, b, mid) = IF next + 1 <= cut THEN next ELSE 0
  BY <1>3, <1>4, <1>5, PairInCut
<1> QED
  BY <1>1, <1>3, <1>7, <1>8

LEMMA SignInCut ==
    ASSUME NEW s, NEW cut \in Nat, NEW b, Cut(s, cut, b), NEW i \in Nat, i >= 1, NEW sign, s[i] = sign
    PROVE  /\ Ended(b, i) <=> i <= cut /\ sign = Hyphens
           /\ EndOfLine(b, i) <=> i <= cut /\ sign = CrLf
<1>1. Len(b) = cut /\ \A j \in 1..cut : b[j] = s[j]
  BY DEF Cut
<1>2. i <= cut => b[i] = sign
  BY <1>1
<1> QED
  BY <1>1, <1>2 DEF Ended, EndOfLine

LEMMA PlusTwo == ASSUME NEW at \in Nat PROVE \E from \in Nat : from = at + 2 /\ from + 1 = at + 3
<1>1. at + 2 \in Nat /\ (at + 2) + 1 = at + 3
  OBVIOUS
<1> QED
  BY <1>1

LEMMA CutPartFails ==
    ASSUME NEW s, NEW at \in Nat, NEW part, NEW h \in Nat, NEW c \in Nat, NEW next \in Nat, NEW sign,
           PartBefore(s, at, part, h, c, next, sign), NEW cut \in Nat, NEW b, Cut(s, cut, b), cut <= next + 1, NEW fields
    PROVE  ReadPart(b, Delimiter, Reading(at + 3, fields)).state = "failed"
<1>1. /\ FirstAt(<<CrLf, CrLf>>, b, at + 3) = IF at + h + 4 <= cut THEN at + h + 3 ELSE 0
      /\ FirstAt(<<CrLf, Delimiter>>, b, (at + h + 3) + 2) = IF next + 1 <= cut THEN next ELSE 0
  BY HeadEnds
<1>2. PICK headEnd, mid : headEnd = FirstAt(<<CrLf, CrLf>>, b, at + 3) /\ mid = FirstAt(<<CrLf, Delimiter>>, b, headEnd + 2)
  OBVIOUS
<1>3. CASE ~(at + h + 4 <= cut)
  BY <1>1, <1>2, <1>3, RoundFails
<1>4. CASE at + h + 4 <= cut
  <2>1. headEnd = at + h + 3
    BY <1>1, <1>2, <1>4
  <2>2. mid = IF next + 1 <= cut THEN next ELSE 0
    BY <1>1, <1>2, <2>1
  <2>3. CASE mid = 0
    BY <1>2, <2>3, RoundFails
  <2>4. CASE mid # 0
    <3>1. mid = next
      BY <2>2, <2>4
    <3>2. s[next + 2] = sign /\ next + 2 \in Nat /\ next + 2 >= 1 /\ ~(next + 2 <= cut)
      BY DEF PartBefore
    <3>3. ~Ended(b, next + 2) /\ ~EndOfLine(b, next + 2)
      BY <3>2, SignInCut
    <3>4. ~Ended(b, mid + 2) /\ ~EndOfLine(b, mid + 2)
      BY <3>1, <3>3
    <3> QED
      BY <1>2, <3>4, RoundFails
  <2> QED
    BY <2>3, <2>4
<1> QED
  BY <1>3, <1>4

PartTaken(b, at, part, next, sign, cut, fields) ==
    ReadPart(b, Delimiter, Reading(at + 3, fields)) =
        [pos |-> next + 3, fields |-> Insert(fields, {NameRead(part.name)}, FieldOfPart(part)),
         state |-> IF sign = Hyphens \/ cut = next + 2 THEN "done" ELSE "reading"]

LEMMA WholePartRead ==
    ASSUME NEW s, NEW at \in Nat, NEW part, NEW h \in Nat, NEW c \in Nat, NEW next \in Nat, NEW sign \in {Hyphens, CrLf},
           PartBefore(s, at, part, h, c, next, sign), NEW cut \in Nat, NEW b, Cut(s, cut, b), next + 2 <= cut, NEW fields
    PROVE  PartTaken(b, at, part, next, sign, cut, fields)
<1>1. /\ FirstAt(<<CrLf, CrLf>>, b, at + 3) = IF at + h + 4 <= cut THEN at + h + 3 ELSE 0
      /\ FirstAt(<<CrLf, Delimiter>>, b, (at + h + 3) + 2) = IF next + 1 <= cut THEN next ELSE 0
      /\ h >= 1
  BY HeadEnds
<1>2. next = at + h + c + 5
  BY DEF PartBefore
<1>3. PICK headEnd \in Nat, mid \in Nat : headEnd = at + h + 3 /\ mid = next /\ headEnd # 0 /\ mid # 0
                                          /\ at + h + 4 <= cut /\ next + 1 <= cut
  BY <1>2
<1>4. headEnd = FirstAt(<<CrLf, CrLf>>, b, at + 3) /\ mid = FirstAt(<<CrLf, Delimiter>>, b, headEnd + 2)
  BY <1>1, <1>3
<1>5. PICK block \in Seq(Token), content \in Seq(Token) : block = EncodeHead(part) /\ content = part.content
  <2>1. EncodeHead(part) \in Seq(Token)
    BY HeadClosed DEF PartBefore, Sendable
  <2>2. part.content \in Seq(Token)
    BY TokensAre DEF PartBefore, Sendable, FormPart, Text
  <2> QED
    BY <2>1, <2>2
<1>6. h = Len(block) /\ c = Len(content) /\ LiesAt(s, at + 2, block) /\ LiesAt(s, at + h + 4, content)
  BY <1>5 DEF PartBefore, Sizes, PartLaid
<1>7. SubSeq(b, at + 3, headEnd - 1) = block
  <2>1. PICK from \in Nat : from = at + 2 /\ from + 1 = at + 3
    BY PlusTwo
  <2>2. from + h <= cut /\ from + h = headEnd - 1
    BY <1>3, <2>1
  <2>3. SubSeq(b, from + 1, from + Len(block)) = block
    <3>1. LiesAt(s, from, block) /\ from + Len(block) <= cut
      BY <1>6, <2>1, <2>2
    <3> QED
      BY <3>1, TextInCut
  <2> QED
    BY <1>6, <2>1, <2>2, <2>3
<1>8. SubSeq(b, headEnd + 2, mid - 1) = content
  <2>1. PICK from \in Nat : from = at + h + 4 /\ from + 1 = headEnd + 2 /\ from + c = mid - 1 /\ from + c <= cut
    BY <1>2, <1>3
  <2>2. SubSeq(b, from + 1, from + Len(content)) = content
    <3>1. LiesAt(s, from, content) /\ from + Len(content) <= cut
      BY <1>6, <2>1
    <3> QED
      BY <3>1, TextInCut
  <2> QED
    BY <1>6, <2>1, <2>2
<1>9. PICK head : head = Headers(block)
  OBVIOUS
<1>10. head.name = {NameRead(part.name)} /\ head.type = TypeRead(part) /\ head.name # {}
  BY <1>5, <1>9, HeadIs DEF PartBefore, Sendable
<1>11. /\ Ended(b, mid + 2) <=> sign = Hyphens
       /\ EndOfLine(b, mid + 2) <=> sign = CrLf
  BY <1>3, SignInCut DEF PartBefore
<1>12. Len(b) = cut
  BY DEF Cut
<1>13. ReadPart(b, Delimiter, Reading(at + 3, fields)) = AfterRound(b, fields, mid, head, content)
  <2>1. PICK pos : pos = at + 3
    OBVIOUS
  <2>2. headEnd = FirstAt(<<CrLf, CrLf>>, b, pos) /\ head = Headers(SubSeq(b, pos, headEnd - 1))
    BY <1>4, <1>7, <1>9, <2>1
  <2>3. content = SubSeq(b, headEnd + 2, mid - 1)
    BY <1>8
  <2>4. Ended(b, mid + 2) \/ EndOfLine(b, mid + 2)
    BY <1>11
  <2>5. RoundOf(b, Delimiter, pos, headEnd, mid, head, content)
    BY <1>3, <1>4, <1>10, <2>2, <2>3, <2>4 DEF RoundOf
  <2> QED
    BY <2>1, <2>5, RoundReads
<1>14. mid + 2 + 1 = next + 3 /\ (mid + 2 + 1 > cut <=> cut = next + 2)
  BY <1>3
<1>15. [type |-> head.type, content |-> content] = FieldOfPart(part)
  BY <1>5, <1>10 DEF FieldOfPart
<1>16. (IF Ended(b, mid + 2) \/ mid + 2 + 1 > Len(b) THEN "done" ELSE "reading")
          = IF sign = Hyphens \/ cut = next + 2 THEN "done" ELSE "reading"
  BY <1>11, <1>12, <1>14
<1> QED
  BY <1>10, <1>13, <1>14, <1>15, <1>16 DEF AfterRound, PartTaken

PartRefused(b, at, fields) == ReadPart(b, Delimiter, Reading(at + 3, fields)).state = "failed"

PartArrives(s, at, part, h, c, next, sign, cut, b) ==
    /\ at \in Nat /\ h \in Nat /\ c \in Nat /\ next \in Nat /\ sign \in {Hyphens, CrLf} /\ cut \in Nat
    /\ PartBefore(s, at, part, h, c, next, sign) /\ Cut(s, cut, b)

LEMMA PartRound ==
    ASSUME NEW s, NEW at, NEW part, NEW h, NEW c, NEW next, NEW sign, NEW cut, NEW b,
           PartArrives(s, at, part, h, c, next, sign, cut, b), NEW fields
    PROVE  /\ cut <= next + 1 => PartRefused(b, at, fields)
           /\ next + 2 <= cut => PartTaken(b, at, part, next, sign, cut, fields)
<1>1. /\ at \in Nat /\ h \in Nat /\ c \in Nat /\ next \in Nat /\ sign \in {Hyphens, CrLf} /\ cut \in Nat
      /\ PartBefore(s, at, part, h, c, next, sign) /\ Cut(s, cut, b)
  BY DEF PartArrives
<1>2. ASSUME cut <= next + 1 PROVE PartRefused(b, at, fields)
  BY <1>1, <1>2, CutPartFails DEF PartRefused
<1>3. ASSUME next + 2 <= cut PROVE PartTaken(b, at, part, next, sign, cut, fields)
  BY <1>1, <1>3, WholePartRead
<1> QED
  BY <1>2, <1>3

(* The fields of a form, part by part. *)
LEMMA FormReadAppend ==
    ASSUME NEW parts \in Seq(FormPart), NEW p \in FormPart
    PROVE  /\ FormRead(<<>>) = NoFields
           /\ FormRead(Append(parts, p)) = Insert(FormRead(parts), {NameRead(p.name)}, FieldOfPart(p))
<1> DEFINE places(q, name) == {i \in DOMAIN q : NameRead(q[i].name) = name}
           names(q) == {NameRead(q[i].name) : i \in DOMAIN q}
           field(q, name) == FieldOfPart(q[Max(places(q, name))])
<1>1. \A q : FormRead(q) = [name \in names(q) |-> field(q, name)]
  BY Zenon DEF FormRead, FieldOfPart
<1>2. FormRead(<<>>) = NoFields
  <2>1. names(<<>>) = {}
    OBVIOUS
  <2>2. NoFields = [name \in {} |-> field(<<>>, name)]
    BY DEF NoFields
  <2> QED
    BY <1>1, <2>1, <2>2, Zenon
<1>3. PICK n \in Nat : n = Len(parts)
  BY LenProperties
<1>4. PICK more : more = Append(parts, p)
  OBVIOUS
<1>5. /\ DOMAIN parts = 1..n /\ DOMAIN more = 1..(n + 1)
      /\ \A i \in 1..n : more[i] = parts[i]
      /\ more[n + 1] = p
  BY <1>3, <1>4, AppendProperties, LenProperties
<1>6. PICK new : new = NameRead(p.name)
  OBVIOUS
<1>7. ASSUME NEW name, name # new
      PROVE  places(more, name) = places(parts, name)
  BY <1>5, <1>6, <1>7
<1>8. Max(places(more, new)) = n + 1
  <2>1. n + 1 \in places(more, new)
    BY <1>5, <1>6
  <2>2. places(more, new) \in SUBSET Int /\ \A i \in places(more, new) : n + 1 >= i
    BY <1>5
  <2> HIDE DEF places
  <2> QED
    BY <2>1, <2>2, MostIs
<1>9. names(more) = names(parts) \cup {new}
  BY <1>5, <1>6
<1>10. ASSUME NEW name \in names(parts), name # new
       PROVE  field(more, name) = field(parts, name)
  <2>1. PICK S : S = places(parts, name)
    OBVIOUS
  <2>2. S \in SUBSET (1..n) /\ S # {}
    BY <1>5, <2>1
  <2>3. Max(S) \in 1..n
    BY <2>2, LastPlace
  <2>4. field(more, name) = FieldOfPart(more[Max(S)]) /\ field(parts, name) = FieldOfPart(parts[Max(S)])
    BY <1>7, <1>10, <2>1, Zenon
  <2> QED
    BY <1>5, <2>3, <2>4
<1>11. field(more, new) = FieldOfPart(p)
  BY <1>5, <1>8, Zenon
<1>12. FormRead(more) = [name \in names(more) |-> field(more, name)] /\ FormRead(parts) = [name \in names(parts) |-> field(parts, name)]
  BY <1>1
<1> HIDE DEF places, names, field
<1>13. DOMAIN FormRead(parts) = names(parts)
  BY <1>12
<1>14. Insert(FormRead(parts), {new}, FieldOfPart(p)) =
          [name \in names(parts) \cup {new} |-> IF name = new THEN FieldOfPart(p) ELSE FormRead(parts)[name]]
  BY <1>13 DEF Insert
<1>15. \A name \in names(parts) \cup {new} :
          field(more, name) = IF name = new THEN FieldOfPart(p) ELSE FormRead(parts)[name]
  BY <1>10, <1>11, <1>12
<1>16. FormRead(more) = Insert(FormRead(parts), {new}, FieldOfPart(p))
  BY <1>9, <1>12, <1>14, <1>15
<1> QED
  BY <1>2, <1>4, <1>6, <1>16

FormUpTo(form, k) == FormRead(SubSeq(form, 1, k))

LEMMA FormUpToNext ==
    ASSUME NEW form \in Seq(FormPart), NEW k \in Nat, k + 1 <= Len(form)
    PROVE  /\ FormUpTo(form, 0) = NoFields
           /\ FormUpTo(form, k + 1) =
                  Insert(FormUpTo(form, k), {NameRead(form[k + 1].name)}, FieldOfPart(form[k + 1]))
<1>1. form[k + 1] \in FormPart /\ k + 1 \in 1..Len(form)
  BY ElementOfSeq
<1>2. SubSeq(form, 1, k) \in Seq(FormPart) /\ SubSeq(form, 1, k + 1) = Append(SubSeq(form, 1, k), form[k + 1])
  BY <1>1, LenProperties
<1>3. SubSeq(form, 1, 0) = <<>>
  OBVIOUS
<1>4. PICK parts \in Seq(FormPart), p \in FormPart : parts = SubSeq(form, 1, k) /\ p = form[k + 1]
  BY <1>1, <1>2
<1>5. FormRead(<<>>) = NoFields /\ FormRead(Append(parts, p)) = Insert(FormRead(parts), {NameRead(p.name)}, FieldOfPart(p))
  BY FormReadAppend
<1> QED
  BY <1>2, <1>3, <1>4, <1>5 DEF FormUpTo

SendableForm(form) == form \in Seq(FormPart) /\ \A k \in 1..Len(form) : Sendable(form[k])

(* What stands behind the next delimiter: the end of a line, or the end of the form. *)
SignAfter(form, k) == IF k = Len(form) THEN Hyphens ELSE CrLf

PartStands(form, s, k) ==
    \E h, c \in Nat :
        PartBefore(s, Offset(form, k), form[k + 1], h, c, Offset(form, k + 1), SignAfter(form, k + 1))

LEMMA PartsStand ==
    ASSUME NEW form, SendableForm(form), NEW s, s = Encode(form), NEW k \in 0..(Len(form) - 1)
    PROVE  /\ PartStands(form, s, k)
           /\ Offset(form, k) \in Nat /\ Offset(form, k + 1) \in Nat /\ Offset(form, k) + 5 <= Offset(form, k + 1)
<1>1. form \in Seq(FormPart) /\ Len(form) \in Nat /\ k \in Nat /\ k + 1 \in 1..Len(form) /\ k \in 0..Len(form)
      /\ k + 1 \in 0..Len(form) /\ Sendable(form[k + 1])
  BY LenProperties DEF SendableForm
<1>2. PICK h \in Nat, c \in Nat : PartThere(form, s, k, h, c)
  BY <1>1, NextPart
<1>3. Offset(form, k) \in Nat /\ Offset(form, k + 1) \in Nat
  BY <1>1, FlatType
<1>4. PICK at \in Nat, next \in Nat : at = Offset(form, k) /\ next = Offset(form, k + 1)
  BY <1>3
<1>5. next = at + h + c + 5 /\ Sizes(form[k + 1], h, c) /\ PartLaid(s, at, form[k + 1], h, c)
  BY <1>2, <1>4 DEF PartThere, Sizes
<1>6. s[next + 1] = Delimiter /\ s[next + 2] = SignAfter(form, k + 1)
  <2>1. CASE k + 1 = Len(form)
    BY <1>1, <1>4, <2>1, FormLies DEF SignAfter
  <2>2. CASE k + 1 # Len(form)
    <3>1. k + 1 \in 0..(Len(form) - 1)
      BY <1>1, <2>2
    <3>2. PICK h2 \in Nat, c2 \in Nat : PartThere(form, s, k + 1, h2, c2)
      BY <1>1, <3>1, NextPart
    <3>3. s[Offset(form, k + 1) + 1] = Delimiter /\ s[Offset(form, k + 1) + 2] = CrLf
      BY <3>2 DEF PartThere, PartLaid
    <3> QED
      BY <1>4, <2>2, <3>3 DEF SignAfter
  <2> QED
    BY <2>1, <2>2
<1>7. PartBefore(s, at, form[k + 1], h, c, next, SignAfter(form, k + 1))
  BY <1>1, <1>5, <1>6 DEF PartBefore
<1>8. PartStands(form, s, k)
  BY <1>4, <1>7 DEF PartStands
<1>9. at + 5 <= next
  BY <1>5
<1> QED
  BY <1>3, <1>4, <1>8, <1>9

LEMMA OffsetsGrow ==
    ASSUME NEW form, SendableForm(form)
    PROVE  \A k \in 0..Len(form) : \A j \in 0..k : Offset(form, j) + 5 * (k - j) <= Offset(form, k)
<1>1. PICK n \in Nat : n = Len(form)
  BY LenProperties DEF SendableForm
<1> DEFINE S == {k \in Nat : k <= n => \A j \in 0..k : Offset(form, j) + 5 * (k - j) <= Offset(form, k)}
<1>2. \A k \in 0..n : Offset(form, k) \in Nat
  BY <1>1, FlatType DEF SendableForm
<1>3. 0 \in S
  BY <1>2
<1>4. ASSUME NEW k \in Nat, k \in S PROVE k + 1 \in S
  <2> SUFFICES ASSUME k + 1 <= n, NEW j \in 0..(k + 1) PROVE Offset(form, j) + 5 * ((k + 1) - j) <= Offset(form, k + 1)
    OBVIOUS
  <2>1. k \in 0..(Len(form) - 1) /\ k <= n
    BY <1>1
  <2>2. PICK a \in Nat, b \in Nat : a = Offset(form, k) /\ b = Offset(form, k + 1) /\ a + 5 <= b
    BY <2>1, PartsStand
  <2>3. CASE j = k + 1
    BY <2>2, <2>3
  <2>4. CASE j # k + 1
    <3>1. j \in 0..k /\ j \in 0..n
      BY <2>4
    <3>2. PICK x \in Nat : x = Offset(form, j)
      BY <1>2, <3>1
    <3>3. x + 5 * (k - j) <= a
      BY <1>4, <2>1, <2>2, <3>1, <3>2
    <3>4. x + 5 * ((k + 1) - j) <= b
      BY <2>2, <3>1, <3>3
    <3> QED
      BY <2>2, <3>2, <3>4
  <2> QED
    BY <2>3, <2>4
<1> HIDE DEF S
<1>5. \A k \in Nat : k \in S
  BY <1>3, <1>4, SetInduction
<1> QED
  BY <1>1, <1>5 DEF S

(* The rounds of the loop. *)
Rounds(body, boundary, open, r) ==
    r = [n \in 0..Len(body) |->
            IF n = 0 THEN [pos |-> open + 2, fields |-> NoFields, state |-> "reading"]
            ELSE ReadPart(body, boundary, r[n - 1])]

LEMMA RoundsThere ==
    ASSUME NEW body \in Seq(Token), NEW boundary, NEW open
    PROVE  \E r : Rounds(body, boundary, open, r)
<1> DEFINE base == [pos |-> open + 2, fields |-> NoFields, state |-> "reading"]
           UpTo(k, r) == r = [n \in 0..k |-> IF n = 0 THEN base ELSE ReadPart(body, boundary, r[n - 1])]
           S == {k \in Nat : \E r : UpTo(k, r)}
<1>1. 0 \in S
  <2>1. PICK r : r = [n \in 0..0 |-> base]
    OBVIOUS
  <2>2. \A n \in 0..0 : n = 0
    OBVIOUS
  <2>3. UpTo(0, r)
    BY <2>1, <2>2, Zenon
  <2> QED
    BY <2>3
<1>2. ASSUME NEW k \in Nat, k \in S PROVE k + 1 \in S
  <2>1. PICK f : UpTo(k, f)
    BY <1>2
  <2>2. \A n \in 0..k : f[n] = IF n = 0 THEN base ELSE ReadPart(body, boundary, f[n - 1])
    BY <2>1, Zenon
  <2>3. PICK r : r = [n \in 0..(k + 1) |-> IF n = k + 1 THEN ReadPart(body, boundary, f[k]) ELSE f[n]]
    OBVIOUS
  <2> HIDE DEF base
  <2>4. ASSUME NEW n \in 0..(k + 1) PROVE r[n] = IF n = 0 THEN base ELSE ReadPart(body, boundary, r[n - 1])
    <3>1. CASE n = k + 1
      BY <2>3, <3>1
    <3>2. CASE n # k + 1 /\ n # 0
      BY <2>2, <2>3, <3>2
    <3>3. CASE n = 0
      BY <2>2, <2>3, <3>3
    <3> QED
      BY <3>1, <3>2, <3>3
  <2>5. r = [n \in 0..(k + 1) |-> r[n]]
    BY <2>3
  <2>6. UpTo(k + 1, r)
    BY <2>4, <2>5, Zenon
  <2> QED
    BY <2>6
<1> HIDE DEF S
<1>3. Len(body) \in S
  BY <1>1, <1>2, LenProperties, SetInduction
<1> QED
  BY <1>3, Zenon DEF S, Rounds

LEMMA ParseBy ==
    ASSUME NEW body \in Seq(Token), NEW boundary, NEW open, open = FirstAt(<<boundary, CrLf>>, body, 1)
    PROVE  \E r : /\ Rounds(body, boundary, open, r)
                  /\ ParseForm(body, boundary) =
                         IF open # 0 /\ r[Len(body)].state = "done" THEN [ok |-> TRUE, fields |-> r[Len(body)].fields]
                         ELSE Failed
<1> DEFINE first == FirstAt(<<boundary, CrLf>>, body, 1)
           g == CHOOSE r : r = [n \in 0..Len(body) |->
                   IF n = 0 THEN [pos |-> first + 2, fields |-> NoFields, state |-> "reading"]
                   ELSE ReadPart(body, boundary, r[n - 1])]
<1>1. \E r : Rounds(body, boundary, first, r)
  BY RoundsThere
<1>2. Rounds(body, boundary, first, g)
  BY <1>1, Zenon DEF Rounds
<1>3. ParseForm(body, boundary) =
         IF first # 0 /\ g[Len(body)].state = "done" THEN [ok |-> TRUE, fields |-> g[Len(body)].fields]
         ELSE Failed
  BY Zenon DEF ParseForm
<1> QED
  BY <1>2, <1>3, Zenon

LEMMA OpensForm ==
    ASSUME NEW form, SendableForm(form), NEW s, s = Encode(form), NEW cut \in 0..Len(s), NEW b, Cut(s, cut, b)
    PROVE  FirstAt(<<Delimiter, CrLf>>, b, 1) = IF Len(form) # 0 /\ 2 <= cut THEN 1 ELSE 0
<1>1. form \in Seq(FormPart) /\ Len(form) \in Nat /\ Offset(form, 0) = 0
  BY LenProperties, FlatNone DEF SendableForm
<1>2. cut \in Nat
  BY <1>1, FormLies, LenProperties
<1>3. CASE Len(form) # 0
  <2>1. 0 \in 0..(Len(form) - 1)
    BY <1>1, <1>3
  <2>2. PICK h \in Nat, c \in Nat : PartThere(form, s, 0, h, c)
    BY <1>1, <2>1, NextPart
  <2>3. s[1] = Delimiter /\ s[1 + 1] = CrLf
    BY <1>1, <2>2 DEF PartThere, PartLaid
  <2>4. NoPair(s, Delimiter, CrLf, 1, 1)
    BY DEF NoPair
  <2>5. FirstAt(<<Delimiter, CrLf>>, b, 1) = IF 1 + 1 <= cut THEN 1 ELSE 0
    BY <1>2, <2>3, <2>4, PairInCut
  <2> QED
    BY <1>2, <1>3, <2>5
<1>4. CASE Len(form) = 0
  <2>1. Len(s) = 3 /\ s[1] = Delimiter /\ s[2] = Hyphens /\ s[3] = CrLf
    <3>1. /\ Len(s) = Offset(form, Len(form)) + 3
          /\ s[Offset(form, Len(form)) + 1] = Delimiter /\ s[Offset(form, Len(form)) + 2] = Hyphens
          /\ s[Offset(form, Len(form)) + 3] = CrLf
      BY <1>1, FormLies
    <3> QED
      BY <1>1, <1>4, <3>1
  <2>2. Len(b) = cut /\ b \in Seq(Token) /\ \A i \in 1..cut : b[i] = s[i]
    BY DEF Cut
  <2>3. NoPair(b, Delimiter, CrLf, 1, cut)
    <3>1. ASSUME NEW i \in 1..(cut - 1) PROVE ~(b[i] = Delimiter /\ b[i + 1] = CrLf)
      <4>1. cut <= 3
        BY <2>1
      <4>2. i = 1 \/ i = 2
        BY <1>2, <4>1
      <4>3. i \in 1..cut /\ i + 1 \in 1..cut
        BY <1>2
      <4>4. b[i] = s[i] /\ b[i + 1] = s[i + 1]
        BY <2>2, <4>3
      <4>5. CASE i = 1
        BY <2>1, <4>4, <4>5, MarksDiffer
      <4>6. CASE i = 2
        BY <2>1, <4>4, <4>6, MarksDiffer
      <4> QED
        BY <4>2, <4>5, <4>6
    <3> QED
      BY <3>1 DEF NoPair
  <2> QED
    BY <1>4, <2>2, <2>3, PairAt
<1> QED
  BY <1>3, <1>4

Active(form, cut, k) == k = 0 \/ Offset(form, k) + 3 <= cut

RoundIs(body, boundary, r, k) == r[k] = ReadPart(body, boundary, r[k - 1])

LEMMA RoundsUnfold ==
    ASSUME NEW body \in Seq(Token), NEW boundary, NEW open, NEW r, Rounds(body, boundary, open, r)
    PROVE  /\ r[0] = [pos |-> open + 2, fields |-> NoFields, state |-> "reading"]
           /\ \A k \in 1..Len(body) : RoundIs(body, boundary, r, k)
<1>1. Len(body) \in Nat
  BY LenProperties
<1>2. \A k \in 0..Len(body) : r[k] =
          IF k = 0 THEN [pos |-> open + 2, fields |-> NoFields, state |-> "reading"]
          ELSE ReadPart(body, boundary, r[k - 1])
  BY Zenon DEF Rounds
<1>3. 0 \in 0..Len(body)
  BY <1>1
<1>4. ASSUME NEW k \in 1..Len(body) PROVE RoundIs(body, boundary, r, k)
  BY <1>1, <1>2 DEF RoundIs
<1> QED
  BY <1>2, <1>3, <1>4, Zenon

LEMMA RoundsRead ==
    ASSUME NEW form, SendableForm(form), NEW s, s = Encode(form), NEW cut \in 0..Len(s), NEW b, Cut(s, cut, b),
           NEW r, Rounds(b, Delimiter, 1, r), Len(form) # 0
    PROVE  \A k \in 0..(Len(form) - 1) : k <= cut /\ Active(form, cut, k) =>
               r[k] = Reading(Offset(form, k) + 3, FormUpTo(form, k))
<1>1. form \in Seq(FormPart) /\ Offset(form, 0) = 0
  BY FlatNone DEF SendableForm
<1>2. PICK n \in Nat : n = Len(form) /\ n >= 1
  BY <1>1, LenProperties
<1>3. cut \in Nat
  <2>1. Len(s) \in Nat
    BY <1>1, FormLies, LenProperties
  <2> QED
    BY <2>1
<1>4. b \in Seq(Token) /\ Len(b) = cut
  BY DEF Cut
<1>5. /\ r[0] = [pos |-> 1 + 2, fields |-> NoFields, state |-> "reading"]
      /\ \A k \in 1..cut : RoundIs(b, Delimiter, r, k)
  BY <1>4, RoundsUnfold
<1>6. FormUpTo(form, 0) = NoFields
  <2>1. 0 \in Nat /\ 0 + 1 <= Len(form)
    BY <1>2
  <2> QED
    BY <1>1, <2>1, FormUpToNext
<1> DEFINE S == {k \in Nat : k <= n - 1 /\ k <= cut /\ Active(form, cut, k) => r[k] = Reading(Offset(form, k) + 3, FormUpTo(form, k))}
<1>7. 0 \in S
  <2>1. r[0] = Reading(Offset(form, 0) + 3, FormUpTo(form, 0))
    BY <1>1, <1>5, <1>6 DEF Reading
  <2> QED
    BY <2>1
<1>8. ASSUME NEW k \in Nat, k \in S PROVE k + 1 \in S
  <2> SUFFICES ASSUME k + 1 <= n - 1, k + 1 <= cut, Active(form, cut, k + 1)
               PROVE  r[k + 1] = Reading(Offset(form, k + 1) + 3, FormUpTo(form, k + 1))
    OBVIOUS
  <2>1. k \in 0..(Len(form) - 1) /\ k <= n - 1 /\ k <= cut /\ k + 1 <= Len(form) /\ k + 1 # Len(form)
    BY <1>2, <1>3
  <2>2. PartStands(form, s, k)
    BY <2>1, PartsStand
  <2>3. PICK at \in Nat, next \in Nat : at = Offset(form, k) /\ next = Offset(form, k + 1) /\ at + 5 <= next
    BY <2>1, PartsStand
  <2>4. next + 3 <= cut
    BY <2>3 DEF Active
  <2>5. Active(form, cut, k)
    BY <1>3, <2>3, <2>4 DEF Active
  <2>6. r[k] = Reading(at + 3, FormUpTo(form, k))
    BY <1>8, <2>1, <2>3, <2>5
  <2>7. PICK h \in Nat, c \in Nat : PartBefore(s, at, form[k + 1], h, c, next, CrLf)
    BY <2>1, <2>2, <2>3 DEF PartStands, SignAfter
  <2>8. next + 2 <= cut /\ cut # next + 2 /\ CrLf # Hyphens
    BY <1>3, <2>4, MarksDiffer
  <2>9. PICK fields : fields = FormUpTo(form, k)
    OBVIOUS
  <2>10. ReadPart(b, Delimiter, Reading(at + 3, fields)) =
            [pos |-> next + 3, fields |-> Insert(fields, {NameRead(form[k + 1].name)}, FieldOfPart(form[k + 1])),
             state |-> IF CrLf = Hyphens \/ cut = next + 2 THEN "done" ELSE "reading"]
    <3>1. PICK part : part = form[k + 1]
      OBVIOUS
    <3>0. PICK sign \in {Hyphens, CrLf} : sign = CrLf
      OBVIOUS
    <3>2. PartBefore(s, at, part, h, c, next, sign)
      BY <2>7, <3>0, <3>1
    <3>3. PartTaken(b, at, part, next, sign, cut, fields)
      BY <1>3, <2>3, <2>7, <2>8, <3>0, <3>2, WholePartRead, Zenon
    <3> QED
      BY <3>0, <3>1, <3>3 DEF PartTaken
  <2>11. FormUpTo(form, k + 1) = Insert(fields, {NameRead(form[k + 1].name)}, FieldOfPart(form[k + 1]))
    BY <1>1, <2>1, <2>9, FormUpToNext
  <2>12. r[k + 1] = ReadPart(b, Delimiter, r[k])
    <3>1. k + 1 \in 1..cut /\ (k + 1) - 1 = k
      BY <1>3
    <3> QED
      BY <1>5, <3>1 DEF RoundIs
  <2> QED
    BY <2>3, <2>6, <2>8, <2>9, <2>10, <2>11, <2>12 DEF Reading
<1> HIDE DEF S
<1>9. \A k \in Nat : k \in S
  BY <1>7, <1>8, SetInduction
<1> QED
  <2> SUFFICES ASSUME NEW k \in 0..(Len(form) - 1), k <= cut, Active(form, cut, k)
               PROVE  r[k] = Reading(Offset(form, k) + 3, FormUpTo(form, k))
    OBVIOUS
  <2>1. k \in Nat /\ k <= n - 1
    BY <1>2
  <2> QED
    BY <1>9, <2>1 DEF S

LEMMA RoundsEnd ==
    ASSUME NEW body \in Seq(Token), NEW boundary, NEW open, NEW r, Rounds(body, boundary, open, r),
           NEW k \in 0..Len(body), r[k].state # "reading"
    PROVE  r[Len(body)] = r[k]
<1>1. PICK n \in Nat : n = Len(body)
  BY LenProperties
<1>2. \A j \in 1..n : RoundIs(body, boundary, r, j)
  BY <1>1, RoundsUnfold
<1> DEFINE S == {j \in Nat : k + j <= n => r[k + j] = r[k]}
<1>3. 0 \in S
  BY <1>1
<1>4. ASSUME NEW j \in Nat, j \in S PROVE j + 1 \in S
  <2> SUFFICES ASSUME k + (j + 1) <= n PROVE r[k + (j + 1)] = r[k]
    OBVIOUS
  <2>1. k + j <= n /\ k + (j + 1) \in 1..n /\ (k + (j + 1)) - 1 = k + j
    BY <1>1
  <2>2. r[k + j] = r[k]
    BY <1>4, <2>1
  <2>3. r[k + (j + 1)] = ReadPart(body, boundary, r[k + j])
    BY <1>2, <2>1 DEF RoundIs
  <2> QED
    BY <2>2, <2>3, RoundKeeps
<1> HIDE DEF S
<1>5. \A j \in Nat : j \in S
  BY <1>3, <1>4, SetInduction
<1>6. n - k \in Nat /\ k + (n - k) = n
  BY <1>1
<1> QED
  BY <1>1, <1>5, <1>6 DEF S

(* The last round that begins at a part. *)
FinalRound(form, cut, k) ==
    k \in 0..(Len(form) - 1) /\ Active(form, cut, k) /\ (k + 1 = Len(form) \/ ~Active(form, cut, k + 1))

LEMMA FinalThere ==
    ASSUME NEW form \in Seq(FormPart), Len(form) # 0, NEW cut
    PROVE  \E k : FinalRound(form, cut, k)
<1>1. PICK n \in Nat : n = Len(form) /\ n >= 1
  BY LenProperties
<1> SUFFICES ASSUME \A k : ~FinalRound(form, cut, k) PROVE FALSE
  OBVIOUS
<1> DEFINE S == {k \in Nat : k <= n - 1 => Active(form, cut, k)}
<1>2. 0 \in S
  BY DEF Active
<1>3. ASSUME NEW k \in Nat, k \in S PROVE k + 1 \in S
  <2> SUFFICES ASSUME k + 1 <= n - 1 PROVE Active(form, cut, k + 1)
    OBVIOUS
  <2>1. k \in 0..(Len(form) - 1) /\ k <= n - 1
    BY <1>1
  <2>2. Active(form, cut, k)
    BY <1>3, <2>1
  <2> QED
    BY <2>1, <2>2 DEF FinalRound
<1> HIDE DEF S
<1>4. n - 1 \in S /\ n - 1 \in Nat
  BY <1>1, <1>2, <1>3, SetInduction
<1>5. Active(form, cut, n - 1)
  BY <1>4 DEF S
<1>6. n - 1 \in 0..(Len(form) - 1) /\ (n - 1) + 1 = Len(form)
  BY <1>1
<1> QED
  BY <1>5, <1>6 DEF FinalRound

(* What the server makes of a form that arrives up to here, when it knows the delimiter. *)
ReadUpTo(form, cut, k) ==
    IF cut <= Offset(form, k + 1) + 1 THEN Failed ELSE [ok |-> TRUE, fields |-> FormUpTo(form, k + 1)]

LEMMA BareRead ==
    ASSUME NEW form, SendableForm(form), NEW s, s = Encode(form), NEW cut \in 0..Len(s), NEW b, Cut(s, cut, b)
    PROVE  /\ ~(Len(form) # 0 /\ 2 <= cut) => ParseForm(b, Delimiter) = Failed
           /\ Len(form) # 0 /\ 2 <= cut =>
                  \A k : FinalRound(form, cut, k) => ParseForm(b, Delimiter) = ReadUpTo(form, cut, k)
<1>1. form \in Seq(FormPart) /\ Len(form) \in Nat /\ cut \in Nat
  BY LenProperties, FormLies DEF SendableForm
<1>2. b \in Seq(Token) /\ Len(b) = cut
  BY DEF Cut
<1>3. PICK open : open = FirstAt(<<Delimiter, CrLf>>, b, 1)
  OBVIOUS
<1>4. open = IF Len(form) # 0 /\ 2 <= cut THEN 1 ELSE 0
  BY <1>3, OpensForm
<1>5. PICK r : /\ Rounds(b, Delimiter, open, r)
               /\ ParseForm(b, Delimiter) =
                      IF open # 0 /\ r[cut].state = "done" THEN [ok |-> TRUE, fields |-> r[cut].fields] ELSE Failed
  BY <1>2, <1>3, ParseBy
<1>6. CASE ~(Len(form) # 0 /\ 2 <= cut)
  BY <1>4, <1>5, <1>6
<1>7. CASE Len(form) # 0 /\ 2 <= cut
  <2> SUFFICES ASSUME NEW k, FinalRound(form, cut, k) PROVE ParseForm(b, Delimiter) = ReadUpTo(form, cut, k)
    BY <1>7
  <2>1. open = 1 /\ open # 0
    BY <1>4, <1>7
  <2>2. k \in 0..(Len(form) - 1) /\ k \in Nat /\ Active(form, cut, k)
    BY DEF FinalRound
  <2>3. PICK at \in Nat, next \in Nat : at = Offset(form, k) /\ next = Offset(form, k + 1) /\ at + 5 <= next
    BY <2>2, PartsStand
  <2>4. k + 1 <= cut
    <3>1. CASE k = 0
      BY <1>1, <1>7, <3>1
    <3>2. CASE k # 0
      <4>1. at + 3 <= cut
        BY <2>2, <2>3, <3>2 DEF Active
      <4>2. k \in 0..Len(form) /\ 0 \in 0..k
        BY <1>1, <2>2
      <4>3. Offset(form, 0) + 5 * (k - 0) <= Offset(form, k)
        BY <4>2, OffsetsGrow
      <4>4. 0 + 5 * (k - 0) <= at
        BY <2>3, <4>3, FlatNone
      <4> QED
        BY <1>1, <2>2, <4>1, <4>4
    <3> QED
      BY <3>1, <3>2
  <2>5. k + 1 \in 0..cut /\ k + 1 \in 1..cut /\ k <= cut /\ (k + 1) - 1 = k
    BY <1>1, <2>2, <2>4
  <2>6. r[k] = Reading(at + 3, FormUpTo(form, k))
    BY <1>5, <1>7, <2>1, <2>2, <2>3, <2>5, RoundsRead
  <2>7. r[k + 1] = ReadPart(b, Delimiter, Reading(at + 3, FormUpTo(form, k)))
    <3>1. RoundIs(b, Delimiter, r, k + 1)
      BY <1>2, <1>5, <2>5, RoundsUnfold
    <3> QED
      BY <2>5, <2>6, <3>1 DEF RoundIs
  <2>8. r[k + 1].state # "reading" => r[cut] = r[k + 1]
    BY <1>2, <1>5, <2>5, RoundsEnd
  <2>10. PICK p : p = form[k + 1]
    OBVIOUS
  <2>11. PICK z \in {Hyphens, CrLf} : z = SignAfter(form, k + 1)
    BY DEF SignAfter
  <2>12. PICK h \in Nat, c \in Nat : PartBefore(s, at, p, h, c, next, z)
    BY <2>2, <2>3, <2>10, <2>11, PartsStand DEF PartStands
  <2>13. PICK fields : fields = FormUpTo(form, k)
    OBVIOUS
  <2>16. /\ cut <= next + 1 => PartRefused(b, at, fields)
         /\ next + 2 <= cut => PartTaken(b, at, p, next, z, cut, fields)
    BY <1>1, <2>3, <2>11, <2>12, PartRound DEF PartArrives
  <2>14. CASE cut <= next + 1
    <3>1. ReadPart(b, Delimiter, Reading(at + 3, fields)).state = "failed"
      BY <2>14, <2>16 DEF PartRefused
    <3>2. r[k + 1].state = "failed"
      BY <2>7, <2>13, <3>1
    <3>3. r[cut].state = "failed"
      BY <2>8, <3>2
    <3>4. ParseForm(b, Delimiter) = Failed
      BY <1>5, <3>3
    <3> QED
      BY <2>3, <2>14, <3>4 DEF ReadUpTo
  <2>15. CASE ~(cut <= next + 1)
    <3>1. next + 2 <= cut
      BY <1>1, <2>3, <2>15
    <3>2. PartTaken(b, at, p, next, z, cut, fields)
      BY <2>16, <3>1
    <3>3. z = Hyphens \/ cut = next + 2
      <4>1. CASE k + 1 = Len(form)
        BY <2>11, <4>1 DEF SignAfter
      <4>2. CASE k + 1 # Len(form)
        <5>1. ~(next + 3 <= cut)
          BY <2>3, <4>2 DEF FinalRound, Active
        <5> QED
          BY <1>1, <2>3, <3>1, <5>1
      <4> QED
        BY <4>1, <4>2
    <3>4. r[k + 1] = [pos |-> next + 3, fields |-> Insert(fields, {NameRead(p.name)}, FieldOfPart(p)), state |-> "done"]
      BY <2>7, <2>13, <3>2, <3>3 DEF PartTaken
    <3>5. k + 1 <= Len(form)
      BY <1>1, <2>2
    <3>6. Insert(fields, {NameRead(p.name)}, FieldOfPart(p)) = FormUpTo(form, k + 1)
      BY <1>1, <2>2, <2>10, <2>13, <3>5, FormUpToNext
    <3>7. r[cut].state = "done" /\ r[cut].fields = FormUpTo(form, k + 1)
      BY <2>8, <3>4, <3>6
    <3>8. ParseForm(b, Delimiter) = [ok |-> TRUE, fields |-> FormUpTo(form, k + 1)]
      BY <1>5, <2>1, <3>7
    <3> QED
      BY <2>3, <2>15, <3>8 DEF ReadUpTo
  <2> QED
    BY <2>14, <2>15
<1> QED
  BY <1>6, <1>7

Ends(form, cut) ==
    {k \in 1..Len(form) : cut = Offset(form, k) + 2 \/ (k = Len(form) /\ cut = Offset(form, k) + 3)}

LEMMA ArrivedIs ==
    ASSUME NEW f, f.form \in Seq(FormPart)
    PROVE  Arrived(f) = IF Ends(f.form, f.cut) = {} THEN 0 ELSE Max(Ends(f.form, f.cut))
<1>1. \A k : EndOfDelimiter(f.form, k) = Offset(f.form, k) + 2
  BY DEF EndOfDelimiter, Offset, Flat, Blocks
<1>2. Len(Encode(f.form)) = Offset(f.form, Len(f.form)) + 3
  BY FormLies
<1>3. {k \in 1..Len(f.form) : f.cut = EndOfDelimiter(f.form, k) \/ (k = Len(f.form) /\ f.cut = Len(Encode(f.form)))}
         = Ends(f.form, f.cut)
  BY <1>1, <1>2 DEF Ends
<1> QED
  BY <1>3, Zenon DEF Arrived

LEMMA EndsFinal ==
    ASSUME NEW form, SendableForm(form), NEW cut \in 0..Len(Encode(form)), NEW k, FinalRound(form, cut, k)
    PROVE  /\ cut <= Offset(form, k + 1) + 1 => Ends(form, cut) = {}
           /\ ~(cut <= Offset(form, k + 1) + 1) => Ends(form, cut) = {k + 1}
<1>1. PICK n \in Nat : n = Len(form)
  BY LenProperties DEF SendableForm
<1>2. form \in Seq(FormPart) /\ cut \in Nat /\ cut <= Offset(form, n) + 3
  BY <1>1, FormLies DEF SendableForm
<1>3. k \in 0..(n - 1) /\ k \in Nat /\ k + 1 \in 1..n /\ Active(form, cut, k) /\ (k + 1 = n \/ ~Active(form, cut, k + 1))
  BY <1>1 DEF FinalRound
<1>4. PICK at \in Nat, next \in Nat : at = Offset(form, k) /\ next = Offset(form, k + 1) /\ at + 5 <= next
  BY <1>1, <1>3, PartsStand
<1>5. \A j \in 0..n : Offset(form, j) \in Nat
  BY <1>1, <1>2, FlatType
<1>6. \A i \in 0..n : \A j \in 0..i : Offset(form, j) + 5 * (i - j) <= Offset(form, i)
  BY <1>1, OffsetsGrow
<1>7. ASSUME NEW j \in 1..n, j <= k, cut = Offset(form, j) + 2 \/ (j = n /\ cut = Offset(form, j) + 3) PROVE FALSE
  <2>1. j \in 0..k /\ j \in 0..n /\ k \in 0..n /\ j # n /\ k # 0
    BY <1>3, <1>7
  <2>2. PICK x \in Nat : x = Offset(form, j)
    BY <1>5, <2>1
  <2>3. x + 5 * (k - j) <= at
    BY <1>4, <1>6, <2>1, <2>2
  <2>4. at + 3 <= cut /\ cut = x + 2
    BY <1>3, <1>4, <1>7, <2>1, <2>2 DEF Active
  <2>5. PICK d \in Nat : d = k - j
    BY <1>3, <1>7
  <2>6. x + 5 * d <= at
    BY <2>3, <2>5
  <2> QED
    BY <1>2, <2>4, <2>6
<1>8. ASSUME NEW j \in 1..n, k + 1 < j PROVE ~(cut = Offset(form, j) + 2 \/ (j = n /\ cut = Offset(form, j) + 3))
  <2>1. k + 1 \in 0..j /\ j \in 0..n /\ k + 1 # n
    BY <1>3, <1>8
  <2>2. PICK x \in Nat : x = Offset(form, j)
    BY <1>5, <2>1
  <2>3. next + 5 * (j - (k + 1)) <= x
    BY <1>4, <1>6, <2>1, <2>2
  <2>4. ~(next + 3 <= cut)
    BY <1>3, <1>4, <2>1 DEF Active
  <2>5. PICK d \in Nat : d = j - (k + 1) /\ d >= 1
    BY <1>3, <1>8
  <2>6. next + 5 * d <= x
    BY <2>3, <2>5
  <2>7. ~(cut = x + 2) /\ ~(cut = x + 3)
    BY <1>2, <2>4, <2>5, <2>6
  <2> QED
    BY <2>2, <2>7
<1>9. ASSUME NEW j \in Ends(form, cut) PROVE j = k + 1
  BY <1>1, <1>3, <1>7, <1>8 DEF Ends
<1>10. ASSUME cut <= next + 1 PROVE k + 1 \notin Ends(form, cut)
  BY <1>2, <1>4, <1>10 DEF Ends
<1>11. ASSUME ~(cut <= next + 1) PROVE k + 1 \in Ends(form, cut)
  <2>1. CASE k + 1 = n
    <3>1. cut <= next + 3
      BY <1>2, <1>4, <2>1
    <3>2. cut = next + 2 \/ cut = next + 3
      BY <1>2, <1>11, <3>1
    <3> QED
      BY <1>1, <1>3, <1>4, <2>1, <3>2 DEF Ends
  <2>2. CASE k + 1 # n
    <3>1. ~(next + 3 <= cut)
      BY <1>3, <1>4, <2>2 DEF Active
    <3>2. cut = next + 2
      BY <1>2, <1>11, <3>1
    <3> QED
      BY <1>1, <1>3, <1>4, <3>2 DEF Ends
  <2> QED
    BY <2>1, <2>2
<1>12. ASSUME cut <= next + 1 PROVE Ends(form, cut) = {}
  BY <1>9, <1>10, <1>12
<1>13. ASSUME ~(cut <= next + 1) PROVE Ends(form, cut) = {k + 1}
  BY <1>9, <1>11, <1>13
<1> QED
  BY <1>4, <1>12, <1>13

LEMMA EndsNone ==
    ASSUME NEW form, SendableForm(form), NEW cut \in 0..Len(Encode(form)), ~(Len(form) # 0 /\ 2 <= cut)
    PROVE  Ends(form, cut) = {}
<1>1. PICK n \in Nat : n = Len(form)
  BY LenProperties DEF SendableForm
<1>2. form \in Seq(FormPart) /\ cut \in Nat
  BY <1>1, FormLies DEF SendableForm
<1>3. ASSUME NEW j \in Ends(form, cut) PROVE FALSE
  <2>1. j \in 1..n /\ (cut = Offset(form, j) + 2 \/ (j = n /\ cut = Offset(form, j) + 3))
    BY <1>1 DEF Ends
  <2>2. j \in 0..Len(form) /\ 0 \in 0..j /\ n # 0
    BY <1>1, <2>1
  <2>3. PICK x \in Nat : x = Offset(form, j)
    BY <1>2, <2>2, FlatType
  <2>4. 0 + 5 * (j - 0) <= x
    BY <2>2, <2>3, OffsetsGrow, FlatNone
  <2> QED
    BY <1>1, <1>2, <2>1, <2>2, <2>3, <2>4
<1> QED
  BY <1>3

LEMMA SingleMost == ASSUME NEW k \in Nat PROVE Max({k + 1}) = k + 1
<1>1. {k + 1} \in SUBSET Int /\ k + 1 \in {k + 1} /\ \A x \in {k + 1} : k + 1 >= x
  OBVIOUS
<1> QED
  BY <1>1, MostIs

FormResult(f) ==
    IF Arrived(f) = 0 \/ f.style # "bare" THEN Failed
    ELSE [ok |-> TRUE, fields |-> FormRead(SubSeq(f.form, 1, Arrived(f)))]

LEMMA BareResult ==
    ASSUME NEW f, SendableForm(f.form), f.cut \in 0..Len(Encode(f.form)), f.style = "bare"
    PROVE  AsMultipart(f.style, SubSeq(Encode(f.form), 1, f.cut)) = FormResult(f)
<1>1. PICK form, s, cut, b : form = f.form /\ s = Encode(form) /\ cut = f.cut /\ b = SubSeq(s, 1, cut)
  OBVIOUS
<1>2. SendableForm(form) /\ form \in Seq(FormPart) /\ cut \in 0..Len(s) /\ cut \in 0..Len(Encode(form))
  BY <1>1 DEF SendableForm
<1>3. Cut(s, cut, b)
  BY <1>1, <1>2, FormLies, CutBody
<1>4. AsMultipart(f.style, b) = ParseForm(b, Delimiter)
  BY DEF AsMultipart, BoundaryOf
<1>5. Arrived(f) = IF Ends(form, cut) = {} THEN 0 ELSE Max(Ends(form, cut))
  BY <1>1, <1>2, ArrivedIs
<1>6. CASE ~(Len(form) # 0 /\ 2 <= cut)
  <2>1. ParseForm(b, Delimiter) = Failed
    BY <1>1, <1>2, <1>3, <1>6, BareRead
  <2>2. Ends(form, cut) = {}
    BY <1>2, <1>6, EndsNone
  <2> QED
    BY <1>1, <1>4, <1>5, <2>1, <2>2 DEF FormResult
<1>7. CASE Len(form) # 0 /\ 2 <= cut
  <2>1. PICK k : FinalRound(form, cut, k)
    BY <1>2, <1>7, FinalThere
  <2>2. ParseForm(b, Delimiter) = ReadUpTo(form, cut, k)
    BY <1>1, <1>2, <1>3, <1>7, <2>1, BareRead
  <2>3. k \in Nat /\ k + 1 # 0
    BY <2>1 DEF FinalRound
  <2>4. CASE cut <= Offset(form, k + 1) + 1
    <3>1. Arrived(f) = 0
      BY <1>2, <1>5, <2>1, <2>4, EndsFinal
    <3> QED
      BY <1>1, <1>4, <2>2, <2>4, <3>1 DEF ReadUpTo, FormResult
  <2>5. CASE ~(cut <= Offset(form, k + 1) + 1)
    <3>1. Ends(form, cut) = {k + 1}
      BY <1>2, <2>1, <2>5, EndsFinal
    <3>2. Arrived(f) = k + 1
      BY <1>5, <2>3, <3>1, SingleMost
    <3>3. ParseForm(b, Delimiter) = [ok |-> TRUE, fields |-> FormRead(SubSeq(form, 1, k + 1))]
      BY <2>2, <2>5 DEF ReadUpTo, FormUpTo
    <3>4. FormResult(f) = [ok |-> TRUE, fields |-> FormRead(SubSeq(f.form, 1, Arrived(f)))]
      BY <2>3, <3>2 DEF FormResult
    <3> QED
      BY <1>1, <1>4, <3>2, <3>3, <3>4
  <2> QED
    BY <2>4, <2>5
<1> QED
  BY <1>6, <1>7

(* The delimiters that a server may look for by mistake. *)
OtherDelimiter(d) ==
    /\ Disposition # d /\ Space # d /\ FormData # d /\ Semicolon # d /\ NameKey # d /\ Quote # d
    /\ FileKey # d /\ FileName # d /\ ContentType # d /\ CrLf # d /\ Delimiter # d

LEMMA BoundariesDiffer ==
    /\ OtherDelimiter(BoundaryOf("missing")) /\ BoundaryOf("missing") = Hyphens
    /\ OtherDelimiter(BoundaryOf("quoted")) /\ BoundaryOf("quoted") # Hyphens
<1>1. BoundaryOf("missing") = Hyphens /\ BoundaryOf("quoted") = "--QUOTE B QUOTE"
  BY DEF BoundaryOf
<1>2. OtherDelimiter(Hyphens)
  BY Zenon DEF OtherDelimiter, Delimiter, Hyphens, CrLf, Quote, Disposition, ContentType, NameKey, FileKey, FormData,
               FileName, Space, Semicolon
<1>3. OtherDelimiter("--QUOTE B QUOTE") /\ Hyphens # "--QUOTE B QUOTE"
  BY Zenon DEF OtherDelimiter, Delimiter, Hyphens, CrLf, Quote, Disposition, ContentType, NameKey, FileKey, FormData,
               FileName, Space, Semicolon
<1> QED
  BY <1>1, <1>2, <1>3

LEMMA NotInParts ==
    ASSUME NEW form \in Seq(FormPart), NEW d, OtherDelimiter(d), \A k \in 1..Len(form) : MayBeSent(form[k], d)
    PROVE  Flat(form, Len(form)) \in Seq(Token \ {d})
<1>1. Len(form) \in Nat
  BY LenProperties
<1>2. ASSUME NEW k \in 1..Len(form) PROVE EncodePart(form[k]) \in Seq(Token \ {d})
  <2>1. PICK part \in FormPart : part = form[k] /\ MayBeSent(part, d)
    BY ElementOfSeq
  <2>2. PICK S : S = Token \ {d}
    OBVIOUS
  <2>3. part.name \in Seq(S) /\ part.type \in Seq(S) /\ part.content \in Seq(S)
    BY <2>1, <2>2, SentTokens DEF OtherDelimiter
  <2>4. /\ Disposition \in S /\ Space \in S /\ FormData \in S /\ Semicolon \in S /\ NameKey \in S /\ Quote \in S
        /\ FileKey \in S /\ FileName \in S /\ ContentType \in S /\ CrLf \in S /\ Delimiter \in S
    BY <2>2, MarksAre DEF OtherDelimiter
  <2>5. EncodePart(part) \in Seq(S)
    BY <2>3, <2>4, PartOf
  <2> QED
    BY <2>1, <2>2, <2>5
<1> QED
  BY <1>1, <1>2, BlocksType

(* Only behind the last delimiter, and only if it is the hyphens. *)
LEMMA OnlyAtTheEnd ==
    ASSUME NEW form \in Seq(FormPart), NEW d, OtherDelimiter(d), \A k \in 1..Len(form) : MayBeSent(form[k], d),
           NEW s, s = Encode(form), NEW i \in 1..Len(s), s[i] = d
    PROVE  d = Hyphens /\ i + 1 = Len(s)
<1>1. PICK n \in Nat : n = Len(form)
  BY LenProperties
<1>2. PICK flat \in Seq(Token \ {d}) : flat = Flat(form, n)
  BY <1>1, NotInParts
<1>3. PICK m \in Nat : m = Len(flat) /\ m = Offset(form, n)
  BY <1>2, LenProperties DEF Offset
<1>4. Len(s) = m + 3 /\ s[m + 1] = Delimiter /\ s[m + 2] = Hyphens /\ s[m + 3] = CrLf /\ Begins(s, flat)
  BY <1>1, <1>2, <1>3, FormLies
<1>5. \A j \in 1..m : s[j] # d
  <2>1. flat \in Seq(Token)
    <3>1. PICK S : S = Token \ {d}
      OBVIOUS
    <3>2. S \subseteq Token /\ flat \in Seq(S)
      BY <3>1
    <3> QED
      BY <3>2, SeqMonotonic
  <2>2. LiesAt(s, 0, flat)
    BY <1>4, <2>1, BeginsLies
  <2>3. \A j \in 1..m : flat[j] \in Token \ {d}
    BY <1>3, ElementOfSeq
  <2>4. \A j \in 1..m : s[0 + j] = flat[j]
    BY <1>3, <2>2 DEF LiesAt
  <2> QED
    BY <2>3, <2>4
<1>6. i \in 1..(m + 3) /\ ~(i \in 1..m)
  BY <1>4, <1>5
<1>7. i = m + 1 \/ i = m + 2 \/ i = m + 3
  BY <1>6
<1>8. i # m + 1 /\ i # m + 3
  BY <1>4 DEF OtherDelimiter
<1> QED
  BY <1>4, <1>7, <1>8

LEMMA OtherResult ==
    ASSUME NEW form \in Seq(FormPart), NEW d, OtherDelimiter(d), \A k \in 1..Len(form) : MayBeSent(form[k], d),
           NEW s, s = Encode(form), NEW cut \in 0..Len(s), NEW b, Cut(s, cut, b)
    PROVE  ParseForm(b, d) = Failed
<1>1. cut \in Nat /\ Len(s) \in Nat /\ cut <= Len(s)
  <2>1. Len(s) \in Nat
    BY FormLies, LenProperties
  <2> QED
    BY <2>1
<1>2. b \in Seq(Token) /\ Len(b) = cut /\ \A i \in 1..cut : b[i] = s[i]
  BY DEF Cut
<1>3. PICK open : open = FirstAt(<<d, CrLf>>, b, 1)
  OBVIOUS
<1>4. PICK r : /\ Rounds(b, d, open, r)
               /\ ParseForm(b, d) =
                      IF open # 0 /\ r[cut].state = "done" THEN [ok |-> TRUE, fields |-> r[cut].fields] ELSE Failed
  BY <1>2, <1>3, ParseBy
<1>5. CASE open = 0
  BY <1>4, <1>5
<1>6. CASE open # 0
  <2>1. PICK m \in 1..(cut - 1) : open = m /\ b[m] = d
    BY <1>2, <1>3, <1>6, PairAt
  <2>2. m \in 1..cut /\ m \in 1..Len(s) /\ cut >= 1 /\ m \in Nat
    BY <1>1, <2>1
  <2>3. s[m] = d
    BY <1>2, <2>1, <2>2
  <2>4. m + 1 = Len(s)
    BY <2>2, <2>3, OnlyAtTheEnd
  <2>5. cut = m + 1
    BY <1>1, <2>1, <2>4
  <2>6. PICK pos \in Nat : pos = open + 2 /\ pos >= 1 /\ pos > cut
    <3>1. open + 2 \in Nat /\ open + 2 >= 1 /\ open + 2 > cut
      BY <2>1, <2>2, <2>5
    <3> QED
      BY <3>1
  <2>7. FirstAt(<<CrLf, CrLf>>, b, pos) = 0
    <3>1. NoPair(b, CrLf, CrLf, pos, cut)
      BY <1>1, <2>6 DEF NoPair
    <3> QED
      BY <1>2, <2>6, <3>1, PairAt
  <2>8. ReadPart(b, d, Reading(pos, NoFields)).state = "failed"
    BY <2>7, RoundFails
  <2>9. r[1].state = "failed"
    <3>1. 1 \in 1..cut /\ 1 - 1 = 0
      BY <1>1, <2>2
    <3>2. r[0] = Reading(pos, NoFields) /\ RoundIs(b, d, r, 1)
      BY <1>2, <1>4, <2>6, <3>1, RoundsUnfold DEF Reading
    <3> QED
      BY <2>8, <3>1, <3>2 DEF RoundIs
  <2>10. r[cut] = r[1]
    <3>1. 1 \in 0..cut
      BY <1>1, <2>2
    <3> QED
      BY <1>2, <1>4, <2>9, <3>1, RoundsEnd
  <2> QED
    BY <1>4, <2>9, <2>10
<1> QED
  BY <1>5, <1>6

(* Every form reads back as FormsReadBack says. *)
LEMMA FormsRead ==
    ASSUME NEW f \in Forms
    PROVE  AsMultipart(f.style, SubSeq(Encode(f.form), 1, f.cut)) = FormResult(f)
<1>1. /\ f.form \in Seq(FormPart) /\ f.cut \in 0..Len(Encode(f.form)) /\ f.style \in {"bare", "quoted", "missing"}
      /\ \A k \in 1..Len(f.form) : MayBeSent(f.form[k], BoundaryOf(f.style))
  BY FormsAssumption DEF FormPart
<1>2. CASE f.style = "bare"
  <2>1. SendableForm(f.form)
    BY <1>1, ElementOfSeq, SentPart DEF SendableForm
  <2> QED
    BY <1>1, <1>2, <2>1, BareResult
<1>3. CASE f.style # "bare"
  <2>1. PICK d : d = BoundaryOf(f.style) /\ OtherDelimiter(d)
    BY <1>1, <1>3, BoundariesDiffer
  <2>2. PICK form, s, cut, b : form = f.form /\ s = Encode(form) /\ cut = f.cut /\ b = SubSeq(s, 1, cut)
    OBVIOUS
  <2>3. form \in Seq(FormPart) /\ cut \in 0..Len(s) /\ \A k \in 1..Len(form) : MayBeSent(form[k], d)
    BY <1>1, <2>1, <2>2
  <2>4. Cut(s, cut, b)
    BY <2>2, <2>3, FormLies, CutBody
  <2>5. ParseForm(b, d) = Failed
    BY <2>1, <2>2, <2>3, <2>4, OtherResult
  <2> QED
    BY <1>3, <2>1, <2>2, <2>5 DEF AsMultipart, FormResult
<1> QED
  BY <1>2, <1>3

-----------------------------------------------------------------------------
(* Patterns. *)

LEMMA SignsAre ==
    /\ Slash \in Token /\ OpenBrace \in Token /\ CloseBrace \in Token /\ PathName \in Token
    /\ Slash # OpenBrace /\ Slash # CloseBrace /\ Slash # PathName
    /\ OpenBrace # CloseBrace /\ OpenBrace # PathName /\ CloseBrace # PathName
<1>1. Slash \in Token /\ OpenBrace \in Token /\ CloseBrace \in Token /\ PathName \in Token
  BY Zenon DEF Signs, Token
<1>2. /\ Slash # OpenBrace /\ Slash # CloseBrace /\ Slash # PathName
      /\ OpenBrace # CloseBrace /\ OpenBrace # PathName /\ CloseBrace # PathName
  BY Zenon DEF Slash, OpenBrace, CloseBrace, PathName
<1> QED
  BY <1>1, <1>2

(* A name that is valid has a first word, and no sign. *)
LEMMA ValidNames ==
    ASSUME NEW name \in Text, ValidName(name)
    PROVE  /\ Len(name) >= 1 /\ name # <<>>
           /\ Lacks(name, Slash) /\ Lacks(name, OpenBrace) /\ Lacks(name, CloseBrace)
<1>1. Len(name) \in Nat /\ name \in Seq(Token)
  BY LenProperties DEF Text
<1>2. name # <<>> /\ name[1] \in Idents /\ \A k \in 2..Len(name) : name[k] \in Idents \cup Inner
  BY Zenon DEF ValidName
<1>3. Len(name) >= 1
  BY <1>1, <1>2, EmptySeq
<1>4. \A k \in 1..Len(name) : name[k] \in Idents \cup Inner
  BY <1>1, <1>2
<1>5. \A k \in 1..Len(name) : name[k] # Slash /\ name[k] # OpenBrace /\ name[k] # CloseBrace
  BY <1>4, WordsAssumption
<1> QED
  BY <1>2, <1>3, <1>5, Zenon DEF Lacks

-----------------------------------------------------------------------------
(* The validation of RouteDefinition::new, token by token. *)
Scans == [ok : BOOLEAN, inParam : BOOLEAN, name : Text]

LEMMA ScanStep ==
    ASSUME NEW s \in Scans, NEW x \in Token
    PROVE  /\ Scan(s, x) \in Scans
           /\ x = OpenBrace => /\ Scan(s, x).ok <=> s.ok /\ ~s.inParam
                               /\ Scan(s, x).inParam /\ Scan(s, x).name = <<>>
           /\ x = CloseBrace => /\ Scan(s, x).ok <=> s.ok /\ s.inParam /\ ValidName(s.name)
                                /\ ~Scan(s, x).inParam /\ Scan(s, x).name = s.name
           /\ x # OpenBrace /\ x # CloseBrace =>
                  /\ Scan(s, x).ok = s.ok /\ Scan(s, x).inParam = s.inParam
                  /\ Scan(s, x).name = IF s.inParam THEN Append(s.name, x) ELSE s.name
<1>1. s.ok \in BOOLEAN /\ s.inParam \in BOOLEAN /\ s.name \in Text
  BY DEF Scans
<1>2. Append(s.name, x) \in Text /\ <<>> \in Text
  BY <1>1, AppendProperties, TokensAre DEF Text
<1>3. PICK v \in BOOLEAN : v <=> ValidName(s.name)
  OBVIOUS
<1>4. PICK r : r = Scan(s, x)
  OBVIOUS
<1>5. ASSUME x = OpenBrace
      PROVE  r \in Scans /\ (r.ok <=> s.ok /\ ~s.inParam) /\ r.inParam /\ r.name = <<>>
  BY <1>1, <1>2, <1>4, <1>5, SignsAre DEF Scan, Scans
<1>6. ASSUME x = CloseBrace
      PROVE  r \in Scans /\ (r.ok <=> s.ok /\ s.inParam /\ ValidName(s.name)) /\ ~r.inParam /\ r.name = s.name
  BY <1>1, <1>3, <1>4, <1>6, SignsAre DEF Scan, Scans
<1>7. ASSUME x # OpenBrace, x # CloseBrace
      PROVE  /\ r \in Scans /\ r.ok = s.ok /\ r.inParam = s.inParam
             /\ r.name = IF s.inParam THEN Append(s.name, x) ELSE s.name
  <2>1. PICK n \in Text : n = IF s.inParam THEN Append(s.name, x) ELSE s.name
    BY <1>1, <1>2
  <2>2. r = [s EXCEPT !.name = n]
    BY <1>4, <1>7, <2>1 DEF Scan
  <2> QED
    BY <1>1, <2>1, <2>2 DEF Scans
<1> QED
  BY <1>4, <1>5, <1>6, <1>7, Zenon

LEMMA ScanAppend ==
    /\ Outside \in Scans /\ Scanned(<<>>) = Outside
    /\ \A xs \in Seq(Token) : Scanned(xs) \in Scans
    /\ \A xs \in Seq(Token), x \in Token : Scanned(Append(xs, x)) = Scan(Scanned(xs), x)
<1>1. PICK S, T, base : S = Scans /\ T = Token /\ base = Outside
  OBVIOUS
<1>2. PICK step : step = [x \in T |-> [s \in S |-> Scan(s, x)]]
  OBVIOUS
<1>3. step \in [T -> [S -> S]]
  BY <1>1, <1>2, ScanStep
<1>4. base \in S
  BY <1>1, TokensAre DEF Outside, Scans
<1>5. PICK run : Runs(run, S, T, base, step)
  BY <1>3, <1>4, LoopOver
<1>6. /\ run \in [Seq(T) -> S] /\ run[<<>>] = base
      /\ \A xs \in Seq(T), x \in T : run[Append(xs, x)] = step[x][run[xs]]
  BY <1>5, Zenon DEF Runs
<1>7. ASSUME NEW xs \in Seq(T)
      PROVE  Scanned(xs) = run[xs]
  <2> DEFINE n == Len(xs)
             Right(f) == f = [i \in 0..n |-> IF i = 0 THEN Outside ELSE Scan(f[i - 1], xs[i])]
             g == CHOOSE f : Right(f)
  <2>1. n \in Nat
    BY LenProperties
  <2>2. PICK f : /\ f = [i \in 0..n |-> IF i = 0 THEN base ELSE step[xs[i]][f[i - 1]]]
                 /\ \A i \in 0..n : f[i] \in S
    BY <1>5, Zenon DEF Runs
  <2>3. ASSUME NEW i \in 0..n
        PROVE  f[i] = IF i = 0 THEN Outside ELSE Scan(f[i - 1], xs[i])
    <3>1. CASE i = 0
      BY <1>1, <2>2, <3>1
    <3>2. CASE i # 0
      BY <1>2, <2>1, <2>2, <3>2, ElementOfSeq
    <3> QED
      BY <3>1, <3>2
  <2>4. Right(f)
    BY <2>2, <2>3
  <2>5. Right(g)
    BY <2>4, Zenon
  <2>6. Scanned(xs) = g[n]
    BY Zenon DEF Scanned
  <2> HIDE DEF g
  <2>7. \A i \in 0..n : g[i] = IF i = 0 THEN Outside ELSE Scan(g[i - 1], xs[i])
    BY <2>5, Zenon
  <2>8. Unfolds(g, n, S, base, step, xs)
    <3>1. g[0] = base
      BY <1>1, <2>1, <2>7
    <3>2. ASSUME NEW i \in 1..n, g[i - 1] \in S
          PROVE  g[i] = step[xs[i]][g[i - 1]]
      BY <1>2, <2>1, <2>7, <3>2, ElementOfSeq
    <3> QED
      BY <3>1, <3>2 DEF Unfolds
  <2> QED
    BY <1>5, <2>6, <2>8, Zenon DEF Runs
<1>8. Scanned(<<>>) = Outside
  BY <1>1, <1>6, <1>7, EmptySeq
<1>9. ASSUME NEW xs \in Seq(T) PROVE Scanned(xs) \in S
  BY <1>6, <1>7
<1>10. ASSUME NEW xs \in Seq(T), NEW x \in T
       PROVE  Scanned(Append(xs, x)) = Scan(Scanned(xs), x)
  <2>1. Append(xs, x) \in Seq(T)
    BY AppendProperties
  <2>2. run[Append(xs, x)] = step[x][run[xs]] /\ run[xs] \in S
    BY <1>6
  <2>3. step[x][run[xs]] = Scan(run[xs], x)
    BY <1>2, <2>2
  <2> QED
    BY <1>7, <2>1, <2>2, <2>3
<1> QED
  BY <1>1, <1>4, <1>8, <1>9, <1>10, Zenon

(* The validation of #[route], token by token. *)
LEMMA MacroStep ==
    ASSUME NEW s \in Scans, NEW x \in Token
    PROVE  /\ MacroScan(s, x) \in Scans
           /\ s.inParam /\ x = CloseBrace =>
                  /\ MacroScan(s, x).ok <=> s.ok /\ ValidName(s.name) /\ ~Reserved(s.name)
                  /\ ~MacroScan(s, x).inParam /\ MacroScan(s, x).name = s.name
           /\ s.inParam /\ x # CloseBrace =>
                  /\ MacroScan(s, x).ok = s.ok /\ MacroScan(s, x).inParam
                  /\ MacroScan(s, x).name = Append(s.name, x)
           /\ ~s.inParam /\ x = OpenBrace =>
                  MacroScan(s, x).ok = s.ok /\ MacroScan(s, x).inParam /\ MacroScan(s, x).name = <<>>
           /\ ~s.inParam /\ x # OpenBrace =>
                  /\ MacroScan(s, x).ok <=> s.ok /\ x # CloseBrace
                  /\ ~MacroScan(s, x).inParam /\ MacroScan(s, x).name = s.name
<1>1. s.ok \in BOOLEAN /\ s.inParam \in BOOLEAN /\ s.name \in Text
  BY DEF Scans
<1>2. PICK more, none \in Text : more = Append(s.name, x) /\ none = <<>>
  BY <1>1, AppendProperties, TokensAre DEF Text
<1>3. PICK v \in BOOLEAN : v <=> ValidName(s.name) /\ ~Reserved(s.name)
  OBVIOUS
<1>4. PICK r : r = MacroScan(s, x)
  OBVIOUS
<1>5. ASSUME s.inParam, x = CloseBrace
      PROVE  /\ r \in Scans /\ (r.ok <=> s.ok /\ ValidName(s.name) /\ ~Reserved(s.name))
             /\ ~r.inParam /\ r.name = s.name
  BY <1>1, <1>3, <1>4, <1>5 DEF MacroScan, Scans
<1>6. ASSUME s.inParam, x # CloseBrace
      PROVE  r \in Scans /\ r.ok = s.ok /\ r.inParam /\ r.name = more
  BY <1>1, <1>2, <1>4, <1>6 DEF MacroScan, Scans
<1>7. ASSUME ~s.inParam, x = OpenBrace
      PROVE  r \in Scans /\ r.ok = s.ok /\ r.inParam /\ r.name = none
  BY <1>1, <1>2, <1>4, <1>7 DEF MacroScan, Scans
<1>8. ASSUME ~s.inParam, x # OpenBrace
      PROVE  r \in Scans /\ (r.ok <=> s.ok /\ x # CloseBrace) /\ ~r.inParam /\ r.name = s.name
  BY <1>1, <1>4, <1>8 DEF MacroScan, Scans
<1> QED
  BY <1>1, <1>2, <1>4, <1>5, <1>6, <1>7, <1>8, Zenon

LEMMA MacroAppend ==
    /\ Outside \in Scans /\ MacroScanned(<<>>) = Outside
    /\ \A xs \in Seq(Token) : MacroScanned(xs) \in Scans
    /\ \A xs \in Seq(Token), x \in Token : MacroScanned(Append(xs, x)) = MacroScan(MacroScanned(xs), x)
<1>1. PICK S, T, base : S = Scans /\ T = Token /\ base = Outside
  OBVIOUS
<1>2. PICK step : step = [x \in T |-> [s \in S |-> MacroScan(s, x)]]
  OBVIOUS
<1>3. step \in [T -> [S -> S]]
  BY <1>1, <1>2, MacroStep
<1>4. base \in S
  BY <1>1, TokensAre DEF Outside, Scans
<1>5. PICK run : Runs(run, S, T, base, step)
  BY <1>3, <1>4, LoopOver
<1>6. /\ run \in [Seq(T) -> S] /\ run[<<>>] = base
      /\ \A xs \in Seq(T), x \in T : run[Append(xs, x)] = step[x][run[xs]]
  BY <1>5, Zenon DEF Runs
<1>7. ASSUME NEW xs \in Seq(T)
      PROVE  MacroScanned(xs) = run[xs]
  <2> DEFINE n == Len(xs)
             Right(f) == f = [i \in 0..n |-> IF i = 0 THEN Outside ELSE MacroScan(f[i - 1], xs[i])]
             g == CHOOSE f : Right(f)
  <2>1. n \in Nat
    BY LenProperties
  <2>2. PICK f : /\ f = [i \in 0..n |-> IF i = 0 THEN base ELSE step[xs[i]][f[i - 1]]]
                 /\ \A i \in 0..n : f[i] \in S
    BY <1>5, Zenon DEF Runs
  <2>3. ASSUME NEW i \in 0..n
        PROVE  f[i] = IF i = 0 THEN Outside ELSE MacroScan(f[i - 1], xs[i])
    <3>1. CASE i = 0
      BY <1>1, <2>2, <3>1
    <3>2. CASE i # 0
      BY <1>2, <2>1, <2>2, <3>2, ElementOfSeq
    <3> QED
      BY <3>1, <3>2
  <2>4. Right(f)
    BY <2>2, <2>3
  <2>5. Right(g)
    BY <2>4, Zenon
  <2>6. MacroScanned(xs) = g[n]
    BY Zenon DEF MacroScanned
  <2> HIDE DEF g
  <2>7. \A i \in 0..n : g[i] = IF i = 0 THEN Outside ELSE MacroScan(g[i - 1], xs[i])
    BY <2>5, Zenon
  <2>8. Unfolds(g, n, S, base, step, xs)
    <3>1. g[0] = base
      BY <1>1, <2>1, <2>7
    <3>2. ASSUME NEW i \in 1..n, g[i - 1] \in S
          PROVE  g[i] = step[xs[i]][g[i - 1]]
      BY <1>2, <2>1, <2>7, <3>2, ElementOfSeq
    <3> QED
      BY <3>1, <3>2 DEF Unfolds
  <2> QED
    BY <1>5, <2>6, <2>8, Zenon DEF Runs
<1>8. MacroScanned(<<>>) = Outside
  BY <1>1, <1>6, <1>7, EmptySeq
<1>9. ASSUME NEW xs \in Seq(T) PROVE MacroScanned(xs) \in S
  BY <1>6, <1>7
<1>10. ASSUME NEW xs \in Seq(T), NEW x \in T
       PROVE  MacroScanned(Append(xs, x)) = MacroScan(MacroScanned(xs), x)
  <2>1. Append(xs, x) \in Seq(T)
    BY AppendProperties
  <2>2. run[Append(xs, x)] = step[x][run[xs]] /\ run[xs] \in S
    BY <1>6
  <2>3. step[x][run[xs]] = MacroScan(run[xs], x)
    BY <1>2, <2>2
  <2> QED
    BY <1>7, <2>1, <2>2, <2>3
<1> QED
  BY <1>1, <1>4, <1>8, <1>9, <1>10, Zenon

(* Where the catch-all stands. *)
CatchAllLies(s, i) == s[i] = OpenBrace /\ s[i + 1] = PathName /\ s[i + 2] = CloseBrace

CatchAllAt(s, i) == SubSeq(s, i, i + 2) = CatchAll <=> CatchAllLies(s, i)

LEMMA CatchAllIs ==
    /\ CatchAll \in Seq(Token) /\ Len(CatchAll) = 3
    /\ CatchAll[1] = OpenBrace /\ CatchAll[2] = PathName /\ CatchAll[3] = CloseBrace
BY SignsAre DEF CatchAll

LEMMA TripleAt ==
    ASSUME NEW s \in Seq(Token), NEW i \in 1..(Len(s) - 2)
    PROVE  CatchAllAt(s, i)
<1>1. /\ Len(s) \in Nat /\ i \in Int /\ i + 2 \in Int /\ i + 2 - i + 1 = 3 /\ i <= i + 2
      /\ i + 1 - 1 = i /\ i + 2 - 1 = i + 1 /\ i + 3 - 1 = i + 2
  BY LenProperties
<1>2. \A k \in i..(i + 2) : s[k] \in Token
  BY <1>1, ElementOfSeq
<1>3. PICK q : q = SubSeq(s, i, i + 2)
  OBVIOUS
<1>4. q \in Seq(Token) /\ Len(q) = 3 /\ \A k \in 1..3 : q[k] = s[i + k - 1]
  BY <1>1, <1>2, <1>3, SubSeqProperties
<1>5. q[1] = s[i] /\ q[2] = s[i + 1] /\ q[3] = s[i + 2]
  BY <1>1, <1>4
<1>6. ASSUME q[1] = OpenBrace, q[2] = PathName, q[3] = CloseBrace PROVE q = CatchAll
  <2>1. \A k \in 1..3 : q[k] = CatchAll[k]
    BY <1>6, CatchAllIs
  <2> QED
    BY <1>4, <2>1, CatchAllIs, SeqEqual
<1> QED
  BY <1>3, <1>5, <1>6, CatchAllIs DEF CatchAllAt, CatchAllLies

(* Nowhere, or at a first place. *)
LEMMA FirstCatchAll ==
    ASSUME NEW s \in Seq(Token)
    PROVE  \/ /\ FirstAt(CatchAll, s, 1) = 0
              /\ \A i \in 1..(Len(s) - 2) : ~CatchAllLies(s, i)
           \/ /\ FirstAt(CatchAll, s, 1) \in 1..(Len(s) - 2)
              /\ CatchAllLies(s, FirstAt(CatchAll, s, 1))
              /\ \A i \in 1..(Len(s) - 2) : CatchAllLies(s, i) => FirstAt(CatchAll, s, 1) <= i
<1>1. Len(s) \in Nat
  BY LenProperties
<1>2. PICK places : places = {i \in 1..(Len(s) - Len(CatchAll) + 1) : SubSeq(s, i, i + Len(CatchAll) - 1) = CatchAll}
  OBVIOUS
<1>3. places = {i \in 1..(Len(s) - 2) : CatchAllLies(s, i)}
  <2>1. Len(s) - Len(CatchAll) + 1 = Len(s) - 2
    BY <1>1, CatchAllIs
  <2>2. ASSUME NEW i \in 1..(Len(s) - 2)
        PROVE  SubSeq(s, i, i + Len(CatchAll) - 1) = CatchAll <=> CatchAllLies(s, i)
    BY <1>1, CatchAllIs, TripleAt DEF CatchAllAt
  <2> QED
    BY <1>2, <2>1, <2>2
<1>4. FirstAt(CatchAll, s, 1) = IF places = {} THEN 0 ELSE Min(places)
  BY <1>2, Zenon DEF FirstAt
<1>5. CASE places = {}
  BY <1>3, <1>4, <1>5
<1>6. CASE places # {}
  <2>1. places \in SUBSET Nat /\ places \in SUBSET Int
    BY <1>3
  <2>2. PICK m \in places : \A i \in places : <<i, m>> \notin OpToRel(<, Nat)
    BY <1>6, <2>1, NatLessThanWellFounded, WFMin
  <2>3. \A i \in places : ~(i < m)
    BY <2>1, <2>2, Zenon DEF OpToRel
  <2>4. \A i \in places : m <= i
    BY <2>1, <2>3
  <2>5. Min(places) = m
    BY <2>1, <2>4, LeastIs
  <2>6. FirstAt(CatchAll, s, 1) = m
    BY <1>4, <1>6, <2>5
  <2> QED
    BY <1>3, <2>4, <2>6
<1> QED
  BY <1>5, <1>6

-----------------------------------------------------------------------------
(* What #[route] lets through, RouteDefinition::new reads in the same way, and it holds no *)
(* catch-all.                                                                               *)
Soft(m) == m.ok /\ (m.inParam => Lacks(m.name, OpenBrace))

SameScan(m, r) == r.ok /\ (r.inParam <=> m.inParam) /\ (m.inParam => r.name = m.name)

NoCatchAll(xs) == \A i \in 1..(Len(xs) - 2) : ~CatchAllLies(xs, i)

JustOpened(xs, m) ==
    LET n == Len(xs) IN
    /\ n >= 1 /\ xs[n] = OpenBrace => m.inParam /\ m.name = <<>>
    /\ n >= 2 /\ xs[n - 1] = OpenBrace /\ xs[n] = PathName => m.inParam /\ m.name = <<PathName>>

LEMMA MacroFollows ==
    ASSUME NEW xs \in Seq(Token), NEW x \in Token, NEW m \in Scans, NEW r \in Scans,
           Soft(MacroScan(m, x))
    PROVE  Soft(m) /\ (SameScan(m, r) => SameScan(MacroScan(m, x), Scan(r, x)))
<1>1. m.ok \in BOOLEAN /\ m.inParam \in BOOLEAN /\ m.name \in Text /\ m.name \in Seq(Token) /\ r.inParam \in BOOLEAN
  BY DEF Scans, Text
<1>2. PICK p, q : p = MacroScan(m, x) /\ q = Scan(r, x)
  OBVIOUS
<1>3. CASE m.inParam /\ x = CloseBrace
  <2>1. p.ok /\ (p.ok <=> m.ok /\ ValidName(m.name) /\ ~Reserved(m.name)) /\ ~p.inParam
    BY <1>2, <1>3, MacroStep DEF Soft
  <2>2. Lacks(m.name, OpenBrace)
    BY <1>1, <2>1, ValidNames
  <2>3. (q.ok <=> r.ok /\ r.inParam /\ ValidName(r.name)) /\ ~q.inParam
    BY <1>2, <1>3, ScanStep
  <2> QED
    BY <1>2, <1>3, <2>1, <2>2, <2>3 DEF Soft, SameScan
<1>4. CASE m.inParam /\ x # CloseBrace
  <2>1. p.ok = m.ok /\ p.inParam /\ p.name = Append(m.name, x)
    BY <1>2, <1>4, MacroStep
  <2>2. m.ok /\ Lacks(Append(m.name, x), OpenBrace)
    BY <1>2, <2>1 DEF Soft
  <2>3. /\ Len(Append(m.name, x)) = Len(m.name) + 1 /\ Len(m.name) \in Nat
        /\ Append(m.name, x)[Len(m.name) + 1] = x
        /\ \A i \in 1..Len(m.name) : Append(m.name, x)[i] = m.name[i]
    BY <1>1, AppendProperties, LenProperties
  <2>4. x # OpenBrace /\ Lacks(m.name, OpenBrace)
    BY <2>2, <2>3 DEF Lacks
  <2>5. q.ok = r.ok /\ q.inParam = r.inParam /\ q.name = IF r.inParam THEN Append(r.name, x) ELSE r.name
    BY <1>2, <1>4, <2>4, ScanStep
  <2> QED
    BY <1>1, <1>2, <1>4, <2>1, <2>2, <2>4, <2>5 DEF Soft, SameScan
<1>5. CASE ~m.inParam /\ x = OpenBrace
  BY <1>2, <1>5, MacroStep, ScanStep DEF Soft, SameScan
<1>6. CASE ~m.inParam /\ x # OpenBrace
  BY <1>2, <1>6, MacroStep, ScanStep DEF Soft, SameScan
<1> QED
  BY <1>1, <1>3, <1>4, <1>5, <1>6

LEMMA MacroKeepsOut ==
    ASSUME NEW xs \in Seq(Token), NEW x \in Token, NEW m \in Scans,
           Soft(MacroScan(m, x)), NoCatchAll(xs), JustOpened(xs, m)
    PROVE  NoCatchAll(Append(xs, x)) /\ JustOpened(Append(xs, x), MacroScan(m, x))
<1>1. m.ok \in BOOLEAN /\ m.inParam \in BOOLEAN /\ m.name \in Text /\ m.name \in Seq(Token)
  BY DEF Scans, Text
<1>2. PICK ys, n, p : ys = Append(xs, x) /\ n = Len(xs) /\ p = MacroScan(m, x)
  OBVIOUS
<1>3. /\ ys \in Seq(Token) /\ n \in Nat /\ Len(ys) = n + 1 /\ ys[n + 1] = x
      /\ \A i \in 1..n : ys[i] = xs[i]
  BY <1>2, AppendProperties, LenProperties
<1>4. ASSUME NEW i \in 1..(n - 1), CatchAllLies(ys, i) PROVE FALSE
  <2>1. i + 1 \in Int /\ i + 2 \in Int /\ i \in 1..n /\ i + 1 \in 1..n
    BY <1>3
  <2>2. xs[i] = OpenBrace /\ xs[i + 1] = PathName /\ ys[i + 2] = CloseBrace
    BY <1>3, <1>4, <2>1 DEF CatchAllLies
  <2>3. CASE i + 2 <= n
    BY <1>2, <1>3, <2>1, <2>2, <2>3 DEF CatchAllLies, NoCatchAll
  <2>4. CASE i + 2 > n
    <3>1. i + 2 = n + 1 /\ i = n - 1 /\ i + 1 = n /\ n >= 2
      BY <1>3, <2>4
    <3>2. m.inParam /\ m.name = <<PathName>>
      BY <1>2, <2>2, <3>1 DEF JustOpened
    <3>3. x = CloseBrace
      BY <1>3, <2>2, <3>1
    <3>4. ~Reserved(m.name)
      BY <3>2, <3>3, MacroStep DEF Soft
    <3>5. m.name[1] = PathName /\ Len(m.name) = 1
      BY <3>2
    <3> QED
      BY <3>4, <3>5, WrappedAssumption DEF Reserved
  <2> QED
    BY <1>3, <2>1, <2>3, <2>4
<1>5. NoCatchAll(ys)
  BY <1>3, <1>4 DEF NoCatchAll
<1>6. ASSUME x = OpenBrace PROVE p.inParam /\ p.name = <<>>
  <2>1. CASE m.inParam
    <3>1. p.inParam /\ p.name = Append(m.name, x)
      BY <1>2, <1>6, <2>1, SignsAre, MacroStep
    <3>2. Lacks(Append(m.name, x), OpenBrace)
      BY <1>2, <3>1 DEF Soft
    <3>3. Len(m.name) + 1 \in 1..Len(Append(m.name, x)) /\ Append(m.name, x)[Len(m.name) + 1] = x
      BY <1>1, AppendProperties, LenProperties
    <3> QED
      BY <1>6, <3>2, <3>3 DEF Lacks
  <2>2. CASE ~m.inParam
    BY <1>2, <1>6, <2>2, MacroStep
  <2> QED
    BY <1>1, <2>1, <2>2
<1>7. ASSUME n >= 1, xs[n] = OpenBrace, x = PathName PROVE p.inParam /\ p.name = <<PathName>>
  <2>1. m.inParam /\ m.name = <<>>
    BY <1>2, <1>7 DEF JustOpened
  <2>2. p.inParam /\ p.name = Append(<<>>, PathName)
    BY <1>2, <1>7, <2>1, SignsAre, MacroStep
  <2> QED
    BY <2>2
<1>8. JustOpened(ys, p)
  BY <1>3, <1>6, <1>7 DEF JustOpened
<1> QED
  BY <1>2, <1>5, <1>8

Alike(xs) ==
    Soft(MacroScanned(xs)) =>
        SameScan(MacroScanned(xs), Scanned(xs)) /\ NoCatchAll(xs) /\ JustOpened(xs, MacroScanned(xs))

LEMMA MacroAlike == \A xs \in Seq(Token) : Alike(xs)
<1> DEFINE good == {xs \in Seq(Token) : Alike(xs)}
<1>1. <<>> \in good
  BY MacroAppend, ScanAppend, EmptySeq DEF Outside, NoCatchAll, JustOpened, Alike, SameScan
<1>2. ASSUME NEW xs \in Seq(Token), NEW x \in Token, xs \in good PROVE Append(xs, x) \in good
  <2>1. Append(xs, x) \in Seq(Token)
    BY AppendProperties
  <2>2. PICK m, r \in Scans : m = MacroScanned(xs) /\ r = Scanned(xs)
    BY MacroAppend, ScanAppend
  <2>3. MacroScanned(Append(xs, x)) = MacroScan(m, x) /\ Scanned(Append(xs, x)) = Scan(r, x)
    BY <2>2, MacroAppend, ScanAppend
  <2>4. ASSUME Soft(MacroScan(m, x))
        PROVE  /\ SameScan(MacroScan(m, x), Scan(r, x)) /\ NoCatchAll(Append(xs, x))
               /\ JustOpened(Append(xs, x), MacroScan(m, x))
    <3>1. Soft(m)
      BY <2>4, MacroFollows
    <3>2. SameScan(m, r) /\ NoCatchAll(xs) /\ JustOpened(xs, m)
      BY <1>2, <2>2, <3>1, Zenon DEF Alike
    <3>3. SameScan(MacroScan(m, x), Scan(r, x))
      BY <2>4, <3>2, MacroFollows
    <3>4. NoCatchAll(Append(xs, x)) /\ JustOpened(Append(xs, x), MacroScan(m, x))
      BY <2>4, <3>2, MacroKeepsOut
    <3> QED
      BY <3>3, <3>4
  <2> QED
    BY <2>1, <2>3, <2>4, Zenon DEF Alike
<1>3. \A xs \in Seq(Token) : xs \in good
  <2> HIDE DEF good
  <2> QED
    BY <1>1, <1>2, SeqInduction
<1> QED
  BY <1>3

LEMMA MacroThenRuntime == ASSUME NEW p \in Text, MacroAccepts(p) PROVE RuntimeAccepts(p)
<1>1. p \in Seq(Token)
  BY DEF Text
<1>2. StartsWithSlash(p) /\ MacroScanned(p).ok /\ ~MacroScanned(p).inParam
  BY Zenon DEF MacroAccepts
<1>3. Soft(MacroScanned(p))
  BY <1>2 DEF Soft
<1>4. SameScan(MacroScanned(p), Scanned(p)) /\ NoCatchAll(p)
  BY <1>1, <1>3, MacroAlike DEF Alike
<1>5. FirstAt(CatchAll, p, 1) = 0
  BY <1>1, <1>4, FirstCatchAll DEF NoCatchAll
<1>6. CatchAllAtEnd(p)
  BY <1>5, Zenon DEF CatchAllAtEnd
<1>7. Scanned(p).ok /\ ~Scanned(p).inParam
  BY <1>2, <1>4, Zenon DEF SameScan
<1> QED
  BY <1>2, <1>6, <1>7, Zenon DEF RuntimeAccepts

-----------------------------------------------------------------------------
(* The route of #[static_files]: a text without braces, and the catch-all behind it. *)
Braceless(xs) == Lacks(xs, OpenBrace) /\ Lacks(xs, CloseBrace)

LEMMA LacksAppend ==
    ASSUME NEW xs \in Seq(Token), NEW x \in Token, NEW token
    PROVE  Lacks(Append(xs, x), token) <=> Lacks(xs, token) /\ x # token
<1>1. PICK ys, n : ys = Append(xs, x) /\ n = Len(xs)
  OBVIOUS
<1>2. n \in Nat /\ Len(ys) = n + 1 /\ ys[n + 1] = x /\ \A i \in 1..n : ys[i] = xs[i]
  BY <1>1, AppendProperties, LenProperties
<1>3. \A i \in 1..(n + 1) : i \in 1..n \/ i = n + 1
  BY <1>2
<1>4. n + 1 \in 1..(n + 1) /\ \A i \in 1..n : i \in 1..(n + 1)
  BY <1>2
<1> QED
  BY <1>1, <1>2, <1>3, <1>4, Zenon DEF Lacks

LEMMA BracelessScan == \A xs \in Seq(Token) : Braceless(xs) => Scanned(xs) = Outside
<1> DEFINE good == {xs \in Seq(Token) : Braceless(xs) => Scanned(xs) = Outside}
<1>1. <<>> \in good
  BY ScanAppend, EmptySeq
<1>2. ASSUME NEW xs \in Seq(Token), NEW x \in Token, xs \in good PROVE Append(xs, x) \in good
  <2>1. Append(xs, x) \in Seq(Token) /\ Scanned(Append(xs, x)) = Scan(Scanned(xs), x)
    BY AppendProperties, ScanAppend
  <2>2. ASSUME Braceless(Append(xs, x)) PROVE Scanned(Append(xs, x)) = Outside
    <3>1. Braceless(xs) /\ x # OpenBrace /\ x # CloseBrace
      BY <2>2, LacksAppend DEF Braceless
    <3>2. Scanned(xs) = Outside
      BY <1>2, <3>1
    <3>3. /\ Scan(Outside, x) \in Scans /\ Scan(Outside, x).ok = Outside.ok
          /\ Scan(Outside, x).inParam = Outside.inParam
          /\ Scan(Outside, x).name = IF Outside.inParam THEN Append(Outside.name, x) ELSE Outside.name
      BY <3>1, ScanStep, ScanAppend
    <3>4. PICK s \in Scans : s = Scan(Outside, x)
      BY <3>3
    <3>5. s.ok = TRUE /\ s.inParam = FALSE /\ s.name = <<>>
      BY <3>3, <3>4 DEF Outside
    <3>6. s = Outside
      BY <3>5 DEF Scans, Outside
    <3> QED
      BY <2>1, <3>2, <3>4, <3>6
  <2> QED
    BY <2>1, <2>2
<1>3. \A xs \in Seq(Token) : xs \in good
  <2> HIDE DEF good
  <2> QED
    BY <1>1, <1>2, SeqInduction
<1> QED
  BY <1>3

LEMMA BehindBase ==
    ASSUME NEW base \in Seq(Token), Braceless(base), NEW p, p = base \o CatchAll
    PROVE  p \in Seq(Token) /\ Scanned(p).ok /\ ~Scanned(p).inParam /\ CatchAllAtEnd(p)
<1>1. <<OpenBrace>> \in Seq(Token) /\ <<OpenBrace, PathName>> \in Seq(Token) /\ <<>> \in Seq(Token)
  BY SignsAre
<1>2. PICK a, b \in Seq(Token) : a = Append(base, OpenBrace) /\ b = Append(a, PathName)
  BY SignsAre, AppendProperties
<1>3. p = Append(b, CloseBrace)
  <2>1. /\ <<OpenBrace>> = Append(<<>>, OpenBrace)
        /\ <<OpenBrace, PathName>> = Append(<<OpenBrace>>, PathName)
        /\ CatchAll = Append(<<OpenBrace, PathName>>, CloseBrace)
    BY SignsAre DEF CatchAll
  <2>2. base \o <<OpenBrace>> = a
    BY <1>2, AppendIsConcat, SignsAre
  <2>3. base \o <<OpenBrace, PathName>> = b
    BY <1>1, <1>2, <2>1, <2>2, SignsAre, AppendBehind
  <2>4. base \o Append(<<OpenBrace, PathName>>, CloseBrace) = Append(base \o <<OpenBrace, PathName>>, CloseBrace)
    BY <1>1, SignsAre, AppendBehind
  <2> QED
    BY <2>1, <2>3, <2>4
<1>4. p \in Seq(Token)
  BY <1>3, SignsAre, AppendProperties
<1>5. Scanned(p).ok /\ ~Scanned(p).inParam
  <2>1. Scanned(base) = Outside /\ Outside \in Scans /\ Outside.ok /\ ~Outside.inParam
    BY BracelessScan, ScanAppend DEF Outside
  <2>2. PICK s \in Scans : s = Scanned(a)
    BY ScanAppend
  <2>3. PICK t \in Scans : t = Scanned(b)
    BY ScanAppend
  <2>4. s = Scan(Outside, OpenBrace) /\ t = Scan(s, PathName) /\ Scanned(p) = Scan(t, CloseBrace)
    BY <1>2, <1>3, <2>1, <2>2, <2>3, ScanAppend, SignsAre
  <2>5. s.ok /\ s.inParam /\ s.name = <<>>
    BY <2>1, <2>4, ScanStep, SignsAre
  <2>6. t.ok /\ t.inParam /\ t.name = Append(s.name, PathName)
    <3>1. t.ok = s.ok /\ t.inParam = s.inParam /\ t.name = IF s.inParam THEN Append(s.name, PathName) ELSE s.name
      <4>1. /\ Scan(s, PathName).ok = s.ok /\ Scan(s, PathName).inParam = s.inParam
            /\ Scan(s, PathName).name = IF s.inParam THEN Append(s.name, PathName) ELSE s.name
        BY SignsAre, ScanStep
      <4> QED
        BY <2>4, <4>1, Zenon
    <3> QED
      BY <2>5, <3>1
  <2>7. PICK name \in Seq(Token) : name = t.name /\ Len(name) = 1 /\ name[1] = PathName /\ name # <<>>
    <3>1. s.name \in Seq(Token) /\ Len(s.name) = 0
      BY <2>5, EmptySeq
    <3>2. /\ Append(s.name, PathName) \in Seq(Token) /\ Append(s.name, PathName) # <<>>
          /\ Len(Append(s.name, PathName)) = Len(s.name) + 1 /\ Append(s.name, PathName)[Len(s.name) + 1] = PathName
      BY <3>1, SignsAre, AppendProperties
    <3>3. PICK name \in Seq(Token) : name = Append(s.name, PathName)
      BY <3>2
    <3>4. Len(s.name) + 1 = 1
      BY <3>1
    <3> QED
      BY <2>6, <3>2, <3>3, <3>4, Zenon
  <2>8. ValidName(name)
    BY <2>7, WrappedAssumption DEF ValidName
  <2>9. (Scan(t, CloseBrace).ok <=> t.ok /\ t.inParam /\ ValidName(t.name)) /\ ~Scan(t, CloseBrace).inParam
    BY ScanStep, SignsAre
  <2> QED
    BY <2>4, <2>6, <2>7, <2>8, <2>9
<1>6. CatchAllAtEnd(p)
  <2>1. PICK n, at : n = Len(base) /\ at = FirstAt(CatchAll, p, 1)
    OBVIOUS
  <2>2. /\ n \in Nat /\ Len(p) = n + 3 /\ \A i \in 1..n : p[i] = base[i]
    <3>1. /\ Len(p) = Len(base) + Len(CatchAll)
          /\ \A i \in 1..(Len(base) + Len(CatchAll)) : p[i] = IF i <= Len(base) THEN base[i] ELSE CatchAll[i - Len(base)]
      BY CatchAllIs, ConcatProperties
    <3> QED
      BY <2>1, <3>1, CatchAllIs, LenProperties
  <2>3. ASSUME at # 0 PROVE SubSeq(p, at + Len(CatchAll), Len(p)) = <<>>
    <3>1. at \in 1..(Len(p) - 2) /\ CatchAllLies(p, at)
      BY <1>4, <2>1, <2>3, FirstCatchAll
    <3>2. at \notin 1..n
      BY <2>1, <2>2, <3>1 DEF CatchAllLies, Braceless, Lacks
    <3>3. at = n + 1
      BY <2>2, <3>1, <3>2
    <3>4. PICK lo, hi : lo = at + Len(CatchAll) /\ hi = Len(p)
      OBVIOUS
    <3>5. lo \in Int /\ hi \in Int /\ lo > hi
      BY <2>2, <3>3, <3>4, CatchAllIs
    <3>6. \A i \in lo..hi : p[i] \in Token
      BY <3>5
    <3>7. SubSeq(p, lo, hi) \in Seq(Token) /\ Len(SubSeq(p, lo, hi)) = IF lo <= hi THEN hi - lo + 1 ELSE 0
      BY <3>5, <3>6, SubSeqProperties
    <3>8. Len(SubSeq(p, lo, hi)) = 0
      BY <3>5, <3>7
    <3> QED
      BY <3>4, <3>7, <3>8, EmptySeq
  <2> QED
    BY <2>1, <2>3, Zenon DEF CatchAllAtEnd
<1> QED
  BY <1>4, <1>5, <1>6

LEMMA StaticThenRuntime ==
    ASSUME NEW p \in Text, StaticAccepts(p)
    PROVE  RuntimeAccepts(StaticRoute(p)) <=> p = <<>> \/ StartsWithSlash(p)
<1>1. p \in Seq(Token) /\ Len(p) \in Nat /\ DOMAIN p = 1..Len(p)
  BY LenProperties DEF Text
<1>2. Braceless(p)
  BY <1>1 DEF StaticAccepts, Braceless, Lacks
<1>3. PICK base \in Seq(Token) : /\ Braceless(base) /\ base # <<>> /\ StaticRoute(p) = base \o CatchAll
                                 /\ base[1] = IF p = <<>> THEN Slash ELSE p[1]
  <2>1. CASE p # <<>> /\ p[Len(p)] = Slash
    BY <1>1, <1>2, <2>1 DEF StaticRoute
  <2>2. CASE ~(p # <<>> /\ p[Len(p)] = Slash)
    <3>1. PICK b \in Seq(Token) : b = Append(p, Slash)
      BY <1>1, SignsAre, AppendProperties
    <3>2. StaticRoute(p) = b \o CatchAll
      BY <1>1, <2>2, <3>1, SignsAre, AppendIsConcat DEF StaticRoute
    <3>3. Braceless(b)
      BY <1>1, <1>2, <3>1, SignsAre, LacksAppend DEF Braceless
    <3>4. Len(b) = Len(p) + 1 /\ b[Len(p) + 1] = Slash /\ \A i \in 1..Len(p) : b[i] = p[i]
      BY <1>1, <3>1, SignsAre, AppendProperties
    <3>5. b # <<>>
      BY <1>1, <3>4, EmptySeq
    <3>6. b[1] = IF p = <<>> THEN Slash ELSE p[1]
      BY <1>1, <3>4, EmptySeq
    <3> QED
      BY <3>2, <3>3, <3>5, <3>6
  <2> QED
    BY <2>1, <2>2
<1>4. PICK r \in Seq(Token) : /\ r = StaticRoute(p) /\ Scanned(r).ok /\ ~Scanned(r).inParam /\ CatchAllAtEnd(r)
  BY <1>3, BehindBase
<1>5. r # <<>> /\ r[1] = base[1]
  <2>1. /\ Len(r) = Len(base) + Len(CatchAll)
        /\ \A i \in 1..(Len(base) + Len(CatchAll)) : r[i] = IF i <= Len(base) THEN base[i] ELSE CatchAll[i - Len(base)]
    <3>1. PICK c \in Seq(Token) : c = CatchAll
      BY CatchAllIs
    <3>2. r = base \o c
      BY <1>3, <1>4, <3>1
    <3> QED
      BY <3>1, <3>2, ConcatProperties
  <2>2. Len(base) \in Nat /\ Len(base) # 0
    BY <1>3, EmptySeq, LenProperties
  <2>3. 1 \in 1..(Len(base) + Len(CatchAll)) /\ 1 <= Len(base) /\ Len(r) # 0
    BY <2>1, <2>2, CatchAllIs
  <2> QED
    BY <2>1, <2>3, EmptySeq
<1>6. StartsWithSlash(r) <=> p = <<>> \/ StartsWithSlash(p)
  BY <1>3, <1>5 DEF StartsWithSlash
<1> QED
  BY <1>4, <1>6, Zenon DEF RuntimeAccepts

-----------------------------------------------------------------------------
(* What each item of a sequence is turned into, end to end. *)
Turned(f, xs) == FlattenSeq([i \in DOMAIN xs |-> f[xs[i]]])

LEMMA TurnedAppend ==
    ASSUME NEW T, NEW U, NEW f \in [T -> Seq(U)]
    PROVE  /\ Turned(f, <<>>) = <<>>
           /\ \A xs \in Seq(T) : Turned(f, xs) \in Seq(U)
           /\ \A xs \in Seq(T), x \in T : Turned(f, Append(xs, x)) = Turned(f, xs) \o f[x]
<1> DEFINE each(xs) == [i \in DOMAIN xs |-> f[xs[i]]]
<1>1. ASSUME NEW xs \in Seq(T)
      PROVE  each(xs) \in Seq(Seq(U)) /\ Len(each(xs)) = Len(xs)
  <2>1. PICK n \in Nat : n = Len(xs) /\ DOMAIN xs = 1..n
    BY LenProperties
  <2>2. \A i \in 1..n : xs[i] \in T
    BY <2>1, ElementOfSeq
  <2>3. each(xs) \in [1..n -> Seq(U)]
    BY <2>1, <2>2
  <2> HIDE DEF each
  <2> QED
    BY <2>1, <2>3, IsSeq
<1>2. Turned(f, <<>>) = <<>>
  BY FlattenAppend DEF Turned
<1>3. ASSUME NEW xs \in Seq(T) PROVE Turned(f, xs) \in Seq(U)
  <2>1. Turned(f, xs) = FlattenSeq(each(xs))
    BY DEF Turned
  <2> HIDE DEF each
  <2> QED
    BY <1>1, <2>1, FlattenAppend
<1>4. ASSUME NEW xs \in Seq(T), NEW x \in T PROVE Turned(f, Append(xs, x)) = Turned(f, xs) \o f[x]
  <2>1. PICK ys : ys = Append(xs, x)
    OBVIOUS
  <2>2. PICK n \in Nat : n = Len(xs) /\ DOMAIN xs = 1..n
    BY LenProperties
  <2>3. /\ DOMAIN ys = 1..(n + 1) /\ ys[n + 1] = x /\ \A i \in 1..n : ys[i] = xs[i]
    BY <2>1, <2>2, AppendProperties, LenProperties
  <2>4. PICK a, b : a = each(xs) /\ b = each(ys)
    OBVIOUS
  <2>5. a \in Seq(Seq(U)) /\ Len(a) = n
    BY <1>1, <2>2, <2>4
  <2>6. Grown(b, a, f[x])
    BY <2>2, <2>3, <2>4, <2>5 DEF Grown
  <2>7. b = Append(a, f[x])
    BY <2>5, <2>6, GrownBy
  <2>8. FlattenSeq(Append(a, f[x])) = FlattenSeq(a) \o f[x]
    BY <2>5, FlattenAppend
  <2>9. Turned(f, xs) = FlattenSeq(a) /\ Turned(f, ys) = FlattenSeq(b)
    BY <2>4 DEF Turned
  <2> QED
    BY <2>1, <2>7, <2>8, <2>9
<1> QED
  BY <1>2, <1>3, <1>4, Zenon

-----------------------------------------------------------------------------
(* The segments of a pattern, and what the router captures from them. *)
Segs == {SegmentOf(w) : w \in Text}

SegItem(part) == IF part = <<>> THEN <<>> ELSE <<SegmentOf(part)>>

SegsOf(parts) == FlattenSeq([i \in DOMAIN parts |-> SegItem(parts[i])])

CapItem(seg) == IF seg.k = "static" THEN <<>> ELSE <<IF seg.k = "all" THEN <<PathName>> ELSE seg.s>>

Opens(q) == q # <<>> /\ q[1] = OpenBrace

LEMMA KindsDiffer == "all" # "static" /\ "all" # "param" /\ "param" # "static"
BY Zenon

LEMMA SegmentIs ==
    ASSUME NEW w \in Text
    PROVE  \/ w = CatchAll /\ SegmentOf(w).k = "all" /\ Opens(w) /\ w[Len(w)] = CloseBrace
           \/ /\ w # CatchAll /\ Len(w) > 1 /\ Opens(w) /\ w[Len(w)] = CloseBrace
              /\ SegmentOf(w).k = "param" /\ SegmentOf(w).s = SubSeq(w, 2, Len(w) - 1)
              /\ SubSeq(w, 2, Len(w) - 1) \in Text
           \/ /\ w # CatchAll /\ SegmentOf(w).k = "static"
              /\ ~(Len(w) > 1 /\ w[1] = OpenBrace /\ w[Len(w)] = CloseBrace)
<1>1. w \in Seq(Token) /\ Len(w) \in Nat
  BY LenProperties DEF Text
<1>2. CASE w = CatchAll
  BY <1>2, CatchAllIs, EmptySeq DEF SegmentOf, Opens
<1>3. CASE w # CatchAll /\ Len(w) > 1 /\ w[1] = OpenBrace /\ w[Len(w)] = CloseBrace
  <2>1. SegmentOf(w) = [k |-> "param", s |-> SubSeq(w, 2, Len(w) - 1)]
    BY <1>3, Zenon DEF SegmentOf
  <2>2. Opens(w)
    BY <1>1, <1>3, EmptySeq DEF Opens
  <2>3. SubSeq(w, 2, Len(w) - 1) \in Text
    <3>1. PICK m : m = Len(w) - 1
      OBVIOUS
    <3>2. m \in Int /\ \A i \in 2..m : w[i] \in Token
      BY <1>1, <1>3, <3>1, ElementOfSeq
    <3>3. SubSeq(w, 2, m) \in Seq(Token)
      BY <3>2, SubSeqProperties
    <3> QED
      BY <3>1, <3>3 DEF Text
  <2> QED
    BY <1>3, <2>1, <2>2, <2>3
<1>4. CASE w # CatchAll /\ ~(Len(w) > 1 /\ w[1] = OpenBrace /\ w[Len(w)] = CloseBrace)
  BY <1>4 DEF SegmentOf
<1> QED
  BY <1>2, <1>3, <1>4

LEMMA CapType == ASSUME NEW seg \in Segs PROVE CapItem(seg) \in Seq(Text)
<1>1. PICK w \in Text : seg = SegmentOf(w)
  BY DEF Segs
<1>2. <<PathName>> \in Text
  BY SignsAre DEF Text
<1>3. CASE seg.k = "static"
  BY <1>3, EmptySeq, Zenon DEF CapItem
<1>4. CASE seg.k = "all"
  BY <1>2, <1>4, KindsDiffer DEF CapItem
<1>5. CASE seg.k = "param" /\ seg.s \in Text
  BY <1>5, KindsDiffer DEF CapItem
<1> QED
  BY <1>1, <1>3, <1>4, <1>5, SegmentIs

LEMMA SegsAppend ==
    /\ SegsOf(<<>>) = <<>>
    /\ \A front \in Seq(Text) : SegsOf(front) \in Seq(Segs)
    /\ \A front \in Seq(Text), q \in Text : SegsOf(Append(front, q)) = SegsOf(front) \o SegItem(q)
<1>1. PICK f : f = [w \in Text |-> SegItem(w)]
  OBVIOUS
<1>2. f \in [Text -> Seq(Segs)]
  <2>1. ASSUME NEW w \in Text PROVE SegItem(w) \in Seq(Segs)
    <3>1. PICK seg \in Segs : seg = SegmentOf(w)
      BY DEF Segs
    <3>2. <<seg>> \in Seq(Segs) /\ <<>> \in Seq(Segs)
      BY EmptySeq
    <3> QED
      BY <3>1, <3>2, Zenon DEF SegItem
  <2> QED
    BY <1>1, <2>1
<1>3. ASSUME NEW xs \in Seq(Text) PROVE SegsOf(xs) = Turned(f, xs)
  BY <1>1, ElementOfSeq, LenProperties DEF SegsOf, Turned
<1>4. \A front \in Seq(Text), q \in Text : Append(front, q) \in Seq(Text) /\ f[q] = SegItem(q)
  BY <1>1, AppendProperties
<1>5. /\ Turned(f, <<>>) = <<>>
      /\ \A xs \in Seq(Text) : Turned(f, xs) \in Seq(Segs)
      /\ \A xs \in Seq(Text), x \in Text : Turned(f, Append(xs, x)) = Turned(f, xs) \o f[x]
  BY <1>2, TurnedAppend
<1>6. <<>> \in Seq(Text)
  BY EmptySeq
<1> QED
  BY <1>3, <1>4, <1>5, <1>6, Zenon

LEMMA CaptureAppend ==
    /\ Captured(<<>>) = <<>>
    /\ \A segs \in Seq(Segs) : Captured(segs) \in Seq(Text)
    /\ \A segs \in Seq(Segs), seg \in Segs : Captured(Append(segs, seg)) = Captured(segs) \o CapItem(seg)
<1>1. PICK f : f = [s \in Segs |-> CapItem(s)]
  OBVIOUS
<1>2. f \in [Segs -> Seq(Text)]
  BY <1>1, CapType
<1>3. ASSUME NEW xs \in Seq(Segs) PROVE Captured(xs) = Turned(f, xs)
  BY <1>1, ElementOfSeq, LenProperties DEF Captured, CapItem, Turned
<1>4. \A segs \in Seq(Segs), seg \in Segs : Append(segs, seg) \in Seq(Segs) /\ f[seg] = CapItem(seg)
  BY <1>1, AppendProperties
<1>5. /\ Turned(f, <<>>) = <<>>
      /\ \A xs \in Seq(Segs) : Turned(f, xs) \in Seq(Text)
      /\ \A xs \in Seq(Segs), x \in Segs : Turned(f, Append(xs, x)) = Turned(f, xs) \o f[x]
  BY <1>2, TurnedAppend
<1>6. <<>> \in Seq(Segs)
  BY EmptySeq
<1> QED
  BY <1>3, <1>4, <1>5, <1>6, Zenon

(* What is captured from the pieces of a pattern, and from one. *)
Caught(front) == Captured(SegsOf(front))

Cap(q) == IF q = <<>> THEN <<>> ELSE CapItem(SegmentOf(q))

LEMMA CaughtAppend ==
    /\ Caught(<<>>) = <<>>
    /\ \A front \in Seq(Text) : Caught(front) \in Seq(Text)
    /\ \A front \in Seq(Text), q \in Text :
          /\ Cap(q) \in Seq(Text)
          /\ Caught(Append(front, q)) = Caught(front) \o Cap(q)
<1>1. ASSUME NEW front \in Seq(Text), NEW q \in Text
      PROVE  Cap(q) \in Seq(Text) /\ Caught(Append(front, q)) = Caught(front) \o Cap(q)
  <2>1. PICK segs \in Seq(Segs) : segs = SegsOf(front)
    BY SegsAppend
  <2>2. SegsOf(Append(front, q)) = segs \o SegItem(q)
    BY <2>1, SegsAppend
  <2>3. CASE q = <<>>
    BY <2>1, <2>2, <2>3, CaptureAppend, ConcatEmptySeq, EmptySeq DEF SegItem, Cap, Caught
  <2>4. CASE q # <<>>
    <3>1. PICK seg \in Segs : seg = SegmentOf(q)
      BY DEF Segs
    <3>2. SegItem(q) = <<seg>> /\ Cap(q) = CapItem(seg)
      BY <2>4, <3>1 DEF SegItem, Cap
    <3>3. segs \o <<seg>> = Append(segs, seg)
      BY AppendIsConcat
    <3> QED
      BY <2>1, <2>2, <3>2, <3>3, CaptureAppend, CapType DEF Caught
  <2> QED
    BY <2>3, <2>4
<1> QED
  BY <1>1, SegsAppend, CaptureAppend DEF Caught

(* At most one name is captured from a piece: none unless it stands between braces. *)
LEMMA CapSize ==
    ASSUME NEW q \in Text
    PROVE  /\ Cap(q) = <<>> \/ (Len(Cap(q)) = 1 /\ Opens(q) /\ q[Len(q)] = CloseBrace)
           /\ Cap(<<>>) = <<>> /\ Len(<<>>) = 0
<1>1. CASE q = <<>> \/ SegmentOf(q).k = "static"
  BY <1>1, EmptySeq DEF Cap, CapItem
<1>2. CASE q # <<>> /\ SegmentOf(q).k # "static"
  <2>1. PICK x : Cap(q) = <<x>>
    BY <1>2, Zenon DEF Cap, CapItem
  <2>3. Len(Cap(q)) = 1
    BY <2>1
  <2>2. Opens(q) /\ q[Len(q)] = CloseBrace
    BY <1>2, SegmentIs
  <2> QED
    BY <2>2, <2>3, EmptySeq DEF Cap
<1> QED
  BY <1>1, <1>2

Braced(name) == <<OpenBrace>> \o name \o <<CloseBrace>>

LEMMA CapBraced ==
    ASSUME NEW name \in Text
    PROVE  /\ Braced(name) \in Text /\ Braced(name) = Append(<<OpenBrace>> \o name, CloseBrace)
           /\ Cap(Braced(name)) = <<name>>
<1>1. PICK q : q = Braced(name)
  OBVIOUS
<1>2. <<OpenBrace>> \in Seq(Token) /\ <<CloseBrace>> \in Seq(Token) /\ name \in Seq(Token)
  BY SignsAre DEF Text
<1>3. PICK a, b : a = <<OpenBrace>> /\ b = <<CloseBrace>>
  OBVIOUS
<1>4. a \in Seq(Token) /\ b \in Seq(Token) /\ Len(a) = 1 /\ Len(b) = 1 /\ a[1] = OpenBrace /\ b[1] = CloseBrace
  BY <1>2, <1>3
<1>5. q = a \o name \o b
  BY <1>1, <1>3 DEF Braced
<1>6. Holds(q, a, name, b)
  BY <1>2, <1>4, <1>5, LiesWithin
<1>12. PICK n \in Nat : n = Len(name)
  BY <1>2, LenProperties
<1>7. /\ q \in Seq(Token) /\ Len(q) = n + 2 /\ q[1] = OpenBrace /\ q[n + 2] = CloseBrace
      /\ \A i \in 1..n : q[1 + i] = name[i]
  BY <1>4, <1>6, <1>12 DEF Holds, LiesAt
<1>8. q # <<>> /\ Len(q) > 1
  BY <1>7, EmptySeq
<1>9. ASSUME q = CatchAll PROVE Cap(q) = <<name>>
  <2>1. n = 1 /\ name[1] = PathName
    <3>1. n = 1
      <4>1. n + 2 = 3
        BY <1>7, <1>9, CatchAllIs
      <4> QED
        BY <4>1
    <3>2. q[1 + 1] = name[1] /\ q[2] = PathName
      BY <1>7, <1>9, <3>1, CatchAllIs
    <3> QED
      BY <3>1, <3>2
  <2>2. name = <<PathName>>
    <3>1. <<PathName>> \in Seq(Token) /\ Len(<<PathName>>) = 1 /\ <<PathName>>[1] = PathName
      BY SignsAre
    <3>2. Len(name) = 1 /\ \A i \in 1..1 : name[i] = <<PathName>>[i]
      BY <1>12, <2>1, <3>1
    <3> QED
      BY <1>2, <3>1, <3>2, SeqEqual
  <2>3. SegmentOf(q).k = "all"
    BY <1>9, Zenon DEF SegmentOf
  <2>4. CapItem(SegmentOf(q)) = << <<PathName>> >>
    BY <2>3, KindsDiffer, Zenon DEF CapItem
  <2> QED
    BY <1>8, <2>2, <2>4, Zenon DEF Cap
<1>10. ASSUME q # CatchAll PROVE Cap(q) = <<name>>
  <2>1. SegmentOf(q).k = "param" /\ SegmentOf(q).s = SubSeq(q, 2, Len(q) - 1)
    BY <1>7, <1>8, <1>10, SegmentIs DEF Text, Opens
  <2>2. SubSeq(q, 1 + 1, 1 + Len(name)) = name
    BY <1>2, <1>7, <1>12, LiesSame DEF LiesAt
  <2>3. 1 + 1 = 2 /\ 1 + Len(name) = Len(q) - 1
    BY <1>7, <1>12
  <2>4. SegmentOf(q).s = name
    BY <2>1, <2>2, <2>3
  <2>5. CapItem(SegmentOf(q)) = <<name>>
    BY <2>1, <2>4, KindsDiffer, Zenon DEF CapItem
  <2> QED
    BY <1>8, <2>5, Zenon DEF Cap
<1>11. Braced(name) = Append(<<OpenBrace>> \o name, CloseBrace)
  <2>1. PICK u \in Seq(Token) : u = <<OpenBrace>> \o name
    BY <1>2, ConcatProperties
  <2>2. Append(u, CloseBrace) = u \o <<CloseBrace>>
    BY SignsAre, AppendIsConcat
  <2> QED
    BY <2>1, <2>2 DEF Braced
<1> QED
  BY <1>1, <1>7, <1>9, <1>10, <1>11, Zenon DEF Text

-----------------------------------------------------------------------------
(* The names of a pattern, from what stands behind each opening brace. *)
NameOf(piece) == Split(piece, CloseBrace)[1]

NamesOf(pieces) == [k \in DOMAIN Tail(pieces) |-> NameOf(Tail(pieces)[k])]

LEMMA NamesAre == \A p : NamesIn(p) = NamesOf(Split(p, OpenBrace))
BY Zenon DEF NamesIn, NamesOf, NameOf

LEMMA NameIs ==
    ASSUME NEW w \in Text
    PROVE  /\ NameOf(w) \in Text
           /\ Lacks(w, CloseBrace) => NameOf(w) = w
           /\ \A head, rest \in Text : w = head \o <<CloseBrace>> \o rest /\ Lacks(head, CloseBrace) => NameOf(w) = head
<1>1. w \in Seq(Token)
  BY DEF Text
<1>2. Split(w, CloseBrace) \in Seq(Text) /\ Split(w, CloseBrace) # <<>>
  BY <1>1, SplitAppend DEF Pieces
<1>3. NameOf(w) \in Text
  BY <1>2, EmptySeq, LenProperties, ElementOfSeq DEF NameOf
<1>4. ASSUME Lacks(w, CloseBrace) PROVE NameOf(w) = w
  BY <1>4, SplitOne DEF NameOf
<1>5. ASSUME NEW head \in Text, NEW rest \in Text, w = head \o <<CloseBrace>> \o rest, Lacks(head, CloseBrace)
      PROVE  NameOf(w) = head
  <2>1. SplitsAt(w, head, rest, CloseBrace)
    BY <1>5, SignsAre, SplitJoin
  <2>2. Split(head, CloseBrace) = <<head>>
    BY <1>5, SplitOne
  <2>3. PICK r \in Seq(Text) : r = Split(rest, CloseBrace)
    BY SplitAppend DEF Text, Pieces
  <2>4. PICK one \in Seq(Text) : one = <<head>> /\ Len(one) = 1 /\ one[1] = head
    <3>1. <<head>> \in Seq(Text) /\ Len(<<head>>) = 1 /\ <<head>>[1] = head
      OBVIOUS
    <3> QED
      BY <3>1
  <2>5. Split(w, CloseBrace) = one \o r
    BY <2>1, <2>2, <2>3, <2>4 DEF SplitsAt
  <2>6. (one \o r)[1] = head
    BY <2>4, LenProperties, ConcatProperties
  <2> QED
    BY <2>5, <2>6 DEF NameOf
<1> QED
  BY <1>3, <1>4, <1>5

LEMMA NamesGrow ==
    ASSUME NEW front \in Seq(Text), NEW last \in Text
    PROVE  /\ front = <<>> => NamesOf(Append(front, last)) = <<>>
           /\ front # <<>> => /\ NamesOf(front) \in Seq(Text)
                              /\ NamesOf(Append(front, last)) = Append(NamesOf(front), NameOf(last))
<1>1. Tail(Append(front, last)) = IF front = <<>> THEN <<>> ELSE Append(Tail(front), last)
  BY HeadTailAppend
<1>2. ASSUME front = <<>> PROVE NamesOf(Append(front, last)) = <<>>
  BY <1>1, <1>2 DEF NamesOf
<1>3. ASSUME front # <<>>
      PROVE  NamesOf(front) \in Seq(Text) /\ NamesOf(Append(front, last)) = Append(NamesOf(front), NameOf(last))
  <2>1. PICK t \in Seq(Text) : t = Tail(front)
    BY <1>3, HeadTailProperties
  <2>2. PICK n \in Nat : n = Len(t) /\ DOMAIN t = 1..n
    BY LenProperties
  <2>3. PICK u : u = Append(t, last)
    OBVIOUS
  <2>4. DOMAIN u = 1..(n + 1) /\ u[n + 1] = last /\ \A i \in 1..n : u[i] = t[i]
    BY <2>2, <2>3, AppendProperties, LenProperties
  <2>5. PICK a, b : a = NamesOf(front) /\ b = NamesOf(Append(front, last))
    OBVIOUS
  <2>6. a = [k \in 1..n |-> NameOf(t[k])] /\ b = [k \in 1..(n + 1) |-> NameOf(u[k])]
    BY <1>1, <1>3, <2>1, <2>2, <2>3, <2>4, <2>5, Zenon DEF NamesOf
  <2>7. \A k \in 1..n : t[k] \in Text
    BY <2>2, ElementOfSeq
  <2>8. a \in [1..n -> Text]
    BY <2>6, <2>7, NameIs
  <2>9. a \in Seq(Text) /\ Len(a) = n
    BY <2>8, IsSeq
  <2>10. Grown(b, a, NameOf(last))
    BY <2>4, <2>6, <2>9 DEF Grown
  <2>11. b = Append(a, NameOf(last))
    BY <2>9, <2>10, NameIs, GrownBy
  <2> QED
    BY <2>5, <2>9, <2>11
<1> QED
  BY <1>2, <1>3

(* Where the scan stands among what is between the opening braces. *)
Behind(w, name) == Lacks(name, CloseBrace) /\ \E rest \in Text : w = name \o <<CloseBrace>> \o rest

NamedAt(s, nf, nq) ==
    /\ s.inParam => nf # <<>> /\ nq = s.name /\ Lacks(s.name, CloseBrace)
    /\ ~s.inParam => nf = <<>> \/ Behind(nq, s.name)

NamedBy(xs, s) == \E nf \in Seq(Text), nq \in Text : SplitsInto(xs, OpenBrace, nf, nq) /\ NamedAt(s, nf, nq)

(* What one more token does to the names. *)
NamesStep(xs, x, s) ==
    LET N == NamesIn(xs)
        M == NamesIn(Append(xs, x)) IN
    /\ N \in Seq(Text)
    /\ x = OpenBrace => M = Append(N, <<>>)
    /\ x # OpenBrace /\ (x = CloseBrace \/ ~s.inParam) => M = N
    /\ x # OpenBrace /\ x # CloseBrace /\ s.inParam =>
          \E B \in Seq(Text) : N = Append(B, s.name) /\ M = Append(B, Append(s.name, x))

LEMMA NamesAtEnd ==
    ASSUME NEW xs, NEW nf \in Seq(Text), NEW nq \in Text, SplitsInto(xs, OpenBrace, nf, nq)
    PROVE  /\ NamesIn(xs) = NamesOf(Append(nf, nq)) /\ NamesIn(xs) \in Seq(Text)
           /\ nf = <<>> => NamesIn(xs) = <<>>
           /\ nf # <<>> => NamesOf(nf) \in Seq(Text) /\ NamesIn(xs) = Append(NamesOf(nf), NameOf(nq))
<1>1. NamesIn(xs) = NamesOf(Append(nf, nq))
  BY NamesAre DEF SplitsInto
<1>2. Append(nf, nq) \in Seq(Text) /\ Append(nf, nq) # <<>>
  BY AppendProperties
<1>3. NamesOf(Append(nf, nq)) \in Seq(Text)
  BY <1>2, NameIs, NamesGrow
<1> QED
  BY <1>1, <1>3, NamesGrow

LEMMA BehindMore ==
    ASSUME NEW w \in Text, NEW name \in Text, Behind(w, name)
    PROVE  NameOf(w) = name /\ \A x \in Token : Behind(Append(w, x), name)
<1>1. PICK rest \in Text : w = name \o <<CloseBrace>> \o rest
  BY DEF Behind
<1>2. Lacks(name, CloseBrace)
  BY DEF Behind
<1>3. NameOf(w) = name
  BY <1>1, <1>2, NameIs
<1>4. ASSUME NEW x \in Token PROVE Behind(Append(w, x), name)
  <2>1. PICK u \in Seq(Token) : u = name \o <<CloseBrace>>
    <3>1. name \in Seq(Token) /\ <<CloseBrace>> \in Seq(Token)
      BY SignsAre DEF Text
    <3> QED
      BY <3>1, ConcatProperties
  <2>2. u \o Append(rest, x) = Append(u \o rest, x)
    BY AppendBehind DEF Text
  <2>3. Append(rest, x) \in Text
    BY AppendProperties DEF Text
  <2> QED
    BY <1>1, <1>2, <2>1, <2>2, <2>3 DEF Behind
<1> QED
  BY <1>3, <1>4

LEMMA NamedStep ==
    ASSUME NEW xs \in Seq(Token), NEW x \in Token, NEW s \in Scans, Scan(s, x).ok, NamedBy(xs, s)
    PROVE  NamedBy(Append(xs, x), Scan(s, x)) /\ NamesStep(xs, x, s)
<1>1. PICK nf \in Seq(Text), nq \in Text : SplitsInto(xs, OpenBrace, nf, nq) /\ NamedAt(s, nf, nq)
  BY Zenon DEF NamedBy
<1>2. PICK ys, r : ys = Append(xs, x) /\ r = Scan(s, x)
  OBVIOUS
<1>3. ys \in Seq(Token) /\ r \in Scans /\ r.ok /\ s.inParam \in BOOLEAN /\ s.name \in Text /\ <<>> \in Text
  BY <1>2, ScanStep, AppendProperties, TokensAre DEF Scans
<1>4. Split(ys, OpenBrace) = IF x = OpenBrace THEN Append(Append(nf, nq), <<>>) ELSE Append(nf, Append(nq, x))
  <2>1. Split(ys, OpenBrace) = Extend(Split(xs, OpenBrace), x, OpenBrace)
    BY <1>2, SplitAppend
  <2>2. Extend(Append(nf, nq), x, OpenBrace) =
            IF x = OpenBrace THEN Append(Append(nf, nq), <<>>) ELSE Append(nf, Append(nq, x))
    BY ExtendLast
  <2>3. Split(xs, OpenBrace) = Append(nf, nq)
    BY <1>1 DEF SplitsInto
  <2> QED
    BY <2>1, <2>2, <2>3
<1>5. Append(nf, nq) \in Seq(Text) /\ Append(nf, nq) # <<>> /\ Append(nq, x) \in Text /\ Append(s.name, x) \in Text
  BY <1>3, AppendProperties DEF Text
<1>6. PICK N, M : N = NamesIn(xs) /\ M = NamesIn(ys)
  OBVIOUS
<1>7. N = NamesOf(Append(nf, nq)) /\ N \in Seq(Text) /\ (nf = <<>> => N = <<>>)
      /\ (nf # <<>> => NamesOf(nf) \in Seq(Text) /\ N = Append(NamesOf(nf), NameOf(nq)))
  BY <1>1, <1>6, NamesAtEnd
<1>8. ASSUME x = OpenBrace
      PROVE  NamedBy(ys, r) /\ M = Append(N, <<>>)
  <2>1. SplitsInto(ys, OpenBrace, Append(nf, nq), <<>>)
    BY <1>4, <1>8 DEF SplitsInto
  <2>2. r.inParam /\ r.name = <<>>
    BY <1>2, <1>8, ScanStep
  <2>3. Lacks(<<>>, CloseBrace)
    BY DEF Lacks
  <2>4. NamedAt(r, Append(nf, nq), <<>>)
    BY <1>5, <2>2, <2>3, Zenon DEF NamedAt
  <2>5. M = Append(NamesOf(Append(nf, nq)), NameOf(<<>>))
    BY <1>3, <1>5, <1>6, <2>1, NamesAtEnd
  <2>6. NameOf(<<>>) = <<>>
    BY <1>3, <2>3, NameIs
  <2> QED
    BY <1>3, <1>5, <1>7, <2>1, <2>4, <2>5, <2>6 DEF NamedBy
<1>9. ASSUME x # OpenBrace
      PROVE  /\ SplitsInto(ys, OpenBrace, nf, Append(nq, x))
             /\ nf = <<>> => M = <<>>
             /\ nf # <<>> => M = Append(NamesOf(nf), NameOf(Append(nq, x)))
  BY <1>4, <1>5, <1>6, <1>9, NamesAtEnd DEF SplitsInto
<1>10. ASSUME x = CloseBrace
       PROVE  NamedBy(ys, r) /\ M = N
  <2>1. s.inParam /\ ~r.inParam /\ r.name = s.name
    BY <1>2, <1>3, <1>10, ScanStep
  <2>2. nf # <<>> /\ nq = s.name /\ Lacks(s.name, CloseBrace)
    BY <1>1, <2>1 DEF NamedAt
  <2>3. Append(nq, x) = s.name \o <<CloseBrace>> \o <<>>
    <3>1. PICK u \in Seq(Token) : u = Append(nq, x)
      BY <1>5 DEF Text
    <3>2. u = s.name \o <<CloseBrace>>
      BY <1>10, <2>2, <3>1, AppendIsConcat DEF Text
    <3>3. u \o <<>> = u
      BY ConcatEmptySeq
    <3> QED
      BY <3>1, <3>2, <3>3
  <2>4. Behind(Append(nq, x), s.name)
    BY <1>3, <2>2, <2>3, Zenon DEF Behind
  <2>5. NameOf(Append(nq, x)) = s.name
    BY <1>3, <1>5, <2>4, BehindMore
  <2>6. NameOf(nq) = s.name
    BY <2>2, NameIs
  <2>7. x # OpenBrace
    BY <1>10, SignsAre
  <2>8. NamedAt(r, nf, Append(nq, x))
    BY <2>1, <2>4, Zenon DEF NamedAt
  <2>9. NamedBy(ys, r)
    BY <1>5, <1>9, <2>7, <2>8, Zenon DEF NamedBy
  <2> QED
    BY <1>7, <1>9, <2>2, <2>5, <2>6, <2>7, <2>9
<1>11. ASSUME x # OpenBrace, x # CloseBrace, s.inParam
       PROVE  NamedBy(ys, r) /\ \E B \in Seq(Text) : N = Append(B, s.name) /\ M = Append(B, Append(s.name, x))
  <2>1. r.inParam /\ r.name = Append(s.name, x)
    BY <1>2, <1>11, ScanStep
  <2>2. nf # <<>> /\ nq = s.name /\ Lacks(s.name, CloseBrace)
    BY <1>1, <1>11 DEF NamedAt
  <2>3. Lacks(Append(s.name, x), CloseBrace)
    BY <1>3, <1>11, <2>2, LacksAppend DEF Text
  <2>4. NamedAt(r, nf, Append(nq, x))
    BY <2>1, <2>2, <2>3, Zenon DEF NamedAt
  <2>5. NamedBy(ys, r)
    BY <1>5, <1>9, <1>11, <2>4, Zenon DEF NamedBy
  <2>6. NameOf(nq) = s.name /\ NameOf(Append(nq, x)) = Append(s.name, x)
    BY <1>5, <2>2, <2>3, NameIs
  <2> QED
    BY <1>7, <1>9, <1>11, <2>2, <2>5, <2>6
<1>12. ASSUME x # OpenBrace, x # CloseBrace, ~s.inParam
       PROVE  NamedBy(ys, r) /\ M = N
  <2>1. ~r.inParam /\ r.name = s.name
    BY <1>2, <1>3, <1>12, ScanStep
  <2>2. nf = <<>> \/ Behind(nq, s.name)
    BY <1>1, <1>12 DEF NamedAt
  <2>3. Behind(nq, s.name) => /\ Behind(Append(nq, x), s.name) /\ NameOf(nq) = s.name
                              /\ NameOf(Append(nq, x)) = s.name
    BY <1>3, <1>5, BehindMore
  <2>4. NamedAt(r, nf, Append(nq, x))
    BY <2>1, <2>2, <2>3, Zenon DEF NamedAt
  <2>5. NamedBy(ys, r)
    BY <1>5, <1>9, <1>12, <2>4, Zenon DEF NamedBy
  <2> QED
    BY <1>7, <1>9, <1>12, <2>2, <2>3, <2>5
<1>13. NamedBy(ys, r)
  BY <1>3, <1>8, <1>10, <1>11, <1>12
<1>14. NamesStep(xs, x, s)
  BY <1>2, <1>3, <1>6, <1>7, <1>8, <1>10, <1>11, <1>12, Zenon DEF NamesStep
<1> QED
  BY <1>2, <1>13, <1>14

(* How the names of a pattern compare with what the router captures: as long as every         *)
(* parameter is a segment by itself they are the same, the one that is being read apart; from *)
(* the first that is not, the names are ahead.                                                *)
Started(q) == IF Opens(q) THEN 1 ELSE 0

Fits(s, F, q, N, w) ==
    /\ w => \/ s.inParam /\ q = <<OpenBrace>> \o s.name /\ N = Append(F, s.name)
            \/ ~s.inParam /\ Braceless(q) /\ N = F
            \/ ~s.inParam /\ q = Braced(s.name) /\ N = Append(F, s.name)
    /\ ~w /\ s.inParam => Len(F) + Started(q) < Len(N)
    /\ ~w /\ ~s.inParam => Len(F) + Len(Cap(q)) < Len(N)

LastIs(q, token) == q # <<>> /\ q[Len(q)] = token

LEMMA EndsAppend ==
    ASSUME NEW q \in Seq(Token), NEW x \in Token
    PROVE  /\ \A token : (LastIs(Append(q, x), token) <=> x = token) /\ ~LastIs(<<>>, token)
           /\ Append(q, x) # <<>> /\ Append(q, x) \in Text
           /\ Opens(Append(q, x)) <=> Opens(q) \/ (q = <<>> /\ x = OpenBrace)
<1>1. PICK p, n : p = Append(q, x) /\ n = Len(q)
  OBVIOUS
<1>2. /\ p \in Seq(Token) /\ p # <<>> /\ n \in Nat /\ Len(p) = n + 1 /\ p[n + 1] = x
      /\ \A i \in 1..n : p[i] = q[i]
  BY <1>1, AppendProperties, LenProperties
<1>3. \A token : LastIs(p, token) <=> x = token
  BY <1>2 DEF LastIs
<1>4. Opens(p) <=> Opens(q) \/ (q = <<>> /\ x = OpenBrace)
  <2>1. CASE q = <<>>
    BY <1>1, <1>2, <2>1, EmptySeq DEF Opens
  <2>2. CASE q # <<>>
    BY <1>1, <1>2, <2>2, EmptySeq DEF Opens
  <2> QED
    BY <2>1, <2>2
<1>5. \A token : ~LastIs(<<>>, token)
  BY DEF LastIs
<1> QED
  BY <1>1, <1>2, <1>3, <1>4, <1>5 DEF Text

LEMMA LeadSize ==
    ASSUME NEW q \in Text
    PROVE  /\ Started(q) \in {0, 1} /\ Len(Cap(q)) \in {0, 1} /\ Len(Cap(q)) <= Started(q)
           /\ ~LastIs(q, CloseBrace) => Cap(q) = <<>> /\ Len(Cap(q)) = 0
           /\ Braceless(q) => Cap(q) = <<>> /\ Started(q) = 0 /\ ~LastIs(q, CloseBrace)
           /\ \A x \in Token : x # OpenBrace => Started(Append(q, x)) <= Started(q)
<1>1. q \in Seq(Token) /\ Len(q) \in Nat
  BY LenProperties DEF Text
<1>2. Cap(q) = <<>> \/ (Len(Cap(q)) = 1 /\ Opens(q) /\ LastIs(q, CloseBrace))
  BY CapSize DEF LastIs, Opens
<1>3. Len(<<>>) = 0
  BY EmptySeq
<1>4. ASSUME Braceless(q) PROVE ~Opens(q) /\ ~LastIs(q, CloseBrace)
  BY <1>1, <1>4, EmptySeq DEF Braceless, Lacks, Opens, LastIs
<1>5. \A x \in Token : x # OpenBrace => (Opens(Append(q, x)) <=> Opens(q))
  BY <1>1, EndsAppend
<1>6. (Opens(q) => Started(q) = 1) /\ (~Opens(q) => Started(q) = 0)
  BY DEF Started
<1>7. ASSUME NEW x \in Token, x # OpenBrace PROVE Started(Append(q, x)) <= Started(q)
  BY <1>5, <1>7 DEF Started
<1>8. Started(q) \in {0, 1} /\ Len(Cap(q)) \in {0, 1} /\ Len(Cap(q)) <= Started(q)
  <2>1. CASE Cap(q) = <<>>
    BY <1>3, <2>1 DEF Started
  <2>2. CASE Len(Cap(q)) = 1 /\ Opens(q)
    BY <1>6, <2>2
  <2> QED
    BY <1>2, <2>1, <2>2
<1> QED
  BY <1>2, <1>3, <1>4, <1>6, <1>7, <1>8

LEMMA FitsSlash ==
    ASSUME NEW s \in Scans, NEW r \in Scans, ~s.inParam, ~r.inParam,
           NEW F \in Seq(Text), NEW q \in Text, NEW N \in Seq(Text), NEW w, NEW v, v <=> w, Fits(s, F, q, N, w)
    PROVE  Fits(r, F \o Cap(q), <<>>, N, v)
<1>1. Len(F) \in Nat /\ Len(N) \in Nat /\ <<>> \in Text /\ Cap(q) \in Seq(Text) /\ s.name \in Text
  BY LenProperties, TokensAre, CaughtAppend, EmptySeq DEF Scans
<1>2. Braceless(<<>>) /\ Len(Cap(<<>>)) = 0
  BY CapSize DEF Braceless, Lacks
<1>3. ASSUME w PROVE N = F \o Cap(q)
  <2>1. CASE Braceless(q) /\ N = F
    BY <2>1, LeadSize, ConcatEmptySeq
  <2>2. CASE q = Braced(s.name) /\ N = Append(F, s.name)
    <3>1. Cap(q) = <<s.name>>
      BY <1>1, <2>2, CapBraced
    <3> QED
      BY <1>1, <2>2, <3>1, AppendIsConcat
  <2> QED
    BY <1>3, <2>1, <2>2 DEF Fits
<1>4. ASSUME ~w PROVE Len(F \o Cap(q)) + Len(Cap(<<>>)) < Len(N)
  BY <1>1, <1>2, <1>4, ConcatProperties, LenProperties DEF Fits
<1> QED
  BY <1>2, <1>3, <1>4, Zenon DEF Fits

LEMMA FitsOpen ==
    ASSUME NEW s \in Scans, NEW r \in Scans, ~s.inParam, r.inParam, r.name = <<>>,
           NEW F \in Seq(Text), NEW q \in Text, NEW N \in Seq(Text), NEW w, NEW v, v <=> w /\ q = <<>>,
           Fits(s, F, q, N, w)
    PROVE  Fits(r, F, Append(q, OpenBrace), Append(N, <<>>), v)
<1>1. Len(F) \in Nat /\ Len(N) \in Nat /\ <<>> \in Text /\ s.name \in Text /\ q \in Seq(Token)
  BY LenProperties, TokensAre DEF Scans, Text
<1>2. Append(q, OpenBrace) \in Text /\ Len(Append(N, <<>>)) = Len(N) + 1
  BY <1>1, SignsAre, EndsAppend, AppendProperties
<1>3. ASSUME v PROVE Append(q, OpenBrace) = <<OpenBrace>> \o r.name /\ Append(N, <<>>) = Append(F, r.name)
  <2>1. q = <<>> /\ w
    BY <1>3
  <2>2. ~(q = Braced(s.name))
    <3>1. Braced(s.name) = Append(<<OpenBrace>> \o s.name, CloseBrace)
      BY <1>1, CapBraced
    <3>2. <<OpenBrace>> \o s.name \in Seq(Token)
      BY <1>1, SignsAre, ConcatProperties DEF Text
    <3> QED
      BY <2>1, <3>1, <3>2, SignsAre, AppendProperties
  <2>3. N = F
    BY <2>1, <2>2 DEF Fits
  <2>4. Append(<<>>, OpenBrace) = <<OpenBrace>> /\ <<OpenBrace>> \o <<>> = <<OpenBrace>>
    BY SignsAre, ConcatEmptySeq, OneMark
  <2> QED
    BY <2>1, <2>3, <2>4
<1>4. ASSUME ~v PROVE Len(F) + Started(Append(q, OpenBrace)) < Len(Append(N, <<>>))
  <2>1. PICK lead \in {0, 1} : lead = Started(Append(q, OpenBrace))
    BY <1>2, LeadSize
  <2>2. CASE ~w
    BY <1>1, <1>2, <2>1, <2>2, LeadSize DEF Fits
  <2>3. CASE w /\ Braceless(q) /\ N = F
    <3>1. q # <<>>
      BY <1>4, <2>3
    <3>2. ~Opens(q)
      BY <2>3, LeadSize DEF Started
    <3>3. ~Opens(Append(q, OpenBrace))
      BY <1>1, <3>1, <3>2, SignsAre, EndsAppend
    <3>4. lead = 0
      BY <2>1, <3>3 DEF Started
    <3> QED
      BY <1>1, <1>2, <2>1, <2>3, <3>4
  <2>4. CASE w /\ N = Append(F, s.name)
    BY <1>1, <1>2, <2>1, <2>4, AppendProperties
  <2> QED
    BY <2>2, <2>3, <2>4 DEF Fits
<1> QED
  BY <1>3, <1>4, Zenon DEF Fits

LEMMA FitsClose ==
    ASSUME NEW s \in Scans, NEW r \in Scans, s.inParam, ~r.inParam, r.name = s.name,
           NEW F \in Seq(Text), NEW q \in Text, NEW N \in Seq(Text), NEW w, NEW v, v <=> w, Fits(s, F, q, N, w)
    PROVE  Fits(r, F, Append(q, CloseBrace), N, v)
<1>1. Len(F) \in Nat /\ Len(N) \in Nat /\ s.name \in Text /\ q \in Seq(Token)
  BY LenProperties DEF Scans, Text
<1>2. Append(q, CloseBrace) \in Text
  BY <1>1, SignsAre, EndsAppend
<1>3. ASSUME w PROVE Append(q, CloseBrace) = Braced(r.name) /\ N = Append(F, r.name)
  BY <1>1, <1>3, CapBraced DEF Fits
<1>4. ASSUME ~w PROVE Len(F) + Len(Cap(Append(q, CloseBrace))) < Len(N)
  <2>1. PICK lead, more, cap \in {0, 1} : /\ lead = Started(q) /\ more = Started(Append(q, CloseBrace))
                                          /\ cap = Len(Cap(Append(q, CloseBrace)))
    BY <1>2, LeadSize
  <2>2. cap <= more /\ more <= lead
    BY <1>2, <2>1, SignsAre, LeadSize
  <2>3. Len(F) + lead < Len(N)
    BY <1>4, <2>1 DEF Fits
  <2> QED
    BY <1>1, <2>1, <2>2, <2>3
<1> QED
  BY <1>3, <1>4, Zenon DEF Fits

LEMMA FitsInside ==
    ASSUME NEW s \in Scans, NEW r \in Scans, NEW x \in Token, x # OpenBrace,
           s.inParam, r.inParam, r.name = Append(s.name, x),
           NEW F \in Seq(Text), NEW q \in Text, NEW N \in Seq(Text), NEW M, NEW B \in Seq(Text),
           N = Append(B, s.name), M = Append(B, Append(s.name, x)),
           NEW w, NEW v, v <=> w, Fits(s, F, q, N, w)
    PROVE  Fits(r, F, Append(q, x), M, v)
<1>1. /\ Len(F) \in Nat /\ Len(N) \in Nat /\ s.name \in Text /\ s.name \in Seq(Token) /\ q \in Seq(Token)
      /\ Append(s.name, x) \in Text
  BY LenProperties, EndsAppend DEF Scans, Text
<1>2. Len(M) = Len(N)
  BY <1>1, AppendProperties
<1>3. ASSUME w PROVE Append(q, x) = <<OpenBrace>> \o r.name /\ M = Append(F, r.name)
  <2>1. q = <<OpenBrace>> \o s.name /\ N = Append(F, s.name)
    BY <1>3 DEF Fits
  <2>2. F = B
    <3>1. PICK name \in Text : name = s.name
      BY <1>1
    <3>2. Append(F, name) = Append(B, name)
      BY <2>1, <3>1
    <3>3. Append(F, name) = Append(B, name) <=> F = B /\ name = name
      BY AppendInjective
    <3> QED
      BY <3>2, <3>3
  <2>3. <<OpenBrace>> \o Append(s.name, x) = Append(<<OpenBrace>> \o s.name, x)
    BY <1>1, SignsAre, OneMark, AppendBehind
  <2> QED
    BY <2>1, <2>2, <2>3
<1>4. ASSUME ~w PROVE Len(F) + Started(Append(q, x)) < Len(M)
  <2>1. PICK lead, more \in {0, 1} : lead = Started(q) /\ more = Started(Append(q, x))
    BY <1>1, EndsAppend, LeadSize
  <2>2. more <= lead
    BY <2>1, LeadSize
  <2>3. Len(F) + lead < Len(N)
    BY <1>4, <2>1 DEF Fits
  <2> QED
    BY <1>1, <1>2, <2>1, <2>2, <2>3
<1> QED
  BY <1>3, <1>4, Zenon DEF Fits

LEMMA FitsOutside ==
    ASSUME NEW s \in Scans, NEW r \in Scans, NEW x \in Token, x # OpenBrace, x # CloseBrace,
           ~s.inParam, ~r.inParam,
           NEW F \in Seq(Text), NEW q \in Text, NEW N \in Seq(Text),
           NEW w, NEW v, v <=> w /\ ~LastIs(q, CloseBrace), Fits(s, F, q, N, w)
    PROVE  Fits(r, F, Append(q, x), N, v)
<1>1. Len(F) \in Nat /\ Len(N) \in Nat /\ s.name \in Text /\ q \in Seq(Token) /\ Append(q, x) \in Text
  BY LenProperties, EndsAppend DEF Scans, Text
<1>2. LastIs(Braced(s.name), CloseBrace)
  <2>1. Braced(s.name) = Append(<<OpenBrace>> \o s.name, CloseBrace)
    BY <1>1, CapBraced
  <2>2. <<OpenBrace>> \o s.name \in Seq(Token)
    BY <1>1, SignsAre, ConcatProperties DEF Text
  <2> QED
    BY <2>1, <2>2, SignsAre, EndsAppend
<1>3. ASSUME v PROVE Braceless(Append(q, x)) /\ N = F
  BY <1>1, <1>2, <1>3, LacksAppend DEF Fits, Braceless
<1>4. ASSUME ~v PROVE Len(F) + Len(Cap(Append(q, x))) < Len(N)
  <2>1. Len(Cap(Append(q, x))) = 0
    BY <1>1, EndsAppend, LeadSize
  <2>2. CASE ~w
    BY <1>1, <2>1, <2>2, LeadSize DEF Fits
  <2>3. CASE w
    BY <1>1, <1>4, <2>1, <2>3, LeadSize, AppendProperties DEF Fits
  <2> QED
    BY <2>2, <2>3
<1> QED
  BY <1>3, <1>4, Zenon DEF Fits

-----------------------------------------------------------------------------
(* Whether every parameter is a segment by itself, token by token. *)
LEMMA WholeAppend ==
    ASSUME NEW xs \in Seq(Token), NEW x \in Token
    PROVE  /\ Whole(<<>>)
           /\ Whole(Append(xs, x)) <=> /\ Whole(xs)
                                       /\ x = OpenBrace => LastIs(xs, Slash)
                                       /\ LastIs(xs, CloseBrace) => x = Slash
<1>1. PICK ys, n : ys = Append(xs, x) /\ n = Len(xs)
  OBVIOUS
<1>2. /\ ys \in Seq(Token) /\ n \in Nat /\ Len(ys) = n + 1 /\ ys[n + 1] = x
      /\ DOMAIN xs = 1..n /\ DOMAIN ys = 1..(n + 1)
      /\ \A i \in 1..n : ys[i] = xs[i]
  BY <1>1, AppendProperties, LenProperties
<1>3. \A token : LastIs(xs, token) <=> n >= 1 /\ xs[n] = token
  BY <1>1, <1>2, EmptySeq DEF LastIs
<1>4. ASSUME Whole(ys)
      PROVE  Whole(xs) /\ (x = OpenBrace => LastIs(xs, Slash)) /\ (LastIs(xs, CloseBrace) => x = Slash)
  <2>1. \A i \in 1..(n + 1) : /\ ys[i] = OpenBrace => i > 1 /\ ys[i - 1] = Slash
                              /\ ys[i] = CloseBrace => i = n + 1 \/ ys[i + 1] = Slash
    BY <1>2, <1>4, Zenon DEF Whole
  <2>2. ASSUME NEW i \in 1..n
        PROVE  /\ xs[i] = OpenBrace => i > 1 /\ xs[i - 1] = Slash
               /\ xs[i] = CloseBrace => i = n \/ xs[i + 1] = Slash
    BY <1>2, <2>1
  <2>3. Whole(xs)
    BY <1>1, <1>2, <2>2, Zenon DEF Whole
  <2>4. ASSUME x = OpenBrace PROVE LastIs(xs, Slash)
    BY <1>2, <1>3, <2>1, <2>4
  <2>5. ASSUME LastIs(xs, CloseBrace) PROVE x = Slash
    BY <1>2, <1>3, <2>1, <2>5
  <2> QED
    BY <2>3, <2>4, <2>5
<1>5. ASSUME Whole(xs), x = OpenBrace => LastIs(xs, Slash), LastIs(xs, CloseBrace) => x = Slash
      PROVE  Whole(ys)
  <2>1. \A i \in 1..n : /\ xs[i] = OpenBrace => i > 1 /\ xs[i - 1] = Slash
                        /\ xs[i] = CloseBrace => i = n \/ xs[i + 1] = Slash
    BY <1>1, <1>2, <1>5, Zenon DEF Whole
  <2>2. ASSUME NEW i \in 1..(n + 1)
        PROVE  /\ ys[i] = OpenBrace => i > 1 /\ ys[i - 1] = Slash
               /\ ys[i] = CloseBrace => i = n + 1 \/ ys[i + 1] = Slash
    <3>1. CASE i = n + 1
      BY <1>2, <1>3, <1>5, <3>1
    <3>2. CASE i \in 1..n /\ i # n
      BY <1>2, <2>1, <3>2
    <3>3. CASE i = n /\ n >= 1
      BY <1>2, <1>3, <1>5, <2>1, <3>3
    <3> QED
      BY <1>2, <3>1, <3>2, <3>3
  <2> QED
    BY <1>2, <2>2, Zenon DEF Whole
<1>6. Whole(<<>>)
  BY DEF Whole
<1> QED
  BY <1>1, <1>4, <1>5, <1>6

(* A scan that is right so far, and that no slash has made wrong already. *)
Calm(s) == s.ok /\ (s.inParam => Lacks(s.name, Slash))

LEMMA CalmBefore ==
    ASSUME NEW s \in Scans, NEW x \in Token, Calm(Scan(s, x))
    PROVE  /\ Calm(s) /\ Scan(s, x).ok /\ (x = Slash => ~s.inParam)
           /\ (x = OpenBrace => ~s.inParam) /\ (x = CloseBrace => s.inParam)
<1>1. s.ok \in BOOLEAN /\ s.inParam \in BOOLEAN /\ s.name \in Text /\ s.name \in Seq(Token)
  BY DEF Scans, Text
<1>2. PICK r : r = Scan(s, x) /\ r.ok /\ (r.inParam => Lacks(r.name, Slash))
  BY DEF Calm
<1>3. CASE x = OpenBrace
  BY <1>1, <1>2, <1>3, ScanStep, SignsAre DEF Calm
<1>4. CASE x = CloseBrace
  BY <1>1, <1>2, <1>4, ScanStep, ValidNames, SignsAre DEF Calm
<1>5. CASE x # OpenBrace /\ x # CloseBrace
  BY <1>1, <1>2, <1>5, ScanStep, LacksAppend DEF Calm
<1> QED
  BY <1>3, <1>4, <1>5

LEMMA SplitsMore ==
    ASSUME NEW separator, NEW xs \in Seq(Token), NEW x \in Token, NEW front \in Seq(Text), NEW q \in Text,
           SplitsInto(xs, separator, front, q)
    PROVE  /\ x = separator => SplitsInto(Append(xs, x), separator, Append(front, q), <<>>)
           /\ x # separator => SplitsInto(Append(xs, x), separator, front, Append(q, x))
<1>1. Split(Append(xs, x), separator) = Extend(Split(xs, separator), x, separator)
  BY SplitAppend
<1>2. Extend(Append(front, q), x, separator) =
          IF x = separator THEN Append(Append(front, q), <<>>) ELSE Append(front, Append(q, x))
  BY ExtendLast
<1>3. Split(xs, separator) = Append(front, q)
  BY DEF SplitsInto
<1> QED
  BY <1>1, <1>2, <1>3 DEF SplitsInto

(* The last piece, and the end of the text. *)
LastPiece(xs, q) ==
    /\ q = <<>> <=> xs = <<>> \/ LastIs(xs, Slash)
    /\ q # <<>> => \A token : LastIs(xs, token) <=> LastIs(q, token)

ReadTo(xs, s, front, q) ==
    /\ SplitsInto(xs, Slash, front, q) /\ LastPiece(xs, q)
    /\ Fits(s, Caught(front), q, NamesIn(xs), Whole(xs))

LEMMA LastPieceMore ==
    ASSUME NEW xs \in Seq(Token), NEW x \in Token, NEW q \in Text
    PROVE  /\ x = Slash => LastPiece(Append(xs, x), <<>>)
           /\ x # Slash => LastPiece(Append(xs, x), Append(q, x))
<1>1. Append(xs, x) # <<>> /\ Append(q, x) # <<>> /\ q \in Seq(Token)
  BY AppendProperties DEF Text
<1>2. \A token : (LastIs(Append(xs, x), token) <=> x = token) /\ (LastIs(Append(q, x), token) <=> x = token)
  BY <1>1, EndsAppend
<1> QED
  BY <1>1, <1>2, Zenon DEF LastPiece

LEMMA ReadSlash ==
    ASSUME NEW xs \in Seq(Token), NEW s \in Scans, NEW front \in Seq(Text), NEW q \in Text,
           ReadTo(xs, s, front, q), NamedBy(xs, s), Calm(Scan(s, Slash))
    PROVE  ReadTo(Append(xs, Slash), Scan(s, Slash), Append(front, q), <<>>)
<1>1. PICK ys, r : ys = Append(xs, Slash) /\ r = Scan(s, Slash)
  OBVIOUS
<1>2. r \in Scans /\ r.ok /\ ~s.inParam /\ ~r.inParam
  BY <1>1, CalmBefore, ScanStep, SignsAre
<1>3. SplitsInto(ys, Slash, Append(front, q), <<>>) /\ LastPiece(ys, <<>>)
  BY <1>1, SignsAre, SplitsMore, LastPieceMore DEF ReadTo
<1>4. NamesIn(xs) \in Seq(Text) /\ NamesIn(ys) = NamesIn(xs)
  BY <1>1, <1>2, SignsAre, NamedStep DEF NamesStep
<1>5. Whole(ys) <=> Whole(xs)
  BY <1>1, SignsAre, WholeAppend
<1>6. Caught(front) \in Seq(Text) /\ Caught(Append(front, q)) = Caught(front) \o Cap(q)
  BY CaughtAppend
<1>7. Fits(s, Caught(front), q, NamesIn(xs), Whole(xs))
  BY DEF ReadTo
<1>8. Fits(r, Caught(front) \o Cap(q), <<>>, NamesIn(xs), Whole(ys))
  BY <1>2, <1>4, <1>5, <1>6, <1>7, FitsSlash
<1> QED
  BY <1>1, <1>3, <1>4, <1>6, <1>8 DEF ReadTo

LEMMA NotClosed ==
    ASSUME NEW name \in Text, Lacks(name, CloseBrace)
    PROVE  ~LastIs(<<OpenBrace>> \o name, CloseBrace)
<1>1. name \in Seq(Token) /\ <<OpenBrace>> \in Seq(Token) /\ Len(<<OpenBrace>>) = 1 /\ <<OpenBrace>>[1] = OpenBrace
  BY SignsAre DEF Text
<1>2. PICK a \in Seq(Token) : a = <<OpenBrace>> /\ Len(a) = 1 /\ a[1] = OpenBrace
  BY <1>1
<1>3. PICK q, n : q = <<OpenBrace>> \o name /\ n = Len(name)
  OBVIOUS
<1>4. /\ Len(q) = 1 + n /\ n \in Nat
      /\ \A i \in 1..(1 + n) : q[i] = IF i <= 1 THEN a[i] ELSE name[i - 1]
  BY <1>1, <1>2, <1>3, ConcatProperties, LenProperties
<1>5. CASE n = 0
  BY <1>2, <1>3, <1>4, <1>5, SignsAre DEF LastIs
<1>6. CASE n # 0
  BY <1>3, <1>4, <1>6 DEF LastIs, Lacks
<1> QED
  BY <1>5, <1>6

LEMMA ReadOther ==
    ASSUME NEW xs \in Seq(Token), NEW x \in Token, x # Slash, xs # <<>>,
           NEW s \in Scans, NEW front \in Seq(Text), NEW q \in Text,
           ReadTo(xs, s, front, q), NamedBy(xs, s), Calm(Scan(s, x))
    PROVE  ReadTo(Append(xs, x), Scan(s, x), front, Append(q, x))
<1>1. PICK ys, r : ys = Append(xs, x) /\ r = Scan(s, x)
  OBVIOUS
<1>2. /\ r \in Scans /\ r.ok /\ Append(q, x) \in Text /\ s.inParam \in BOOLEAN /\ s.name \in Text
      /\ Append(s.name, x) \in Text
      /\ (x = OpenBrace => ~s.inParam) /\ (x = CloseBrace => s.inParam)
  BY <1>1, CalmBefore, ScanStep, AppendProperties DEF Scans, Text
<1>3. SplitsInto(ys, Slash, front, Append(q, x)) /\ LastPiece(ys, Append(q, x))
  BY <1>1, SplitsMore, LastPieceMore DEF ReadTo
<1>4. PICK N, M : N = NamesIn(xs) /\ M = NamesIn(ys)
  OBVIOUS
<1>5. /\ N \in Seq(Text)
      /\ x = OpenBrace => M = Append(N, <<>>)
      /\ x # OpenBrace /\ (x = CloseBrace \/ ~s.inParam) => M = N
      /\ x # OpenBrace /\ x # CloseBrace /\ s.inParam =>
            \E B \in Seq(Text) : N = Append(B, s.name) /\ M = Append(B, Append(s.name, x))
  BY <1>1, <1>2, <1>4, NamedStep DEF NamesStep
<1>6. PICK w, v : w = Whole(xs) /\ v = Whole(ys)
  OBVIOUS
<1>7. v <=> w /\ (x = OpenBrace => LastIs(xs, Slash)) /\ ~LastIs(xs, CloseBrace)
  BY <1>1, <1>6, WholeAppend
<1>8. PICK F \in Seq(Text) : F = Caught(front)
  BY CaughtAppend
<1>9. Fits(s, F, q, N, w)
  BY <1>4, <1>6, <1>8 DEF ReadTo
<1>10. /\ q = <<>> <=> LastIs(xs, Slash)
       /\ q # <<>> => \A token : LastIs(xs, token) <=> LastIs(q, token)
  BY DEF ReadTo, LastPiece
<1>11. /\ LastIs(xs, Slash) => ~LastIs(xs, CloseBrace)
       /\ LastIs(xs, CloseBrace) <=> LastIs(q, CloseBrace)
  BY <1>10, SignsAre DEF LastIs
<1>12. CASE x = OpenBrace
  <2>1. ~s.inParam /\ r.inParam /\ r.name = <<>>
    BY <1>1, <1>2, <1>12, ScanStep
  <2>2. v <=> w /\ q = <<>>
    BY <1>7, <1>10, <1>11, <1>12
  <2>3. Fits(r, F, Append(q, OpenBrace), Append(N, <<>>), v)
    BY <1>2, <1>5, <1>9, <2>1, <2>2, FitsOpen
  <2>4. M = Append(N, <<>>)
    BY <1>5, <1>12
  <2>5. Fits(r, Caught(front), Append(q, x), M, v)
    BY <1>8, <1>12, <2>3, <2>4, Zenon
  <2> QED
    BY <1>1, <1>3, <1>4, <1>6, <2>5, Zenon DEF ReadTo
<1>13. CASE x = CloseBrace
  <2>1. s.inParam /\ ~r.inParam /\ r.name = s.name
    BY <1>1, <1>2, <1>13, ScanStep
  <2>2. x # OpenBrace /\ M = N
    BY <1>5, <1>13, SignsAre
  <2>3. ASSUME w PROVE ~LastIs(q, CloseBrace)
    <3>1. q = <<OpenBrace>> \o s.name
      BY <1>9, <2>1, <2>3 DEF Fits
    <3>2. Lacks(s.name, CloseBrace)
      BY <1>1, <1>2, <1>13, ScanStep, ValidNames
    <3> QED
      BY <1>2, <3>1, <3>2, NotClosed
  <2>4. v <=> w
    BY <1>7, <1>11, <2>2, <2>3
  <2> QED
    BY <1>1, <1>2, <1>3, <1>4, <1>5, <1>6, <1>8, <1>9, <1>13, <2>1, <2>2, <2>4, FitsClose DEF ReadTo
<1>14. CASE x # OpenBrace /\ x # CloseBrace /\ s.inParam
  <2>1. r.inParam /\ r.name = Append(s.name, x)
    BY <1>1, <1>14, ScanStep
  <2>2. PICK B \in Seq(Text) : N = Append(B, s.name) /\ M = Append(B, Append(s.name, x))
    BY <1>5, <1>14
  <2>3. ASSUME w PROVE ~LastIs(q, CloseBrace)
    <3>1. PICK nf \in Seq(Text), nq \in Text : SplitsInto(xs, OpenBrace, nf, nq) /\ NamedAt(s, nf, nq)
      BY Zenon DEF NamedBy
    <3>2. Lacks(s.name, CloseBrace)
      BY <1>14, <3>1 DEF NamedAt
    <3>3. q = <<OpenBrace>> \o s.name
      BY <1>9, <1>14, <2>3 DEF Fits
    <3> QED
      BY <1>2, <3>2, <3>3, NotClosed
  <2>4. v <=> w
    BY <1>7, <1>11, <1>14, <2>3
  <2> QED
    BY <1>1, <1>2, <1>3, <1>4, <1>5, <1>6, <1>8, <1>9, <1>14, <2>1, <2>2, <2>4, FitsInside DEF ReadTo
<1>15. CASE x # OpenBrace /\ x # CloseBrace /\ ~s.inParam
  <2>1. ~r.inParam
    BY <1>1, <1>15, ScanStep
  <2>2. M = N
    BY <1>5, <1>15
  <2>3. v <=> w /\ ~LastIs(q, CloseBrace)
    BY <1>7, <1>11, <1>15
  <2> QED
    BY <1>1, <1>2, <1>3, <1>4, <1>5, <1>6, <1>8, <1>9, <1>15, <2>1, <2>2, <2>3, FitsOutside DEF ReadTo
<1> QED
  BY <1>2, <1>12, <1>13, <1>14, <1>15

ReadSoFar(xs) ==
    Calm(Scanned(xs)) /\ (xs = <<>> \/ xs[1] = Slash) =>
        /\ NamedBy(xs, Scanned(xs))
        /\ \E front \in Seq(Text), q \in Text : ReadTo(xs, Scanned(xs), front, q)

LEMMA NothingRead == ReadSoFar(<<>>)
<1>1. <<>> \in Seq(Text) /\ <<>> \in Text /\ <<>> \in Seq(Token)
  BY TokensAre, EmptySeq
<1>2. \A separator : SplitsInto(<<>>, separator, <<>>, <<>>)
  BY SplitAppend, OnePiece DEF SplitsInto
<1>3. Scanned(<<>>) = Outside /\ ~Outside.inParam
  BY ScanAppend DEF Outside
<1>4. NamedAt(Outside, <<>>, <<>>)
  BY <1>3 DEF NamedAt
<1>5. NamedBy(<<>>, Outside)
  BY <1>1, <1>2, <1>4 DEF NamedBy
<1>6. NamesIn(<<>>) = <<>>
  BY <1>1, <1>2, NamesAtEnd
<1>7. Whole(<<>>) /\ Caught(<<>>) = <<>>
  BY <1>1, SignsAre, WholeAppend, CaughtAppend
<1>8. Braceless(<<>>)
  BY DEF Braceless, Lacks
<1>9. Fits(Outside, <<>>, <<>>, <<>>, TRUE)
  BY <1>3, <1>8, Zenon DEF Fits
<1>10. Fits(Outside, Caught(<<>>), <<>>, NamesIn(<<>>), Whole(<<>>))
  BY <1>6, <1>7, <1>9 DEF Whole
<1>11. LastPiece(<<>>, <<>>)
  BY DEF LastPiece
<1>12. ReadTo(<<>>, Outside, <<>>, <<>>)
  BY <1>2, <1>10, <1>11, Zenon DEF ReadTo
<1> QED
  BY <1>1, <1>3, <1>5, <1>12, Zenon DEF ReadSoFar

LEMMA ReadMore ==
    ASSUME NEW xs \in Seq(Token), NEW x \in Token, ReadSoFar(xs)
    PROVE  ReadSoFar(Append(xs, x))
<1>1. PICK ys \in Seq(Token) : ys = Append(xs, x)
  BY AppendProperties
<1>2. PICK s \in Scans : s = Scanned(xs)
  BY ScanAppend
<1>3. Scanned(ys) = Scan(s, x)
  BY <1>1, <1>2, ScanAppend
<1>4. ys # <<>> /\ (xs = <<>> => ys[1] = x) /\ (xs # <<>> => ys[1] = xs[1])
  <2>1. Len(xs) \in Nat /\ Len(ys) = Len(xs) + 1 /\ ys[Len(xs) + 1] = x /\ \A i \in 1..Len(xs) : ys[i] = xs[i]
    BY <1>1, AppendProperties, LenProperties
  <2>2. ys # <<>>
    BY <1>1, AppendProperties
  <2>3. xs = <<>> => Len(xs) + 1 = 1
    BY EmptySeq
  <2>4. xs # <<>> => 1 \in 1..Len(xs)
    BY <2>1, EmptySeq
  <2> QED
    BY <2>1, <2>2, <2>3, <2>4
<1>5. ASSUME Calm(Scan(s, x)), ys[1] = Slash
      PROVE  /\ NamedBy(ys, Scan(s, x))
             /\ \E front \in Seq(Text), q \in Text : ReadTo(ys, Scan(s, x), front, q)
  <2>1. Calm(s) /\ Scan(s, x).ok
    BY <1>5, CalmBefore
  <2>2. NamedBy(xs, s) /\ \E front \in Seq(Text), q \in Text : ReadTo(xs, s, front, q)
    BY <1>2, <1>4, <1>5, <2>1, Zenon DEF ReadSoFar
  <2>3. PICK front \in Seq(Text), q \in Text : ReadTo(xs, s, front, q)
    BY <2>2
  <2>4. NamedBy(ys, Scan(s, x))
    BY <1>1, <2>1, <2>2, NamedStep
  <2>5. CASE x = Slash
    <3>1. Calm(Scan(s, Slash))
      BY <1>5, <2>5
    <3>2. ReadTo(Append(xs, Slash), Scan(s, Slash), Append(front, q), <<>>)
      BY <2>2, <2>3, <3>1, ReadSlash
    <3>3. ReadTo(ys, Scan(s, x), Append(front, q), <<>>)
      BY <1>1, <2>5, <3>2
    <3>4. Append(front, q) \in Seq(Text) /\ <<>> \in Text
      BY AppendProperties, TokensAre
    <3> QED
      BY <2>4, <3>3, <3>4, Zenon
  <2>6. CASE x # Slash
    <3>1. xs # <<>>
      BY <1>4, <1>5, <2>6
    <3>2. ReadTo(ys, Scan(s, x), front, Append(q, x))
      BY <1>1, <1>5, <2>2, <2>3, <2>6, <3>1, ReadOther
    <3>3. Append(q, x) \in Text
      BY AppendProperties DEF Text
    <3> QED
      BY <2>4, <3>2, <3>3, Zenon
  <2> QED
    BY <2>5, <2>6
<1> QED
  BY <1>1, <1>3, <1>4, <1>5, Zenon DEF ReadSoFar

LEMMA AllRead == \A xs \in Seq(Token) : ReadSoFar(xs)
<1> DEFINE good == {xs \in Seq(Token) : ReadSoFar(xs)}
<1>1. <<>> \in good
  BY NothingRead, EmptySeq
<1>2. ASSUME NEW xs \in Seq(Token), NEW x \in Token, xs \in good PROVE Append(xs, x) \in good
  BY <1>2, AppendProperties, ReadMore
<1>3. \A xs \in Seq(Token) : xs \in good
  <2> HIDE DEF good
  <2> QED
    BY <1>1, <1>2, SeqInduction
<1> QED
  BY <1>3

LEMMA SegmentsAre ==
    ASSUME NEW p \in Text, NEW front \in Seq(Text), NEW q \in Text, SplitsInto(p, Slash, front, q)
    PROVE  /\ SegmentsOf(p) = SegsOf(front) \o SegItem(q)
           /\ Captured(SegmentsOf(p)) = Caught(front) \o Cap(q)
<1>1. PICK parts : parts = Append(front, q) /\ Split(p, Slash) = parts
  BY DEF SplitsInto
<1>2. SegmentsOf(p) = SegsOf(parts)
  BY <1>1, Zenon DEF SegmentsOf, SegsOf, SegItem
<1>3. SegsOf(parts) = SegsOf(front) \o SegItem(q)
  BY <1>1, SegsAppend
<1>4. Captured(SegsOf(parts)) = Caught(front) \o Cap(q)
  BY <1>1, CaughtAppend DEF Caught
<1> QED
  BY <1>2, <1>3, <1>4

(* The router captures the names that were validated, unless a parameter shares its segment. *)
LEMMA CapturedNames ==
    ASSUME NEW p \in Text, RuntimeAccepts(p)
    PROVE  Captured(SegmentsOf(p)) = NamesIn(p) <=> Whole(p)
<1>1. p \in Seq(Token) /\ StartsWithSlash(p) /\ Scanned(p).ok /\ ~Scanned(p).inParam
  BY Zenon DEF RuntimeAccepts, Text
<1>2. PICK s \in Scans : s = Scanned(p)
  BY <1>1, ScanAppend
<1>3. Calm(Scanned(p)) /\ p # <<>> /\ p[1] = Slash
  BY <1>1, Zenon DEF Calm, StartsWithSlash
<1>4. NamedBy(p, s) /\ \E front \in Seq(Text), q \in Text : ReadTo(p, s, front, q)
  BY <1>1, <1>2, <1>3, AllRead DEF ReadSoFar
<1>5. PICK front \in Seq(Text), q \in Text : ReadTo(p, s, front, q)
  BY <1>4
<1>6. PICK N \in Seq(Text) : N = NamesIn(p)
  <2>1. PICK nf \in Seq(Text), nq \in Text : SplitsInto(p, OpenBrace, nf, nq)
    BY <1>4, Zenon DEF NamedBy
  <2> QED
    BY <2>1, NamesAtEnd
<1>7. PICK F \in Seq(Text) : F = Caught(front)
  BY CaughtAppend
<1>8. PICK w : w = Whole(p)
  OBVIOUS
<1>9. Fits(s, F, q, N, w)
  BY <1>5, <1>6, <1>7, <1>8 DEF ReadTo
<1>10. Captured(SegmentsOf(p)) = F \o Cap(q) /\ Cap(q) \in Seq(Text)
  BY <1>5, <1>7, SegmentsAre, CaughtAppend DEF ReadTo
<1>11. s.name \in Text
  BY DEF Scans
<1>12. ASSUME w PROVE F \o Cap(q) = N
  <2>1. CASE Braceless(q) /\ N = F
    BY <2>1, LeadSize, ConcatEmptySeq
  <2>2. CASE q = Braced(s.name) /\ N = Append(F, s.name)
    <3>1. Cap(q) = <<s.name>>
      BY <1>11, <2>2, CapBraced
    <3> QED
      BY <1>11, <2>2, <3>1, AppendIsConcat
  <2> QED
    BY <1>1, <1>2, <1>9, <1>12, <2>1, <2>2 DEF Fits
<1>13. ASSUME ~w PROVE F \o Cap(q) # N
  BY <1>1, <1>2, <1>9, <1>10, <1>13, ConcatProperties, LenProperties DEF Fits
<1> QED
  BY <1>6, <1>8, <1>10, <1>12, <1>13

-----------------------------------------------------------------------------
(* In an accepted pattern the catch-all is the last segment. *)
EndsIn(xs, q) == Len(q) <= Len(xs) /\ \A k \in 1..Len(q) : xs[(Len(xs) - Len(q)) + k] = q[k]

IsAll(segs, k) == k \in 1..Len(segs) /\ segs[k].k = "all"

HasCatchAll(xs) == \E at \in 1..(Len(xs) - 2) : CatchAllLies(xs, at)

(* More than slashes behind a catch-all. *)
Trouble(xs) == \E at \in 1..(Len(xs) - 2), j \in 1..Len(xs) : at + 3 <= j /\ CatchAllLies(xs, at) /\ xs[j] # Slash

Places(xs, front, q) ==
    /\ EndsIn(xs, q)
    /\ (\E k : IsAll(SegsOf(front), k)) => HasCatchAll(xs)
    /\ \A k : IsAll(SegsOf(front), k) /\ (k # Len(SegsOf(front)) \/ q # <<>>) => Trouble(xs)

LEMMA NoTrouble == ASSUME NEW p \in Seq(Token), CatchAllAtEnd(p) PROVE ~Trouble(p)
<1>1. SUFFICES ASSUME NEW at \in 1..(Len(p) - 2), NEW j \in 1..Len(p), at + 3 <= j, CatchAllLies(p, at), p[j] # Slash
               PROVE  FALSE
  BY DEF Trouble
<1>2. PICK f : f = FirstAt(CatchAll, p, 1)
  OBVIOUS
<1>3. f \in 1..(Len(p) - 2) /\ f <= at
  BY <1>1, <1>2, FirstCatchAll
<1>4. PICK n \in Nat : n = Len(p)
  BY LenProperties
<1>5. f # 0 /\ f \in Int /\ f + 3 <= n /\ f + 3 \in Int
  BY <1>1, <1>3, <1>4
<1>6. PICK t : t = SubSeq(p, f + 3, n)
  OBVIOUS
<1>7. t \in {<<>>, <<Slash>>}
  BY <1>2, <1>4, <1>5, <1>6, CatchAllIs DEF CatchAllAtEnd
<1>8. Len(t) = (n - (f + 3)) + 1 /\ \A i \in 1..((n - (f + 3)) + 1) : t[i] = p[((f + 3) + i) - 1]
  BY <1>3, <1>4, <1>5, <1>6, ElementOfSeq, SubSeqProperties
<1>9. Len(t) >= 1
  BY <1>4, <1>5, <1>8
<1>10. t = <<Slash>>
  BY <1>7, <1>9, EmptySeq
<1>11. Len(t) = 1 /\ t[1] = Slash
  BY <1>10
<1>12. (n - (f + 3)) + 1 = 1
  BY <1>8, <1>11
<1>13. n = f + 3 /\ ((f + 3) + 1) - 1 = f + 3 /\ 1 \in 1..((n - (f + 3)) + 1)
  BY <1>5, <1>12
<1>14. j \in Int /\ at \in Int /\ j <= n
  BY <1>1, <1>4
<1>15. j = f + 3
  BY <1>1, <1>3, <1>5, <1>13, <1>14
<1> QED
  BY <1>1, <1>8, <1>11, <1>13, <1>15

LEMMA StillThere ==
    ASSUME NEW xs \in Seq(Token), NEW x \in Token
    PROVE  /\ HasCatchAll(xs) => HasCatchAll(Append(xs, x)) /\ (x # Slash => Trouble(Append(xs, x)))
           /\ Trouble(xs) => Trouble(Append(xs, x))
<1>1. PICK ys, n : ys = Append(xs, x) /\ n = Len(xs)
  OBVIOUS
<1>2. n \in Nat /\ Len(ys) = n + 1 /\ ys[n + 1] = x /\ \A i \in 1..n : ys[i] = xs[i]
  BY <1>1, AppendProperties, LenProperties
<1>3. ASSUME NEW at \in 1..(n - 2), CatchAllLies(xs, at)
      PROVE  at \in 1..((n + 1) - 2) /\ CatchAllLies(ys, at) /\ at + 3 <= n + 1
  BY <1>2, <1>3 DEF CatchAllLies
<1>4. ASSUME HasCatchAll(xs)
      PROVE  HasCatchAll(ys) /\ (x # Slash => Trouble(ys))
  <2>1. PICK at \in 1..(n - 2) : CatchAllLies(xs, at)
    BY <1>1, <1>4 DEF HasCatchAll
  <2>2. at \in 1..(Len(ys) - 2) /\ CatchAllLies(ys, at) /\ at + 3 <= n + 1 /\ n + 1 \in 1..Len(ys)
    BY <1>2, <1>3, <2>1
  <2> QED
    BY <1>2, <2>2 DEF HasCatchAll, Trouble
<1>5. ASSUME Trouble(xs) PROVE Trouble(ys)
  <2>1. PICK at \in 1..(n - 2), j \in 1..n : at + 3 <= j /\ CatchAllLies(xs, at) /\ xs[j] # Slash
    BY <1>1, <1>5 DEF Trouble
  <2>2. at \in 1..(Len(ys) - 2) /\ CatchAllLies(ys, at) /\ j \in 1..Len(ys) /\ ys[j] = xs[j]
    BY <1>2, <1>3, <2>1
  <2> QED
    BY <2>1, <2>2 DEF Trouble
<1> QED
  BY <1>1, <1>4, <1>5

LEMMA PlacesMore ==
    ASSUME NEW xs \in Seq(Token), NEW x \in Token, NEW front \in Seq(Text), NEW q \in Text, Places(xs, front, q)
    PROVE  /\ x = Slash => Places(Append(xs, x), Append(front, q), <<>>)
           /\ x # Slash => Places(Append(xs, x), front, Append(q, x))
<1>1. PICK ys, n, m : ys = Append(xs, x) /\ n = Len(xs) /\ m = Len(q)
  OBVIOUS
<1>2. n \in Nat /\ m \in Nat /\ Len(ys) = n + 1 /\ ys[n + 1] = x /\ \A i \in 1..n : ys[i] = xs[i]
  BY <1>1, AppendProperties, LenProperties DEF Text
<1>3. m <= n /\ \A k \in 1..m : xs[(n - m) + k] = q[k]
  BY <1>1 DEF Places, EndsIn
<1>4. PICK G \in Seq(Segs) : G = SegsOf(front)
  BY SegsAppend
<1>5. /\ (\E k : IsAll(G, k)) => HasCatchAll(xs)
      /\ \A k : IsAll(G, k) /\ (k # Len(G) \/ q # <<>>) => Trouble(xs)
  BY <1>4, Zenon DEF Places
<1>6. /\ HasCatchAll(xs) => HasCatchAll(ys) /\ (x # Slash => Trouble(ys))
      /\ Trouble(xs) => Trouble(ys)
  BY <1>1, StillThere
<1>7. ASSUME x # Slash PROVE Places(ys, front, Append(q, x))
  <2>1. EndsIn(ys, Append(q, x))
    <3>1. PICK r : r = Append(q, x)
      OBVIOUS
    <3>2. Len(r) = m + 1 /\ r[m + 1] = x /\ \A k \in 1..m : r[k] = q[k]
      BY <1>1, <3>1, AppendProperties DEF Text
    <3>3. ASSUME NEW k \in 1..(m + 1) PROVE ys[((n + 1) - (m + 1)) + k] = r[k]
      <4>1. CASE k = m + 1
        BY <1>2, <3>2, <4>1
      <4>2. CASE k # m + 1
        <5>1. ((n + 1) - (m + 1)) + k = (n - m) + k /\ (n - m) + k \in 1..n /\ k \in 1..m
          BY <1>2, <1>3, <4>2
        <5> QED
          BY <1>2, <1>3, <3>2, <5>1
      <4> QED
        BY <4>1, <4>2
    <3>4. m + 1 <= n + 1 /\ Len(ys) = n + 1
      BY <1>2, <1>3
    <3>5. EndsIn(ys, r)
      BY <3>2, <3>3, <3>4, Zenon DEF EndsIn
    <3> QED
      BY <3>1, <3>5
  <2> QED
    BY <1>4, <1>5, <1>6, <1>7, <2>1, Zenon DEF Places
<1>8. ASSUME x = Slash PROVE Places(ys, Append(front, q), <<>>)
  <2>1. EndsIn(ys, <<>>)
    BY <1>2, EmptySeq DEF EndsIn
  <2>2. SegsOf(Append(front, q)) = G \o SegItem(q)
    BY <1>4, SegsAppend
  <2>3. CASE q = <<>>
    BY <1>5, <1>6, <2>1, <2>2, <2>3, ConcatEmptySeq DEF SegItem, Places
  <2>4. CASE q # <<>>
    <3>1. PICK seg \in Segs : seg = SegmentOf(q)
      BY DEF Segs
    <3>2. PICK H \in Seq(Segs) : H = Append(G, seg)
      BY AppendProperties
    <3>3. SegsOf(Append(front, q)) = H
      BY <2>2, <2>4, <3>1, <3>2, AppendIsConcat DEF SegItem
    <3>4. /\ Len(G) \in Nat /\ Len(H) = Len(G) + 1 /\ H[Len(G) + 1] = seg
          /\ \A k \in 1..Len(G) : H[k] = G[k]
      BY <3>2, AppendProperties, LenProperties
    <3>5. ASSUME NEW k, IsAll(H, k)
          PROVE  (k # Len(H) => IsAll(G, k)) /\ (k = Len(H) => seg.k = "all")
      BY <3>4, <3>5 DEF IsAll
    <3>6. ASSUME seg.k = "all" PROVE HasCatchAll(xs)
      <4>1. q = CatchAll
        BY <3>1, <3>6, SegmentIs, KindsDiffer
      <4>2. m = 3 /\ q[1] = OpenBrace /\ q[2] = PathName /\ q[3] = CloseBrace
        BY <1>1, <4>1, CatchAllIs
      <4>3. n >= 3 /\ (n - m) + 1 = n - 2 /\ (n - m) + 2 = (n - 2) + 1 /\ (n - m) + 3 = (n - 2) + 2
            /\ 1 \in 1..m /\ 2 \in 1..m /\ 3 \in 1..m /\ n - 2 \in 1..(n - 2)
        BY <1>2, <1>3, <4>2
      <4>4. xs[n - 2] = OpenBrace /\ xs[(n - 2) + 1] = PathName /\ xs[(n - 2) + 2] = CloseBrace
        BY <1>3, <4>2, <4>3
      <4> QED
        BY <1>1, <4>3, <4>4 DEF HasCatchAll, CatchAllLies
    <3>7. (\E k : IsAll(H, k)) => HasCatchAll(ys)
      BY <1>5, <1>6, <3>5, <3>6
    <3>8. \A k : IsAll(H, k) /\ (k # Len(H) \/ <<>> # <<>>) => Trouble(ys)
      BY <1>5, <1>6, <2>4, <3>5
    <3> QED
      BY <2>1, <3>3, <3>7, <3>8, Zenon DEF Places
  <2> QED
    BY <2>3, <2>4
<1> QED
  BY <1>1, <1>7, <1>8

Placed(xs) == \E front \in Seq(Text), q \in Text : SplitsInto(xs, Slash, front, q) /\ Places(xs, front, q)

LEMMA AllPlaced == \A xs \in Seq(Token) : Placed(xs)
<1> DEFINE good == {xs \in Seq(Token) : Placed(xs)}
<1>1. <<>> \in good
  <2>1. <<>> \in Seq(Text) /\ <<>> \in Text /\ <<>> \in Seq(Token)
    BY TokensAre, EmptySeq
  <2>2. SplitsInto(<<>>, Slash, <<>>, <<>>)
    BY SplitAppend, OnePiece DEF SplitsInto
  <2>3. \A k : ~IsAll(SegsOf(<<>>), k)
    BY SegsAppend, EmptySeq DEF IsAll
  <2>4. EndsIn(<<>>, <<>>)
    BY EmptySeq DEF EndsIn
  <2>5. Places(<<>>, <<>>, <<>>)
    BY <2>3, <2>4, Zenon DEF Places
  <2> QED
    BY <2>1, <2>2, <2>5 DEF Placed
<1>2. ASSUME NEW xs \in Seq(Token), NEW x \in Token, xs \in good PROVE Append(xs, x) \in good
  <2>1. Append(xs, x) \in Seq(Token)
    BY AppendProperties
  <2>2. PICK front \in Seq(Text), q \in Text : SplitsInto(xs, Slash, front, q) /\ Places(xs, front, q)
    BY <1>2 DEF Placed
  <2>3. Append(front, q) \in Seq(Text) /\ <<>> \in Text /\ Append(q, x) \in Text
    BY TokensAre, AppendProperties DEF Text
  <2>4. CASE x = Slash
    BY <2>1, <2>2, <2>3, <2>4, SplitsMore, PlacesMore DEF Placed
  <2>5. CASE x # Slash
    BY <2>1, <2>2, <2>3, <2>5, SplitsMore, PlacesMore DEF Placed
  <2> QED
    BY <2>4, <2>5
<1>3. \A xs \in Seq(Token) : xs \in good
  <2> HIDE DEF good
  <2> QED
    BY <1>1, <1>2, SeqInduction
<1> QED
  BY <1>3

LEMMA CatchAllIsLast ==
    ASSUME NEW p \in Text, RuntimeAccepts(p)
    PROVE  \A i \in DOMAIN SegmentsOf(p) : SegmentsOf(p)[i].k = "all" => i = Len(SegmentsOf(p))
<1>1. p \in Seq(Token) /\ CatchAllAtEnd(p)
  BY Zenon DEF RuntimeAccepts, Text
<1>2. ~Trouble(p)
  BY <1>1, NoTrouble
<1>3. PICK front \in Seq(Text), q \in Text : SplitsInto(p, Slash, front, q) /\ Places(p, front, q)
  BY <1>1, AllPlaced DEF Placed
<1>4. PICK G \in Seq(Segs) : G = SegsOf(front)
  BY SegsAppend
<1>5. \A k : IsAll(G, k) => k = Len(G) /\ q = <<>>
  BY <1>2, <1>3, <1>4 DEF Places
<1>6. SegmentsOf(p) = G \o SegItem(q)
  BY <1>3, <1>4, SegmentsAre
<1>7. CASE q = <<>>
  BY <1>5, <1>6, <1>7, ConcatEmptySeq, LenProperties DEF SegItem, IsAll
<1>8. CASE q # <<>>
  <2>1. PICK seg \in Segs : seg = SegmentOf(q)
    BY DEF Segs
  <2>2. PICK H \in Seq(Segs) : H = Append(G, seg)
    BY AppendProperties
  <2>3. SegmentsOf(p) = H
    BY <1>6, <1>8, <2>1, <2>2, AppendIsConcat DEF SegItem
  <2>4. /\ Len(G) \in Nat /\ Len(H) = Len(G) + 1 /\ DOMAIN H = 1..Len(H)
        /\ \A k \in 1..Len(G) : H[k] = G[k]
    BY <2>2, AppendProperties, LenProperties
  <2>5. ASSUME NEW i \in DOMAIN H, H[i].k = "all" PROVE i = Len(H)
    BY <1>5, <1>8, <2>4, <2>5 DEF IsAll
  <2> QED
    BY <2>3, <2>5
<1> QED
  BY <1>7, <1>8

PatternRight(p, result) ==
    /\ MacroAccepts(p) => result.accepted
    /\ StaticAccepts(p) => (RuntimeAccepts(StaticRoute(p)) <=> p = <<>> \/ StartsWithSlash(p))
    /\ result.accepted =>
         /\ \A i \in DOMAIN result.segments : result.segments[i].k = "all" => i = Len(result.segments)
         /\ Captured(result.segments) = NamesIn(p) <=> Whole(p)

LEMMA PatternIsRight ==
    ASSUME NEW p \in Text, NEW result,
           result = [accepted |-> RuntimeAccepts(p), segments |-> SegmentsOf(p)]
    PROVE  PatternRight(p, result)
<1>1. (result.accepted <=> RuntimeAccepts(p)) /\ result.segments = SegmentsOf(p)
  OBVIOUS
<1> QED
  BY <1>1, MacroThenRuntime, StaticThenRuntime, CatchAllIsLast, CapturedNames, Zenon DEF PatternRight

-----------------------------------------------------------------------------
(* What was read last is what its parser makes of one of the texts. *)
ReadRight ==
    /\ read.of = "head" => read.text \in Heads /\ read.result = Understood(read.text)
    /\ read.of = "pattern" =>
          read.text \in Patterns
          /\ read.result = [accepted |-> RuntimeAccepts(read.text), segments |-> SegmentsOf(read.text)]
    /\ read.of = "form" =>
          read.text \in Forms
          /\ read.result = AsMultipart(read.text.style, SubSeq(Encode(read.text.form), 1, read.text.cut))
    /\ read.of = "jar" => read.text \in Jars /\ read.result = ReadCookies(CookieField(read.text))
    /\ read.of = "calls" => read.text \in CallLists /\ read.result = AfterCalls(read.text)
    /\ read.of = "lifetime" =>
          read.text \in Lifetimes /\ read.result = [age |-> Seconds(read.text), at |-> Timestamp(read.text)]
    /\ read.of = "date" =>
          read.text \in Days /\ read.result = [today |-> DateOf(read.text), tomorrow |-> DateOf(read.text + 1)]

LEMMA ReadRightStep == ReadRight /\ [Next]_read => ReadRight'
<1> SUFFICES ASSUME ReadRight, [Next]_read PROVE ReadRight'
  OBVIOUS
<1>1. CASE UNCHANGED read
  BY <1>1 DEF ReadRight
<1>2. CASE ReadPattern
  BY <1>2 DEF ReadPattern, Reads, ReadRight
<1>9. CASE ReadForm
  BY <1>9 DEF ReadForm, Reads, ReadRight
<1>3. CASE ReadJar
  BY <1>3 DEF ReadJar, Reads, ReadRight
<1>4. CASE FillStore
  BY <1>4 DEF FillStore, Reads, ReadRight
<1>5. CASE WriteLifetime
  BY <1>5 DEF WriteLifetime, Reads, ReadRight
<1>6. CASE WriteDate
  BY <1>6 DEF WriteDate, Reads, ReadRight
<1>7. CASE ReadHead
  BY <1>7 DEF ReadHead, Reads, ReadRight
<1>8. CASE Return
  BY <1>8 DEF Return, ReadRight
<1> QED
  BY <1>1, <1>2, <1>3, <1>4, <1>5, <1>6, <1>7, <1>8, <1>9 DEF Next

LEMMA AlwaysReadRight == Spec => []ReadRight
<1>1. Init => ReadRight
  BY DEF Init, ReadRight
<1> QED
  BY <1>1, ReadRightStep, PTL DEF Spec

(* For header blocks of any number of lines, in any order, repeated and broken: the body is *)
(* framed for the server as HTTP says, unless a length is repeated or a coding is not in     *)
(* lower case, and the connection is closed only when that was asked for.                    *)
THEOREM HeadsAreUnderstood == Spec => []HeadsUnderstood
<1>1. ReadRight => HeadsUnderstood
  <2> SUFFICES ASSUME ReadRight, read.of = "head"
               PROVE  /\ \A framing \in Framing(read.text) :
                            SameFraming(read.result, framing) <=> ~Differs(read.text, framing)
                      /\ read.result.close =>
                            \E i \in DOMAIN Members(read.text, "connection") : Members(read.text, "connection")[i] = "close"
    BY DEF HeadsUnderstood
  <2>1. PICK block \in Heads : read.text = block /\ read.result = Understood(block)
    BY DEF ReadRight
  <2>2. block.lines \in Seq(FieldLine)
    BY HeadsAssumption DEF FieldLine
  <2> QED
    BY <2>1, <2>2, HeadRead
<1> QED
  BY <1>1, AlwaysReadRight, PTL

(* For jars of any number of cookies, however they are spaced and also when they come in two *)
(* fields, for calls on a response in any number and order, for lifetimes of every length    *)
(* and word of every width, and for every day since 1970: cookies, lifetimes and dates are   *)
(* what they were written to be, unless the word overflows.                                  *)
THEOREM CookiesAreKept == Spec => []CookiesKeepTheirWord
<1>1. ASSUME ReadRight, read.of = "jar" PROVE read.result = JarRead(Fused(read.text))
  BY <1>1, JarsRead DEF ReadRight
<1>2. ASSUME ReadRight, read.of = "calls" PROVE read.result = StoreKept(read.text)
  BY <1>2, CallListsAssumption, CallsKept DEF ReadRight, CookieCall
<1>3. ReadRight => LifetimesKept
  <2> SUFFICES ASSUME ReadRight, read.of = "lifetime" PROVE LifetimesKept
    BY DEF LifetimesKept
  <2>1. PICK e \in Lifetimes : read.text = e /\ read.result.age = Seconds(e) /\ read.result.at = Timestamp(e)
    BY DEF ReadRight
  <2> QED
    BY <2>1, LifetimeRight, Zenon DEF LifetimesKept
<1>4. ReadRight => DatesFollow
  <2> SUFFICES ASSUME ReadRight, read.of = "date" PROVE DatesFollow
    BY DEF DatesFollow
  <2>1. PICK d \in Days : read.text = d /\ read.result.today = DateOf(d) /\ read.result.tomorrow = DateOf(d + 1)
    BY DEF ReadRight
  <2>2. d \in Nat
    BY DaysAssumption
  <2> QED
    BY <2>1, <2>2, DatesRight, FirstDay DEF DatesFollow
<1>5. ReadRight => CookiesKeepTheirWord
  BY <1>1, <1>2, <1>3, <1>4, Zenon DEF CookiesKeepTheirWord, CookiesReadBack
<1> QED
  BY <1>5, AlwaysReadRight, PTL

(* For forms of any number of parts, with names, types and contents of any length, arriving   *)
(* whole or cut off anywhere: every part reads back as it was written, the last of a name     *)
(* winning; nothing reads back when the server looks for another delimiter than the client's, *)
(* or when the form was cut off anywhere but right behind a delimiter.                         *)
THEOREM FormsAreReadBack == Spec => []FormsReadBack
<1>1. ReadRight => FormsReadBack
  <2> SUFFICES ASSUME ReadRight, read.of = "form" PROVE FormsReadBack
    BY DEF FormsReadBack
  <2>1. PICK f \in Forms : read.text = f
                           /\ read.result = AsMultipart(f.style, SubSeq(Encode(f.form), 1, f.cut))
    BY DEF ReadRight
  <2>2. read.result = FormResult(f)
    BY <2>1, FormsRead
  <2> QED
    BY <2>1, <2>2, Zenon DEF FormsReadBack, FormResult
<1> QED
  BY <1>1, AlwaysReadRight, PTL

(* For patterns of any length and any words: what #[route] lets through RouteDefinition::new  *)
(* accepts, what #[static_files] makes of its path it accepts exactly when that path is empty  *)
(* or has a leading slash, and of what it accepts the router captures the validated names, in  *)
(* order, unless a parameter shares its segment with other text, and meets the catch-all as    *)
(* the last segment only.                                                                      *)
THEOREM PatternsAreAgreed == Spec => []PatternsAgree
<1>1. ReadRight => PatternsAgree
  <2> SUFFICES ASSUME ReadRight, read.of = "pattern" PROVE PatternsAgree
    BY DEF PatternsAgree
  <2>1. PICK p, result : p = read.text /\ result = read.result
    OBVIOUS
  <2>2. p \in Patterns /\ result = [accepted |-> RuntimeAccepts(p), segments |-> SegmentsOf(p)]
    BY <2>1 DEF ReadRight
  <2>3. p \in Text
    BY <2>2, PatternsAssumption, TokensAre
  <2>4. PatternRight(p, result)
    BY <2>2, <2>3, PatternIsRight
  <2> QED
    BY <2>1, <2>4, Zenon DEF PatternsAgree, PatternRight
<1> QED
  BY <1>1, AlwaysReadRight, PTL
=============================================================================
