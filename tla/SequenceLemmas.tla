--------------------------- MODULE SequenceLemmas ---------------------------
(***************************************************************************)
(* What the proofs about texts rest on: induction over the natural         *)
(* numbers, functions that are defined by recursion, and the places of the *)
(* parts of a sequence that is put together.                               *)
(***************************************************************************)
EXTENDS Integers, SequencesExt, WellFoundedInduction, TLAPS

\* A set that has 0, and n + 1 whenever it has n, has all natural numbers.
LEMMA NatSet ==
  ASSUME NEW S, 0 \in S, \A n \in Nat : n \in S => n + 1 \in S
  PROVE  Nat \subseteq S
<1> SUFFICES ASSUME NEW m \in Nat, m \notin S PROVE FALSE
  OBVIOUS
<1> DEFINE T == Nat \ S
<1>1. IsWellFoundedOn(OpToRel(<, Nat), Nat)
  BY NatLessThanWellFounded
<1>2. PICK x \in T : \A y \in T : ~(<<y, x>> \in OpToRel(<, Nat))
  <2> HIDE DEF T
  <2>1. T \subseteq Nat /\ T # {}
    BY DEF T
  <2> QED BY <1>1, <2>1, WFMin
<1>3. x # 0 /\ x - 1 \in Nat
  OBVIOUS
<1>4. x - 1 \in S
  <2>1. x - 1 \in T => <<x - 1, x>> \in OpToRel(<, Nat)
    BY <1>3 DEF OpToRel
  <2> QED BY <1>2, <1>3, <2>1
<1> QED BY <1>3, <1>4

\* A function over 0..n may be defined from what it is one place before.
Recurs(f, n, base, step) == f[0] = base /\ \A i \in 1..n : f[i] = step[i][f[i - 1]]

LEMMA Recursion ==
  ASSUME NEW n \in Nat, NEW S, NEW base \in S, NEW step \in [1..n -> [S -> S]]
  PROVE  \E f \in [0..n -> S] : Recurs(f, n, base, step)
<1> DEFINE Upto(m, f) == f[0] = base /\ \A i \in 1..m : f[i] = step[i][f[i - 1]]
<1> DEFINE D == {m \in Nat : m <= n => \E f \in [0..m -> S] : Upto(m, f)}
<1>1. 0 \in D
  <2> DEFINE f == [i \in 0..0 |-> base]
  <2>1. f \in [0..0 -> S] /\ Upto(0, f)
    OBVIOUS
  <2> QED BY <2>1
<1>2. ASSUME NEW m \in Nat, m \in D PROVE m + 1 \in D
  <2> SUFFICES ASSUME m + 1 <= n PROVE \E f \in [0..(m + 1) -> S] : Upto(m + 1, f)
    OBVIOUS
  <2>1. PICK f \in [0..m -> S] : Upto(m, f)
    BY <1>2
  <2> DEFINE g == [i \in 0..(m + 1) |-> IF i = m + 1 THEN step[m + 1][f[m]] ELSE f[i]]
  <2>2. step[m + 1] \in [S -> S] /\ f[m] \in S
    OBVIOUS
  <2>3. g \in [0..(m + 1) -> S]
    BY <2>2
  <2>4. g[m + 1] = step[m + 1][f[m]] /\ \A i \in 0..m : g[i] = f[i]
    OBVIOUS
  <2> HIDE DEF g
  <2>5. ASSUME NEW i \in 1..(m + 1) PROVE g[i] = step[i][g[i - 1]]
    <3>1. CASE i = m + 1
      <4>1. i - 1 = m /\ m \in 0..m
        BY <3>1
      <4>2. g[i - 1] = f[m]
        BY <4>1, <2>4
      <4> QED BY <3>1, <4>2, <2>4
    <3>2. CASE i # m + 1
      <4>1. i \in 1..m /\ i - 1 \in 0..m /\ i \in 0..m
        BY <3>2
      <4> QED BY <4>1, <2>1, <2>4
    <3> QED BY <3>1, <3>2
  <2>6. g[0] = base
    BY <2>1, <2>4
  <2>7. Upto(m + 1, g)
    BY <2>5, <2>6
  <2> QED BY <2>3, <2>7
<1>3. n \in D
  <2> HIDE DEF D
  <2> QED BY <1>1, <1>2, NatSet
<1> QED BY <1>3 DEF Recurs


-----------------------------------------------------------------------------
(* Parts of a sequence.                                                    *)

\* Concatenation under a name, which the provers take as it is.
Cat(a, b) == a \o b

\* The sequence s is in t, after the first k elements.
IsAtPlace(t, k, s) == \A i \in 1..Len(s) : t[k + i] = s[i]

LEMMA CatParts ==
  ASSUME NEW S, NEW a \in Seq(S), NEW b \in Seq(S)
  PROVE  /\ Cat(a, b) \in Seq(S)
         /\ Len(Cat(a, b)) = Len(a) + Len(b)
         /\ \A i \in 1..Len(a) : Cat(a, b)[i] = a[i]
         /\ \A i \in 1..Len(b) : Cat(a, b)[Len(a) + i] = b[i]
BY DEF Cat

LEMMA CatPlaces ==
  ASSUME NEW S, NEW a \in Seq(S), NEW b \in Seq(S), NEW t, NEW k \in Nat, IsAtPlace(t, k, Cat(a, b))
  PROVE  IsAtPlace(t, k, a) /\ IsAtPlace(t, k + Len(a), b)
<1>1. /\ Len(Cat(a, b)) = Len(a) + Len(b)
      /\ \A i \in 1..Len(a) : Cat(a, b)[i] = a[i]
      /\ \A i \in 1..Len(b) : Cat(a, b)[Len(a) + i] = b[i]
  BY DEF Cat
<1>2. PICK la \in Nat, lb \in Nat : la = Len(a) /\ lb = Len(b)
  OBVIOUS
<1>3. \A i \in 1..(la + lb) : t[k + i] = Cat(a, b)[i]
  BY <1>1, <1>2 DEF IsAtPlace
<1>4. \A i \in 1..la : t[k + i] = a[i]
  BY <1>1, <1>2, <1>3
<1>5. \A i \in 1..lb : t[(k + la) + i] = b[i]
  <2> TAKE i \in 1..lb
  <2>1. la + i \in 1..(la + lb) /\ k + (la + i) = (k + la) + i
    OBVIOUS
  <2>2. t[k + (la + i)] = Cat(a, b)[la + i]
    BY <2>1, <1>3
  <2> QED BY <2>1, <2>2, <1>1, <1>2
<1> QED BY <1>2, <1>4, <1>5 DEF IsAtPlace

\* What FlattenSeq makes of the first i sequences.
LEMMA FlattenParts ==
  ASSUME NEW S, NEW seqs \in Seq(Seq(S))
  PROVE  \E part \in [0..Len(seqs) -> Seq(S)] :
            /\ part[0] = <<>>
            /\ \A i \in 1..Len(seqs) : part[i] = Cat(part[i - 1], seqs[i])
            /\ FlattenSeq(seqs) = part[Len(seqs)]
<1> DEFINE n == Len(seqs)
<1> DEFINE step == [i \in 1..n |-> [x \in Seq(S) |-> Cat(x, seqs[i])]]
<1> DEFINE Def(f) == f = [i \in 1..n |-> IF i = 1 THEN seqs[i] ELSE f[i - 1] \o seqs[i]]
<1> DEFINE flatten == CHOOSE f : Def(f)
<1>1. n \in Nat /\ \A i \in 1..n : seqs[i] \in Seq(S) /\ i - 1 \in 0..n /\ i \in 0..n
  OBVIOUS
<1>2. \A x \in Seq(S), y \in Seq(S) : Cat(x, y) \in Seq(S)
  BY CatParts
<1>3. step \in [1..n -> [Seq(S) -> Seq(S)]] /\ <<>> \in Seq(S)
  BY <1>1, <1>2
<1>4. PICK part \in [0..n -> Seq(S)] : Recurs(part, n, <<>>, step)
  <2> HIDE DEF step, n
  <2> QED BY <1>1, <1>3, Recursion
<1>5. part[0] = <<>> /\ \A i \in 1..n : part[i] = Cat(part[i - 1], seqs[i])
  BY <1>1, <1>4 DEF Recurs
<1>6. \A x \in Seq(S) : Cat(<<>>, x) = x
  BY DEF Cat
<1>7. CASE n = 0
  <2>1. FlattenSeq(seqs) = <<>>
    BY <1>7 DEF FlattenSeq
  <2> QED BY <1>5, <1>7, <2>1
<1>8. CASE n # 0
  <2> DEFINE g == [i \in 1..n |-> part[i]]
  <2>1. Def(g)
    <3>1. \A i \in 1..n : g[i] = IF i = 1 THEN seqs[i] ELSE g[i - 1] \o seqs[i]
      <4> TAKE i \in 1..n
      <4>1. CASE i = 1
        <5>1. part[1] = Cat(part[0], seqs[1])
          BY <1>1, <1>5, <1>8
        <5> QED BY <4>1, <5>1, <1>1, <1>5, <1>6
      <4>2. CASE i # 1
        <5>1. i - 1 \in 1..n
          BY <4>2, <1>1
        <5> QED BY <5>1, <4>2, <1>5 DEF Cat
      <4> QED BY <4>1, <4>2
    <3> QED BY <3>1
  <2>2. Def(flatten)
    <3> HIDE DEF Def
    <3> QED BY <2>1
  <2> HIDE DEF flatten, g
  <2>3. \A i \in 1..n : flatten[i] = IF i = 1 THEN seqs[i] ELSE flatten[i - 1] \o seqs[i]
    BY <2>2
  <2> DEFINE D == {i \in Nat : i + 1 <= n => flatten[i + 1] = part[i + 1]}
  <2>4. 0 \in D
    <3>1. part[1] = Cat(part[0], seqs[1])
      BY <1>1, <1>5, <1>8
    <3>2. flatten[1] = seqs[1] /\ 1 \in 1..n
      BY <1>1, <1>8, <2>3
    <3> QED BY <3>1, <3>2, <1>1, <1>5, <1>6
  <2>5. ASSUME NEW i \in Nat, i \in D PROVE i + 1 \in D
    <3> SUFFICES ASSUME (i + 1) + 1 <= n PROVE flatten[(i + 1) + 1] = part[(i + 1) + 1]
      OBVIOUS
    <3>1. flatten[i + 1] = part[i + 1]
      BY <2>5, <1>1
    <3>2. (i + 1) + 1 \in 1..n /\ ((i + 1) + 1) - 1 = i + 1 /\ (i + 1) + 1 # 1
      BY <1>1
    <3>3. flatten[(i + 1) + 1] = Cat(flatten[i + 1], seqs[(i + 1) + 1])
      BY <3>2, <2>3 DEF Cat
    <3>4. part[(i + 1) + 1] = Cat(part[i + 1], seqs[(i + 1) + 1])
      BY <3>2, <1>5
    <3> QED BY <3>1, <3>3, <3>4
  <2>6. Nat \subseteq D
    <3> HIDE DEF D
    <3> QED BY <2>4, <2>5, NatSet
  <2>7. n - 1 \in Nat /\ (n - 1) + 1 = n /\ n <= n
    BY <1>1, <1>8
  <2>8. flatten[n] = part[n]
    <3>1. n - 1 \in D
      <4> HIDE DEF D
      <4> QED BY <2>6, <2>7
    <3> HIDE DEF n
    <3> QED BY <3>1, <2>7
  <2>9. FlattenSeq(seqs) = flatten[n]
    BY <1>8 DEF FlattenSeq, flatten
  <2> QED BY <1>5, <2>8, <2>9
<1> QED BY <1>7, <1>8

\* Where a flattened sequence is, there are its parts.
LEMMA FlattenPlaces ==
  ASSUME NEW S, NEW n \in Nat, NEW seqs \in [1..n -> Seq(S)], NEW part \in [0..n -> Seq(S)],
         \A i \in 1..n : part[i] = Cat(part[i - 1], seqs[i]),
         NEW t, NEW k \in Nat, IsAtPlace(t, k, part[n])
  PROVE  \A i \in 1..n : /\ IsAtPlace(t, k + Len(part[i - 1]), seqs[i])
                         /\ Len(part[i]) = Len(part[i - 1]) + Len(seqs[i])
<1> DEFINE D == {d \in Nat : d <= n => IsAtPlace(t, k, part[n - d])}
<1>1. 0 \in D
  BY n - 0 = n
<1>2. ASSUME NEW d \in Nat, d \in D PROVE d + 1 \in D
  <2> SUFFICES ASSUME d + 1 <= n PROVE IsAtPlace(t, k, part[n - (d + 1)])
    OBVIOUS
  <2>1. n - d \in 1..n /\ (n - d) - 1 = n - (d + 1) /\ n - (d + 1) \in 0..n
    OBVIOUS
  <2>2. IsAtPlace(t, k, Cat(part[n - (d + 1)], seqs[n - d]))
    BY <1>2, <2>1
  <2> QED BY <2>1, <2>2, CatPlaces
<1>3. Nat \subseteq D
  <2> HIDE DEF D
  <2> QED BY <1>1, <1>2, NatSet
<1>4. ASSUME NEW i \in 1..n
      PROVE  /\ IsAtPlace(t, k + Len(part[i - 1]), seqs[i])
             /\ Len(part[i]) = Len(part[i - 1]) + Len(seqs[i])
  <2>1. n - i \in Nat /\ n - (n - i) = i /\ n - i <= n /\ i - 1 \in 0..n
    OBVIOUS
  <2>2. IsAtPlace(t, k, part[i])
    BY <1>3, <2>1
  <2>3. part[i] = Cat(part[i - 1], seqs[i]) /\ part[i - 1] \in Seq(S) /\ seqs[i] \in Seq(S)
    BY <2>1
  <2>4. PICK a \in Seq(S), b \in Seq(S) : a = part[i - 1] /\ b = seqs[i]
    BY <2>3
  <2>5. IsAtPlace(t, k, Cat(a, b))
    BY <2>2, <2>3, <2>4
  <2>6. IsAtPlace(t, k + Len(a), b)
    BY <2>5, CatPlaces
  <2>7. Len(Cat(a, b)) = Len(a) + Len(b)
    BY CatParts
  <2> QED BY <2>3, <2>4, <2>6, <2>7
<1> QED BY <1>4

\* No part is longer than the whole.
LEMMA PartsGrow ==
  ASSUME NEW S, NEW n \in Nat, NEW seqs \in [1..n -> Seq(S)], NEW part \in [0..n -> Seq(S)],
         \A i \in 1..n : part[i] = Cat(part[i - 1], seqs[i])
  PROVE  \A i \in 0..n : Len(part[i]) <= Len(part[n])
<1> DEFINE D == {d \in Nat : d <= n => Len(part[n - d]) <= Len(part[n])}
<1>1. 0 \in D
  <2>1. PICK x \in Nat : x = Len(part[n])
    OBVIOUS
  <2> QED BY <2>1, n - 0 = n
<1>2. ASSUME NEW d \in Nat, d \in D PROVE d + 1 \in D
  <2> SUFFICES ASSUME d + 1 <= n PROVE Len(part[n - (d + 1)]) <= Len(part[n])
    OBVIOUS
  <2>1. n - d \in 1..n /\ (n - d) - 1 = n - (d + 1) /\ n - (d + 1) \in 0..n /\ n - d \in 0..n /\ n \in 0..n
    OBVIOUS
  <2>2. PICK a \in Seq(S), b \in Seq(S) : a = part[n - (d + 1)] /\ b = seqs[n - d]
    BY <2>1
  <2>3. part[n - d] = Cat(a, b)
    BY <2>1, <2>2
  <2>4. PICK x \in Nat, y \in Nat : x = Len(a) /\ y = Len(b) /\ Len(part[n - d]) = x + y
    BY <2>3, CatParts
  <2>5. PICK z \in Nat : z = Len(part[n])
    BY <2>1
  <2>6. x + y <= z
    <3>1. d <= n
      OBVIOUS
    <3>2. Len(part[n - d]) <= Len(part[n])
      BY <1>2, <3>1
    <3> QED BY <3>2, <2>4, <2>5
  <2>7. x <= z
    BY <2>6
  <2> QED BY <2>2, <2>4, <2>5, <2>7
<1>3. Nat \subseteq D
  <2> HIDE DEF D
  <2> QED BY <1>1, <1>2, NatSet
<1>4. ASSUME NEW i \in 0..n PROVE Len(part[i]) <= Len(part[n])
  <2>1. n - i \in Nat /\ n - (n - i) = i /\ n - i <= n
    OBVIOUS
  <2> QED BY <1>3, <2>1
<1> QED BY <1>4

\* A sequence with a name for its length.
HasLength(S, s, n) == s \in Seq(S) /\ n = Len(s)

LEMMA CatLength ==
  ASSUME NEW S, NEW a, NEW b, NEW i \in Nat, NEW j \in Nat, HasLength(S, a, i), HasLength(S, b, j),
         NEW n, n = i + j
  PROVE  HasLength(S, Cat(a, b), n)
BY CatParts DEF HasLength

\* The parts of a text, with the place of the second.
LEMMA LastPart ==
  ASSUME NEW S, NEW a, NEW b, NEW i \in Nat, NEW j \in Nat, HasLength(S, a, i), HasLength(S, b, j),
         NEW t, NEW k \in Nat, IsAtPlace(t, k, Cat(a, b)), NEW e, e = k + i
  PROVE  IsAtPlace(t, k, a) /\ IsAtPlace(t, e, b)
<1>1. a \in Seq(S) /\ b \in Seq(S) /\ e = k + Len(a)
  BY DEF HasLength
<1>2. IsAtPlace(t, k, a) /\ IsAtPlace(t, k + Len(a), b)
  BY <1>1, CatPlaces
<1> QED BY <1>1, <1>2

-----------------------------------------------------------------------------
(* Texts, whose elements are records with a character ch.                  *)

\* The characters of t after the first k are those of a string.
Spells(t, k, string) == \A i \in 1..Len(string) : t[k + i].ch = string[i]

\* What the characters of a string are, those of its text are.
LEMMA SpelledIn ==
  ASSUME NEW S, NEW string \in Seq(S), NEW t, NEW k \in Nat, Spells(t, k, string),
         NEW e \in Nat, e = k + Len(string)
  PROVE  \A j \in (k + 1)..e : t[j].ch \in S
<1> TAKE j \in (k + 1)..e
<1>1. PICK i \in 1..Len(string) : j = k + i
  <2>1. j - k \in 1..Len(string) /\ j = k + (j - k)
    OBVIOUS
  <2> QED BY <2>1
<1>2. string[i] \in S
  OBVIOUS
<1> QED BY <1>1, <1>2 DEF Spells
=============================================================================
