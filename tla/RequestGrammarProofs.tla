------------------------ MODULE RequestGrammarProofs ------------------------
(***************************************************************************)
(* The request parser against its references, for all sizes of its buffers:*)
(* GetContentLength is exact for values of any length, and every text of   *)
(* the grammar is accepted with its last character.                        *)
(***************************************************************************)
EXTENDS RequestGrammar, RequestParserProofs, SequenceLemmas

-----------------------------------------------------------------------------
(* GetContentLength.                                                       *)

Results == Nat \cup {InvalidLength}

LEMMA AfterRecursion ==
  ASSUME NEW value \in Seq(ValueChars), WideBody \in Nat \ {0}
  PROVE  \E after :
            /\ after[0] = 0
            /\ \A i \in 1..Len(value) : after[i] = Wide!AddDigit(after[i - 1], value[i])
            /\ Wide!GetContentLength(value) = after[Len(value)]
<1> DEFINE n == Len(value)
<1> DEFINE Def(f) == f = [i \in 0..n |-> IF i = 0 THEN 0 ELSE Wide!AddDigit(f[i - 1], value[i])]
<1> DEFINE step == [i \in 1..n |-> [x \in Results |-> Wide!AddDigit(x, value[i])]]
<1> DEFINE after == CHOOSE f : Def(f)
<1>1. n \in Nat /\ \A i \in 1..n : value[i] \in ValueChars /\ i - 1 \in 0..n /\ i \in 0..n
  OBVIOUS
<1>2. \A x \in Results, d \in ValueChars : Wide!AddDigit(x, d) \in Results
  BY DEF Results, Wide!AddDigit, InvalidLength, Wide!InvalidLength, ValueChars, Digits,
     Space, Other, Wide!Space, Wide!Other
<1>3. step \in [1..n -> [Results -> Results]] /\ 0 \in Results
  BY <1>1, <1>2 DEF Results
<1>4. PICK g \in [0..n -> Results] : Recurs(g, n, 0, step)
  <2> HIDE DEF step, n
  <2> QED BY <1>1, <1>3, Recursion
<1>5. \A i \in 1..n : g[i] = Wide!AddDigit(g[i - 1], value[i])
  BY <1>1, <1>4 DEF Recurs
<1>6. Def(g)
  BY <1>1, <1>4, <1>5 DEF Recurs
<1>7. Def(after)
  <2> HIDE DEF Def
  <2> QED BY <1>6
<1>8. Wide!GetContentLength(value) = after[Len(value)]
  BY DEF Wide!GetContentLength
<1> HIDE DEF after
<1>9. after[0] = 0 /\ \A i \in 1..n : after[i] = Wide!AddDigit(after[i - 1], value[i])
  BY <1>1, <1>7
<1> QED BY <1>8, <1>9

\* The character before the last k - 1.
FromEnd(value, k) == value[Len(value) + 1 - k]

LEMMA WeightRecursion ==
  ASSUME NEW value \in Seq(ValueChars)
  PROVE  /\ Wide!Weight(value) \in [0..Len(value) -> Nat]
         /\ Wide!Weight(value)[0] = 1
         /\ \A k \in 1..Len(value) :
               Wide!Weight(value)[k] = IF FromEnd(value, k) = Space THEN Wide!Weight(value)[k - 1]
                                       ELSE 10 * Wide!Weight(value)[k - 1]
<1> DEFINE n == Len(value)
<1> DEFINE Def(f) == f = [k \in 0..n |->
                             IF k = 0 THEN 1
                             ELSE IF value[n + 1 - k] = Space THEN f[k - 1] ELSE 10 * f[k - 1]]
<1> DEFINE step == [k \in 1..n |-> [x \in Nat |-> IF value[n + 1 - k] = Space THEN x ELSE 10 * x]]
<1> DEFINE weight == CHOOSE f : Def(f)
<1>1. n \in Nat /\ \A k \in 1..n : k - 1 \in 0..n /\ k \in 0..n
  OBVIOUS
<1>2. step \in [1..n -> [Nat -> Nat]]
  OBVIOUS
<1>3. PICK g \in [0..n -> Nat] : Recurs(g, n, 1, step)
  <2> HIDE DEF step, n
  <2> QED BY <1>1, <1>2, Recursion
<1>4. \A k \in 1..n : g[k] = IF value[n + 1 - k] = Space THEN g[k - 1] ELSE 10 * g[k - 1]
  BY <1>1, <1>3 DEF Recurs
<1>5. Def(g)
  BY <1>1, <1>3, <1>4 DEF Recurs
<1>6. Def(weight)
  <2> HIDE DEF Def
  <2> QED BY <1>5
<1>7. Wide!Weight(value) = weight
  BY DEF Wide!Weight, Wide!Space, Space
<1> HIDE DEF weight
<1>8. /\ weight[0] = 1
      /\ \A k \in 1..n : weight[k] = IF value[n + 1 - k] = Space THEN weight[k - 1] ELSE 10 * weight[k - 1]
  BY <1>1, <1>6
<1>9. weight \in [0..n -> Nat]
  <2>1. DOMAIN weight = 0..n /\ weight = [k \in 0..n |-> weight[k]]
    BY <1>6
  <2> DEFINE D == {k \in Nat : k <= n => weight[k] \in Nat}
  <2>2. 0 \in D
    BY <1>8
  <2>3. ASSUME NEW k \in Nat, k \in D PROVE k + 1 \in D
    <3> SUFFICES ASSUME k + 1 <= n PROVE weight[k + 1] \in Nat
      OBVIOUS
    <3>1. k + 1 \in 1..n /\ (k + 1) - 1 = k /\ weight[k] \in Nat
      BY <2>3, <1>1
    <3>2. weight[k + 1] = weight[k] \/ weight[k + 1] = 10 * weight[k]
      BY <3>1, <1>8
    <3> QED BY <3>1, <3>2
  <2>4. Nat \subseteq D
    <3> HIDE DEF D
    <3> QED BY <2>2, <2>3, NatSet
  <2>5. \A k \in 0..n : weight[k] \in Nat
    BY <2>4, <1>1
  <2> QED BY <2>1, <2>5
<1> QED BY <1>7, <1>8, <1>9 DEF FromEnd

LEMMA SumRecursion ==
  ASSUME NEW value \in Seq(ValueChars)
  PROVE  /\ Wide!WeightedSum(value) \in [0..Len(value) -> Nat]
         /\ Wide!WeightedSum(value)[0] = 0
         /\ \A k \in 1..Len(value) :
               Wide!WeightedSum(value)[k] =
                  IF FromEnd(value, k) = Space THEN Wide!WeightedSum(value)[k - 1]
                  ELSE Wide!WeightedSum(value)[k - 1] + FromEnd(value, k) * Wide!Weight(value)[k - 1]
<1> DEFINE n == Len(value)
<1> DEFINE w == Wide!Weight(value)
<1> DEFINE Def(f) == f = [k \in 0..n |->
                             IF k = 0 THEN 0
                             ELSE IF value[n + 1 - k] = Space THEN f[k - 1]
                             ELSE f[k - 1] + value[n + 1 - k] * w[k - 1]]
<1> DEFINE step == [k \in 1..n |-> [x \in Nat |-> IF value[n + 1 - k] = Space THEN x
                                                 ELSE x + value[n + 1 - k] * w[k - 1]]]
<1> DEFINE sum == CHOOSE f : Def(f)
<1>1. n \in Nat /\ \A k \in 1..n : k - 1 \in 0..n /\ k \in 0..n
  OBVIOUS
<1>2. w \in [0..n -> Nat]
  BY WeightRecursion
<1>3. Wide!WeightedSum(value) = sum
  BY DEF Wide!WeightedSum, Wide!Space, Space
<1> HIDE DEF w
<1>4. \A k \in 1..n : value[n + 1 - k] * w[k - 1] \in Nat
  <2> TAKE k \in 1..n
  <2>1. value[n + 1 - k] \in ValueChars /\ w[k - 1] \in Nat
    BY <1>1, <1>2
  <2>2. value[n + 1 - k] \in Nat
    BY <2>1 DEF ValueChars, Digits, Space, Other
  <2> QED BY <2>1, <2>2
<1>5. step \in [1..n -> [Nat -> Nat]]
  BY <1>4
<1>6. PICK g \in [0..n -> Nat] : Recurs(g, n, 0, step)
  <2> HIDE DEF step, n
  <2> QED BY <1>1, <1>5, Recursion
<1>7. \A k \in 1..n : g[k] = IF value[n + 1 - k] = Space THEN g[k - 1]
                             ELSE g[k - 1] + value[n + 1 - k] * w[k - 1]
  BY <1>1, <1>6 DEF Recurs
<1>8. Def(g)
  BY <1>1, <1>6, <1>7 DEF Recurs
<1>9. Def(sum)
  <2> HIDE DEF Def
  <2> QED BY <1>8
<1> HIDE DEF sum
<1>10. /\ sum[0] = 0
       /\ \A k \in 1..n : sum[k] = IF value[n + 1 - k] = Space THEN sum[k - 1]
                                   ELSE sum[k - 1] + value[n + 1 - k] * w[k - 1]
  BY <1>1, <1>9
<1>11. sum \in [0..n -> Nat]
  <2>1. DOMAIN sum = 0..n /\ sum = [k \in 0..n |-> sum[k]]
    BY <1>9
  <2> DEFINE D == {k \in Nat : k <= n => sum[k] \in Nat}
  <2>2. 0 \in D
    BY <1>10
  <2>3. ASSUME NEW k \in Nat, k \in D PROVE k + 1 \in D
    <3> SUFFICES ASSUME k + 1 <= n PROVE sum[k + 1] \in Nat
      OBVIOUS
    <3>1. k + 1 \in 1..n /\ (k + 1) - 1 = k /\ sum[k] \in Nat
      BY <2>3, <1>1
    <3>2. PICK x \in Nat : x = value[n + 1 - (k + 1)] * w[(k + 1) - 1]
      BY <3>1, <1>4
    <3>3. sum[k + 1] = sum[k] \/ sum[k + 1] = sum[k] + x
      BY <3>1, <3>2, <1>10
    <3> QED BY <3>1, <3>3
  <2>4. Nat \subseteq D
    <3> HIDE DEF D
    <3> QED BY <2>2, <2>3, NatSet
  <2>5. \A k \in 0..n : sum[k] \in Nat
    BY <2>4, <1>1
  <2> QED BY <2>1, <2>5
<1> QED BY <1>3, <1>10, <1>11 DEF FromEnd, w

\* The number that the first characters of a value make, without a limit.
LEMMA Horner ==
  ASSUME NEW value \in Seq(ValueChars)
  PROVE  \E h \in [0..Len(value) -> Nat] :
            /\ h[0] = 0
            /\ \A i \in 1..Len(value) :
                  h[i] = IF value[i] = Space THEN h[i - 1] ELSE h[i - 1] * 10 + value[i]
<1> DEFINE n == Len(value)
<1> DEFINE step == [i \in 1..n |-> [x \in Nat |-> IF value[i] = Space THEN x ELSE x * 10 + value[i]]]
<1>1. n \in Nat /\ \A i \in 1..n : i - 1 \in 0..n /\ i \in 0..n
  OBVIOUS
<1>2. \A i \in 1..n : value[i] \in Nat
  <2>1. ValueChars \subseteq Nat
    BY DEF ValueChars, Digits, Space, Other
  <2>2. \A i \in 1..n : value[i] \in ValueChars
    OBVIOUS
  <2> QED BY <2>1, <2>2
<1>3. step \in [1..n -> [Nat -> Nat]]
  BY <1>2
<1>4. PICK g \in [0..n -> Nat] : Recurs(g, n, 0, step)
  <2> HIDE DEF step, n
  <2> QED BY <1>1, <1>3, Recursion
<1> QED BY <1>1, <1>4 DEF Recurs

\* It is the number that positional notation means.
LEMMA HornerIsDecimal ==
  ASSUME NEW value \in Seq(ValueChars), NEW h \in [0..Len(value) -> Nat], h[0] = 0,
         \A i \in 1..Len(value) :
            h[i] = IF value[i] = Space THEN h[i - 1] ELSE h[i - 1] * 10 + value[i]
  PROVE  Wide!Decimal(value) = h[Len(value)]
<1> DEFINE n == Len(value)
<1> DEFINE w == Wide!Weight(value)
<1> DEFINE s == Wide!WeightedSum(value)
<1>1. /\ n \in Nat /\ w \in [0..n -> Nat] /\ s \in [0..n -> Nat] /\ w[0] = 1 /\ s[0] = 0
      /\ \A k \in 1..n : w[k] = IF FromEnd(value, k) = Space THEN w[k - 1] ELSE 10 * w[k - 1]
      /\ \A k \in 1..n : s[k] = IF FromEnd(value, k) = Space THEN s[k - 1]
                                ELSE s[k - 1] + FromEnd(value, k) * w[k - 1]
  BY WeightRecursion, SumRecursion
<1>2. Wide!Decimal(value) = s[n]
  BY DEF Wide!Decimal
<1> HIDE DEF w, s
<1> DEFINE D == {j \in Nat : j <= n => s[n] = h[j] * w[n - j] + s[n - j]}
<1>3. 0 \in D
  <2>1. PICK a \in Nat, b \in Nat : a = s[n] /\ b = w[n]
    BY <1>1, SMTT(30)
  <2>2. a = 0 * b + a
    OBVIOUS
  <2>3. n - 0 = n
    BY <1>1
  <2> QED BY <2>1, <2>2, <2>3
<1>4. ASSUME NEW j \in Nat, j \in D PROVE j + 1 \in D
  <2> SUFFICES ASSUME j + 1 <= n PROVE s[n] = h[j + 1] * w[n - (j + 1)] + s[n - (j + 1)]
    OBVIOUS
  <2>1. s[n] = h[j] * w[n - j] + s[n - j]
    BY <1>4, <1>1
  <2>2. n - j \in 1..n /\ n - (j + 1) = (n - j) - 1 /\ n - (j + 1) \in 0..n /\ j \in 0..n
        /\ j + 1 \in 1..n /\ (j + 1) - 1 = j
    BY <1>1
  <2>3. FromEnd(value, n - j) = value[j + 1]
    <3>1. n + 1 - (n - j) = j + 1
      BY <1>1
    <3> QED BY <3>1 DEF FromEnd
  <2>4. PICK hj \in Nat, w1 \in Nat, s1 \in Nat, d \in Nat :
           hj = h[j] /\ w1 = w[n - (j + 1)] /\ s1 = s[n - (j + 1)] /\ d = value[j + 1]
    <3>1. h[j] \in Nat /\ w[n - (j + 1)] \in Nat /\ s[n - (j + 1)] \in Nat
      BY <2>2, <1>1
    <3>2. value[j + 1] \in ValueChars
      BY <2>2
    <3>3. value[j + 1] \in Nat
      BY <3>2 DEF ValueChars, Digits, Space, Other
    <3> QED BY <3>1, <3>3
  <2>5. h[j + 1] = IF d = Space THEN hj ELSE hj * 10 + d
    BY <2>2, <2>4
  <2>6. w[n - j] = IF d = Space THEN w1 ELSE 10 * w1
    BY <2>2, <2>3, <2>4, <1>1
  <2>7. s[n - j] = IF d = Space THEN s1 ELSE s1 + d * w1
    BY <2>2, <2>3, <2>4, <1>1
  <2>8. CASE d = Space
    BY <2>1, <2>4, <2>5, <2>6, <2>7, <2>8
  <2>9. CASE d # Space
    <3>1. (hj * 10 + d) * w1 + s1 = hj * (10 * w1) + (s1 + d * w1)
      <4>1. hj \in Nat /\ d \in Nat /\ w1 \in Nat /\ s1 \in Nat
        BY <2>4
      <4> QED BY ONLY <4>1
    <3> QED BY <3>1, <2>1, <2>4, <2>5, <2>6, <2>7, <2>9
  <2> QED BY <2>8, <2>9
<1>5. n \in D
  <2> HIDE DEF D
  <2> QED BY <1>1, <1>3, <1>4, NatSet
<1>6. s[n] = h[n] * w[n - n] + s[n - n]
  BY <1>1, <1>5
<1>7. n - n = 0 /\ n \in 0..n
  BY <1>1
<1>8. PICK a \in Nat : a = h[n]
  BY <1>7
<1>9. s[n] = a * 1 + 0
  BY <1>1, <1>6, <1>7, <1>8
<1> QED BY <1>2, <1>8, <1>9

LEMMA WideDigit ==
  ASSUME NEW n \in Nat, NEW d \in Digits, WideBody \in Nat \ {0}
  PROVE  Wide!AddDigit(n, d) = IF n * 10 + d <= WideBody THEN n * 10 + d ELSE InvalidLength
<1>1. d \in Nat /\ d <= 9 /\ d # Wide!Other /\ d # Wide!Space /\ n # Wide!InvalidLength
  BY DEF Digits, Wide!Other, Wide!Space, Wide!InvalidLength
<1>2. n > WideBody \div 10 => n * 10 > WideBody
  OBVIOUS
<1>3. n * 10 > WideBody - d <=> ~(n * 10 + d <= WideBody)
  BY <1>1
<1>4. n * 10 > WideBody => ~(n * 10 + d <= WideBody)
  BY <1>1
<1> QED BY <1>1, <1>2, <1>3, <1>4 DEF Wide!AddDigit, Wide!InvalidLength, InvalidLength

\* GetContentLength is exact for every value, of any length, and every limit.
LEMMA WideLengthExact ==
  ASSUME NEW value \in Seq(ValueChars), WideBody \in Nat \ {0}
  PROVE  Wide!ExactLength(value)
<1> DEFINE n == Len(value)
<1>1. PICK after : /\ after[0] = 0
                   /\ \A i \in 1..n : after[i] = Wide!AddDigit(after[i - 1], value[i])
                   /\ Wide!GetContentLength(value) = after[n]
  BY AfterRecursion
<1>2. PICK h \in [0..n -> Nat] :
         /\ h[0] = 0
         /\ \A i \in 1..n : h[i] = IF value[i] = Space THEN h[i - 1] ELSE h[i - 1] * 10 + value[i]
  BY Horner
<1>3. Wide!Decimal(value) = h[n]
  BY <1>2, HornerIsDecimal
<1> DEFINE Clean(j) == \A i \in 1..j : value[i] # Other
<1> DEFINE D == {j \in Nat : j <= n =>
                    after[j] = IF Clean(j) /\ h[j] <= WideBody THEN h[j] ELSE InvalidLength}
<1>4. 0 \in D
  BY <1>1, <1>2
<1>5. ASSUME NEW j \in Nat, j \in D PROVE j + 1 \in D
  <2> SUFFICES ASSUME j + 1 <= n
               PROVE  after[j + 1] = IF Clean(j + 1) /\ h[j + 1] <= WideBody THEN h[j + 1] ELSE InvalidLength
    OBVIOUS
  <2>1. j \in 0..n /\ j + 1 \in 1..n /\ (j + 1) - 1 = j
    OBVIOUS
  <2>2. after[j] = IF Clean(j) /\ h[j] <= WideBody THEN h[j] ELSE InvalidLength
    BY <1>5, <2>1
  <2>3. PICK x, d : x = h[j] /\ d = value[j + 1]
    OBVIOUS
  <2>4. x \in Nat /\ d \in ValueChars
    BY <2>1, <2>3, <1>2
  <2>5. after[j + 1] = Wide!AddDigit(after[j], d)
    BY <1>1, <2>1, <2>3
  <2>6. h[j + 1] = IF d = Space THEN x ELSE x * 10 + d
    BY <1>2, <2>1, <2>3
  <2>7. Clean(j + 1) <=> Clean(j) /\ d # Other
    <3>1. \A i \in 1..(j + 1) : i \in 1..j \/ i = j + 1
      OBVIOUS
    <3>2. 1..j \subseteq 1..(j + 1) /\ j + 1 \in 1..(j + 1)
      OBVIOUS
    <3> QED BY <3>1, <3>2, <2>3
  <2> HIDE DEF Clean
  <2>8. CASE d = Other
    <3>1. Wide!AddDigit(after[j], d) = InvalidLength
      BY <2>8 DEF Wide!AddDigit, Wide!Other, Other, Wide!InvalidLength, InvalidLength
    <3> QED BY <3>1, <2>5, <2>7, <2>8
  <2>9. CASE d = Space
    <3>1. Wide!AddDigit(after[j], d) = after[j]
      BY <2>9 DEF Wide!AddDigit, Wide!Other, Wide!Space, Space, Wide!InvalidLength
    <3>2. d # Other
      BY <2>9 DEF Space, Other
    <3> QED BY <3>1, <3>2, <2>2, <2>3, <2>5, <2>6, <2>7, <2>9
  <2>10. CASE d \in Digits
    <3>1. d # Other /\ d # Space /\ d \in Nat
      BY <2>10 DEF Digits, Other, Space
    <3>2. CASE Clean(j) /\ x <= WideBody
      <4>1. after[j] = x
        BY <2>2, <2>3, <3>2
      <4>2. Wide!AddDigit(x, d) = IF x * 10 + d <= WideBody THEN x * 10 + d ELSE InvalidLength
        BY <2>4, <2>10, WideDigit
      <4> QED BY <4>1, <4>2, <2>5, <2>6, <2>7, <3>1, <3>2
    <3>3. CASE ~(Clean(j) /\ x <= WideBody)
      <4>1. after[j] = InvalidLength
        BY <2>2, <2>3, <3>3
      <4>2. Wide!AddDigit(after[j], d) = InvalidLength
        BY <4>1 DEF Wide!AddDigit, Wide!InvalidLength, InvalidLength
      <4>3. x > WideBody => x * 10 + d > WideBody
        BY <2>4, <3>1
      <4>4. ~(Clean(j + 1) /\ h[j + 1] <= WideBody)
        BY <4>3, <2>4, <2>6, <2>7, <3>1, <3>3
      <4> QED BY <4>2, <4>4, <2>5
    <3> QED BY <3>2, <3>3
  <2> QED BY <2>4, <2>8, <2>9, <2>10 DEF ValueChars
<1>6. n \in D
  <2> HIDE DEF D
  <2>1. n \in Nat
    OBVIOUS
  <2> QED BY <2>1, <1>4, <1>5, NatSet
<1>7. after[n] = IF Clean(n) /\ h[n] <= WideBody THEN h[n] ELSE InvalidLength
  BY <1>6
<1>8. Wide!WellFormed(value) <=> Clean(n)
  BY DEF Wide!WellFormed, Wide!ToSet, Wide!Other, Other
<1> HIDE DEF Clean
<1> QED BY <1>1, <1>3, <1>7, <1>8 DEF Wide!ExactLength, Wide!InvalidLength, InvalidLength

\* The value grows by one character at a time.
ValueGrows == mode = "value" => text \in Seq(ValueChars)

\* GetContentLength is exact for every value of digits, spaces and others, of any
\* length, and for every limit.
THEOREM LengthsExactCorrect == GrammarSpec => []LengthsExact
<1>1. GrammarInit => ValueGrows
  BY DEF GrammarInit, ValueGrows
<1>2. ValueGrows /\ [GrammarNext]_grammarVars => ValueGrows'
  <2> SUFFICES ASSUME ValueGrows, [GrammarNext]_grammarVars, mode' = "value"
               PROVE  text' \in Seq(ValueChars)
    BY DEF ValueGrows
  <2>1. mode = "value" /\ text \in Seq(ValueChars)
    BY DEF GrammarNext, ValueGrows, grammarVars
  <2>2. text' = text \/ \E ch \in SomeChars : text' = Append(text, ch)
    BY <2>1 DEF GrammarNext, grammarVars
  <2> QED BY <2>1, <2>2, ValueAssumption
<1>3. ValueGrows => LengthsExact
  BY WideLengthExact, ValueAssumption DEF ValueGrows, LengthsExact
<1> QED BY <1>1, <1>2, <1>3, PTL DEF GrammarSpec

-----------------------------------------------------------------------------
(* The texts of the grammar are requests as RequestParserProofs describes  *)
(* them, over the positions of their characters.                           *)

CharText == [ch : Chars, method : Methods, length : Lengths \cup {NoLength, InvalidLength}]

LEMMA PlainText ==
  ASSUME NEW string \in Seq(Chars)
  PROVE  /\ Plain(string) \in Seq(CharText) /\ Len(Plain(string)) = Len(string)
         /\ \A i \in 1..Len(string) : Plain(string)[i].ch = string[i]
<1>1. PICK n \in Nat : n = Len(string)
  OBVIOUS
<1>2. \A i \in 1..n : string[i] \in Chars
  BY <1>1
<1>3. \A c \in Chars : Char(c, "Other", NoLength) \in CharText /\ Char(c, "Other", NoLength).ch = c
  BY DEF Char, CharText, Methods
<1>4. Plain(string) = [i \in 1..n |-> Char(string[i], "Other", NoLength)]
  BY <1>1 DEF Plain
<1> HIDE DEF Plain
<1>5. Plain(string) \in [1..n -> CharText]
  BY <1>2, <1>3, <1>4
<1>6. Plain(string) \in Seq(CharText) /\ Len(Plain(string)) = n
  BY <1>1, <1>5
<1>7. \A i \in 1..n : Plain(string)[i].ch = string[i]
  BY <1>2, <1>3, <1>4
<1> QED BY <1>1, <1>6, <1>7

LEMMA PlainSpells ==
  ASSUME NEW string \in Seq(Chars), NEW t, NEW k \in Nat, IsAtPlace(t, k, Plain(string))
  PROVE  Spells(t, k, string)
BY PlainText DEF IsAtPlace, Spells

LEMMA LineEndText ==
  ASSUME NEW n \in Lengths \cup {NoLength, InvalidLength}
  PROVE  /\ LineEnd(n) \in Seq(CharText) /\ Len(LineEnd(n)) = 2
         /\ LineEnd(n)[1].ch = "cr" /\ LineEnd(n)[2].ch = "lf" /\ LineEnd(n)[2].length = n
<1>1. Char("cr", "Other", n) \in CharText /\ Char("lf", "Other", n) \in CharText
  BY DEF Char, CharText, Methods, Chars, Ctl
<1>2. Char("cr", "Other", n).ch = "cr" /\ Char("lf", "Other", n).ch = "lf" /\ Char("lf", "Other", n).length = n
  BY DEF Char
<1> HIDE DEF Char
<1> QED BY <1>1, <1>2 DEF LineEnd

LEMMA LineEndPlace ==
  ASSUME NEW n \in Lengths \cup {NoLength, InvalidLength}, NEW t, NEW k \in Nat,
         IsAtPlace(t, k, LineEnd(n))
  PROVE  t[k + 1].ch = "cr" /\ t[k + 2].ch = "lf" /\ t[k + 2].length = n
BY LineEndText DEF IsAtPlace

HTTP == <<"sp", "h", "t", "t", "p", "slash", "1", "dot">>

\* Where the parts of a first line are.
LEMMA FirstLinePlaces ==
  ASSUME NEW m \in Methods, NEW word \in Words, NEW uri \in Uris, NEW minor \in Minors,
         NEW w \in Nat, NEW lu \in Nat, NEW lm \in Nat,
         HasLength(Chars, word, w), HasLength(Chars, uri, lu), HasLength(Chars, minor, lm),
         NEW u \in Nat, u = w + 1 + lu, NEW v \in Nat, v = u + 8 + lm,
         NEW t, IsAtPlace(t, 0, FirstLine(m, word, uri, minor))
  PROVE  /\ HasLength(CharText, FirstLine(m, word, uri, minor), v + 2)
         /\ Spells(t, 0, word) /\ t[w + 1].ch = "sp" /\ t[w + 1].method = m
         /\ Spells(t, w + 1, uri) /\ Spells(t, u, HTTP) /\ Spells(t, u + 8, minor)
         /\ t[v + 1].ch = "cr" /\ t[v + 2].ch = "lf"
<1> DEFINE a1 == Plain(word)
<1> DEFINE a2 == <<Char("sp", m, NoLength)>>
<1> DEFINE a3 == Plain(uri)
<1> DEFINE a4 == Plain(HTTP)
<1> DEFINE a5 == Plain(minor)
<1> DEFINE a6 == LineEnd(NoLength)
<1> DEFINE c2 == Cat(a1, a2)
<1> DEFINE c3 == Cat(c2, a3)
<1> DEFINE c4 == Cat(c3, a4)
<1> DEFINE c5 == Cat(c4, a5)
<1> DEFINE c6 == Cat(c5, a6)
<1>1. FirstLine(m, word, uri, minor) = c6
  BY DEF FirstLine, Cat, HTTP
<1>2. /\ word \in Seq(Chars) /\ uri \in Seq(Chars) /\ minor \in Seq(Chars)
      /\ w = Len(word) /\ lu = Len(uri) /\ lm = Len(minor)
  BY DEF HasLength
<1>3. HTTP \in Seq(Chars) /\ Len(HTTP) = 8
  BY DEF HTTP, Chars, Letters, DigitChars, Special
<1>4. /\ a1 \in Seq(CharText) /\ a3 \in Seq(CharText) /\ a4 \in Seq(CharText)
      /\ a5 \in Seq(CharText) /\ a6 \in Seq(CharText)
      /\ Len(a1) = Len(word) /\ Len(a3) = Len(uri) /\ Len(a4) = 8 /\ Len(a5) = Len(minor) /\ Len(a6) = 2
  BY <1>2, <1>3, PlainText, LineEndText
<1>5. a2 \in Seq(CharText) /\ Len(a2) = 1 /\ a2[1].ch = "sp" /\ a2[1].method = m
  <2>1. Char("sp", m, NoLength) \in CharText /\ Char("sp", m, NoLength).ch = "sp"
        /\ Char("sp", m, NoLength).method = m
    BY DEF Char, CharText, Chars, Special
  <2> HIDE DEF Char
  <2> QED BY <2>1
<1>7. /\ HasLength(CharText, a1, w) /\ HasLength(CharText, a2, 1) /\ HasLength(CharText, a3, lu)
      /\ HasLength(CharText, a4, 8) /\ HasLength(CharText, a5, lm) /\ HasLength(CharText, a6, 2)
  <2> HIDE DEF a1, a2, a3, a4, a5, a6
  <2> QED BY <1>2, <1>4, <1>5 DEF HasLength
<1>8. c2 = Cat(a1, a2) /\ c3 = Cat(c2, a3) /\ c4 = Cat(c3, a4) /\ c5 = Cat(c4, a5) /\ c6 = Cat(c5, a6)
  OBVIOUS
<1> HIDE DEF a1, a2, a3, a4, a5, a6, c2, c3, c4, c5, c6
<1>9. /\ HasLength(CharText, c2, w + 1) /\ HasLength(CharText, c3, u) /\ HasLength(CharText, c4, u + 8)
      /\ HasLength(CharText, c5, v) /\ HasLength(CharText, c6, v + 2)
  <2>1. u = (w + 1) + lu /\ v = (u + 8) + lm
    OBVIOUS
  <2>2. HasLength(CharText, c2, w + 1)
    BY <1>7, <1>8, CatLength
  <2>3. HasLength(CharText, c3, u)
    BY <1>7, <1>8, <2>1, <2>2, CatLength
  <2>4. HasLength(CharText, c4, u + 8)
    BY <1>7, <1>8, <2>3, CatLength
  <2>5. HasLength(CharText, c5, v)
    BY <1>7, <1>8, <2>1, <2>4, CatLength
  <2>6. HasLength(CharText, c6, v + 2)
    BY <1>7, <1>8, <2>5, CatLength
  <2> QED BY <2>2, <2>3, <2>4, <2>5, <2>6
<1>10. /\ IsAtPlace(t, 0, c5) /\ IsAtPlace(t, v, a6)
       /\ IsAtPlace(t, 0, c4) /\ IsAtPlace(t, u + 8, a5)
       /\ IsAtPlace(t, 0, c3) /\ IsAtPlace(t, u, a4)
  <2>1. IsAtPlace(t, 0, c5) /\ IsAtPlace(t, v, a6)
    BY <1>1, <1>7, <1>8, <1>9, LastPart
  <2>2. IsAtPlace(t, 0, c4) /\ IsAtPlace(t, u + 8, a5)
    BY <1>7, <1>8, <1>9, <2>1, LastPart
  <2>3. IsAtPlace(t, 0, c3) /\ IsAtPlace(t, u, a4)
    BY <1>7, <1>8, <1>9, <2>2, LastPart
  <2> QED BY <2>1, <2>2, <2>3
<1>12. IsAtPlace(t, 0, c2) /\ IsAtPlace(t, w + 1, a3)
  BY <1>7, <1>8, <1>9, <1>10, LastPart
<1>13. IsAtPlace(t, 0, a1) /\ IsAtPlace(t, w, a2)
  BY <1>7, <1>8, <1>12, LastPart
<1>14. t[w + 1] = a2[1]
  BY <1>5, <1>13 DEF IsAtPlace
<1>15. t[v + 1].ch = "cr" /\ t[v + 2].ch = "lf"
  BY <1>10, LineEndPlace DEF a6
<1>16. Spells(t, 0, word) /\ Spells(t, w + 1, uri)
  BY <1>2, <1>12, <1>13, PlainSpells DEF a1, a3
<1>17. Spells(t, u, HTTP) /\ Spells(t, u + 8, minor)
  BY <1>2, <1>3, <1>10, PlainSpells DEF a4, a5
<1> QED BY <1>1, <1>5, <1>9, <1>14, <1>15, <1>16, <1>17

FirstLineIn(q, word, uri, minor) ==
    q.word = Len(word) /\ q.uri = q.word + 1 + Len(uri) /\ q.minor = q.uri + 8 + Len(minor)

LEMMA FirstLineOfGrammar ==
  ASSUME NEW m \in Methods, NEW word \in Words, NEW uri \in Uris, NEW minor \in Minors,
         NEW t, IsAtPlace(t, 0, FirstLine(m, word, uri, minor)),
         NEW q, FirstLineIn(q, word, uri, minor)
  PROVE  /\ IsFirstLine(t, q) /\ t[q.word + 1].method = m
         /\ HasLength(CharText, FirstLine(m, word, uri, minor), q.minor + 2)
<1>1. /\ word \in Seq(Letters) /\ Len(word) \in 1..MaxMethod
      /\ uri \in Seq(Chars \ (Ctl \cup {"sp"})) /\ Len(uri) <= MaxUri
      /\ minor \in Seq(DigitChars) /\ Len(minor) \in 1..(MaxMinor - 1)
  BY GrammarAssumption
<1>2. PICK w \in Nat, lu \in Nat, lm \in Nat : w = Len(word) /\ lu = Len(uri) /\ lm = Len(minor)
  BY <1>1
<1>3. PICK u \in Nat, v \in Nat : u = w + 1 + lu /\ v = u + 8 + lm
  <2>1. w + 1 + lu \in Nat /\ (w + 1 + lu) + 8 + lm \in Nat
    OBVIOUS
  <2> QED BY <2>1
<1>4. q.word = w /\ q.uri = u /\ q.minor = v
  BY <1>2, <1>3 DEF FirstLineIn
<1>5. /\ HasLength(CharText, FirstLine(m, word, uri, minor), v + 2)
      /\ Spells(t, 0, word) /\ t[w + 1].ch = "sp" /\ t[w + 1].method = m
      /\ Spells(t, w + 1, uri) /\ Spells(t, u, HTTP) /\ Spells(t, u + 8, minor)
      /\ t[v + 1].ch = "cr" /\ t[v + 2].ch = "lf"
  <2>1. HasLength(Chars, word, w) /\ HasLength(Chars, uri, lu) /\ HasLength(Chars, minor, lm)
    <3>1. Letters \subseteq Chars /\ DigitChars \subseteq Chars
      BY DEF Chars
    <3> QED BY <3>1, <1>1, <1>2 DEF HasLength
  <2> QED BY <2>1, <1>3, FirstLinePlaces
<1>6. \A i \in 1..w : t[i].ch \in Letters
  <2>1. \A i \in (0 + 1)..w : t[i].ch \in Letters
    BY <1>1, <1>2, <1>5, SpelledIn
  <2> QED BY <2>1
<1>7. \A i \in (w + 2)..u : t[i].ch \notin Ctl \cup {"sp"}
  <2>1. \A i \in ((w + 1) + 1)..u : t[i].ch \in Chars \ (Ctl \cup {"sp"})
    BY <1>1, <1>2, <1>3, <1>5, SpelledIn
  <2>2. (w + 1) + 1 = w + 2
    OBVIOUS
  <2> QED BY <2>1, <2>2
<1>8. /\ t[u + 1].ch = "sp" /\ t[u + 2].ch = "h" /\ t[u + 3].ch = "t" /\ t[u + 4].ch = "t"
      /\ t[u + 5].ch = "p" /\ t[u + 6].ch = "slash" /\ t[u + 7].ch = "1" /\ t[u + 8].ch = "dot"
  <2>1. /\ Len(HTTP) = 8 /\ HTTP[1] = "sp" /\ HTTP[2] = "h" /\ HTTP[3] = "t" /\ HTTP[4] = "t"
        /\ HTTP[5] = "p" /\ HTTP[6] = "slash" /\ HTTP[7] = "1" /\ HTTP[8] = "dot"
    BY DEF HTTP
  <2> QED BY <1>5, <2>1 DEF Spells
<1>9. \A i \in (u + 9)..v : t[i].ch \in DigitChars
  <2>1. \A i \in ((u + 8) + 1)..v : t[i].ch \in DigitChars
    BY <1>1, <1>2, <1>3, <1>5, SpelledIn
  <2>2. (u + 8) + 1 = u + 9
    OBVIOUS
  <2> QED BY <2>1, <2>2
<1>10. /\ w \in Nat \ {0} /\ w <= MaxMethod
       /\ w < u /\ u <= w + 1 + MaxUri
       /\ u + 9 <= v /\ v < u + 8 + MaxMinor
  BY <1>1, <1>2, <1>3, ParserAssumption
<1>11. IsFirstLine(t, q)
  BY <1>4, <1>5, <1>6, <1>7, <1>8, <1>9, <1>10 DEF IsFirstLine
<1> QED BY <1>4, <1>5, <1>11

\* Where the parts of a header line are, which begins after the first k characters.
LEMMA HeaderLinePlaces ==
  ASSUME NEW h \in HeaderLines, NEW t, NEW k \in Nat, IsAtPlace(t, k, LineText(h)),
         NEW lk \in Nat, NEW lb \in Nat, NEW lv \in Nat,
         HasLength(Chars, h.key, lk), HasLength(Chars, h.blanks, lb), HasLength(Chars, h.value, lv),
         NEW c \in Nat, c = k + lk, NEW b \in Nat, b = c + 1 + lb, NEW d \in Nat, d = b + lv
  PROVE  /\ HasLength(CharText, LineText(h), lk + 1 + lb + lv + 2)
         /\ Spells(t, k, h.key) /\ t[c + 1].ch = "colon" /\ Spells(t, c + 1, h.blanks)
         /\ Spells(t, b, h.value)
         /\ t[d + 1].ch = "cr" /\ t[d + 2].ch = "lf" /\ t[d + 2].length = h.length
<1> DEFINE colon == <<"colon">>
<1> DEFINE a1 == Plain(h.key)
<1> DEFINE a2 == Plain(colon)
<1> DEFINE a3 == Plain(h.blanks)
<1> DEFINE a4 == Plain(h.value)
<1> DEFINE a5 == LineEnd(h.length)
<1> DEFINE c2 == Cat(a1, a2)
<1> DEFINE c3 == Cat(c2, a3)
<1> DEFINE c4 == Cat(c3, a4)
<1> DEFINE c5 == Cat(c4, a5)
<1>1. LineText(h) = c5
  BY DEF LineText, Cat
<1>2. /\ h.key \in Seq(Chars) /\ h.blanks \in Seq(Chars) /\ h.value \in Seq(Chars)
      /\ lk = Len(h.key) /\ lb = Len(h.blanks) /\ lv = Len(h.value)
  BY DEF HasLength
<1>l. h.length \in Lengths \cup {NoLength, InvalidLength}
  BY GrammarAssumption DEF HeaderLines
<1>3. colon \in Seq(Chars) /\ Len(colon) = 1 /\ colon[1] = "colon"
  BY DEF Chars, Special
<1> HIDE DEF colon
<1>5. /\ HasLength(CharText, a1, lk) /\ HasLength(CharText, a2, 1) /\ HasLength(CharText, a3, lb)
      /\ HasLength(CharText, a4, lv) /\ HasLength(CharText, a5, 2)
  BY <1>2, <1>3, <1>l, PlainText, LineEndText DEF HasLength
<1>6. c2 = Cat(a1, a2) /\ c3 = Cat(c2, a3) /\ c4 = Cat(c3, a4) /\ c5 = Cat(c4, a5)
  OBVIOUS
<1> HIDE DEF a1, a2, a3, a4, a5, c2, c3, c4, c5
<1>7. PICK x \in Nat, y \in Nat, z \in Nat : x = lk + 1 /\ y = x + lb /\ z = y + lv
  <2>1. lk + 1 \in Nat /\ (lk + 1) + lb \in Nat /\ ((lk + 1) + lb) + lv \in Nat
    OBVIOUS
  <2> QED BY <2>1
<1>8. c + 1 = k + x /\ b = k + y /\ d = k + z /\ z + 2 = lk + 1 + lb + lv + 2
  BY <1>7
<1>9. /\ HasLength(CharText, c2, x) /\ HasLength(CharText, c3, y) /\ HasLength(CharText, c4, z)
      /\ HasLength(CharText, c5, z + 2)
  <2>1. HasLength(CharText, c2, x)
    BY <1>5, <1>6, <1>7, CatLength
  <2>2. HasLength(CharText, c3, y)
    BY <1>5, <1>6, <1>7, <2>1, CatLength
  <2>3. HasLength(CharText, c4, z)
    BY <1>5, <1>6, <1>7, <2>2, CatLength
  <2>4. HasLength(CharText, c5, z + 2)
    BY <1>5, <1>6, <2>3, CatLength
  <2> QED BY <2>1, <2>2, <2>3, <2>4
<1>11. IsAtPlace(t, k, c4) /\ IsAtPlace(t, d, a5)
  BY <1>1, <1>5, <1>6, <1>8, <1>9, LastPart
<1>12. IsAtPlace(t, k, c3) /\ IsAtPlace(t, b, a4)
  BY <1>5, <1>6, <1>8, <1>9, <1>11, LastPart
<1>13. IsAtPlace(t, k, c2) /\ IsAtPlace(t, c + 1, a3)
  BY <1>5, <1>6, <1>8, <1>9, <1>12, LastPart
<1>14. IsAtPlace(t, k, a1) /\ IsAtPlace(t, c, a2)
  BY <1>5, <1>6, <1>13, LastPart
<1>15. Spells(t, k, h.key) /\ Spells(t, c + 1, h.blanks) /\ Spells(t, b, h.value) /\ Spells(t, c, colon)
  BY <1>2, <1>3, <1>12, <1>13, <1>14, PlainSpells, SMTT(30) DEF a1, a2, a3, a4
<1>16. t[c + 1].ch = "colon"
  BY <1>3, <1>15 DEF Spells
<1>17. t[d + 1].ch = "cr" /\ t[d + 2].ch = "lf" /\ t[d + 2].length = h.length
  BY <1>l, <1>11, LineEndPlace DEF a5
<1> QED BY <1>1, <1>8, <1>9, <1>15, <1>16, <1>17

LEMMA HeaderLineOfGrammar ==
  ASSUME NEW h \in HeaderLines, NEW t, NEW k \in Nat, IsAtPlace(t, k, LineText(h)),
         NEW q, NEW i, q.end[i - 1] = k,
         q.colon[i] = k + Len(h.key) + 1, q.lws[i] = q.colon[i] + Len(h.blanks),
         q.end[i] = q.lws[i] + Len(h.value) + 2,
         q.len[i] = IF q.len[i - 1] = NoLength THEN h.length ELSE q.len[i - 1]
  PROVE  IsHeaderLine(t, q, i) /\ HasLength(CharText, LineText(h), q.end[i] - k)
<1>1. /\ h.key \in Seq(NameChars) /\ h.key # <<>> /\ h.blanks \in Seq({"sp", "tab"})
      /\ h.value \in Seq(Chars \ Ctl) /\ (h.value # <<>> => h.value[1] # "sp")
  BY GrammarAssumption DEF HeaderLines
<1>2. PICK lk \in Nat, lb \in Nat, lv \in Nat :
         lk = Len(h.key) /\ lb = Len(h.blanks) /\ lv = Len(h.value)
  BY <1>1
<1>3. lk # 0
  BY <1>1, <1>2
<1>4. HasLength(Chars, h.key, lk) /\ HasLength(Chars, h.blanks, lb) /\ HasLength(Chars, h.value, lv)
  <2>1. NameChars \subseteq Chars /\ {"sp", "tab"} \subseteq Chars
    BY DEF NameChars, Chars, Special
  <2> QED BY <2>1, <1>1, <1>2, SMTT(30) DEF HasLength
<1>5. PICK c \in Nat, b \in Nat, d \in Nat : c = k + lk /\ b = c + 1 + lb /\ d = b + lv
  <2>1. k + lk \in Nat /\ (k + lk) + 1 + lb \in Nat /\ ((k + lk) + 1 + lb) + lv \in Nat
    OBVIOUS
  <2> QED BY <2>1
<1>6. q.colon[i] = c + 1 /\ q.lws[i] = b /\ q.end[i] = d + 2
  BY <1>2, <1>5
<1>7. /\ HasLength(CharText, LineText(h), lk + 1 + lb + lv + 2)
      /\ Spells(t, k, h.key) /\ t[c + 1].ch = "colon" /\ Spells(t, c + 1, h.blanks)
      /\ Spells(t, b, h.value)
      /\ t[d + 1].ch = "cr" /\ t[d + 2].ch = "lf" /\ t[d + 2].length = h.length
  BY <1>4, <1>5, HeaderLinePlaces
<1>8. \A j \in (k + 1)..c : t[j].ch \in NameChars
  BY <1>1, <1>2, <1>5, <1>7, SpelledIn
<1>9. \A j \in ((c + 1) + 1)..b : t[j].ch \in {"sp", "tab"}
  <2> DEFINE S == {"sp", "tab"}
  <2>1. h.blanks \in Seq(S) /\ Spells(t, c + 1, h.blanks) /\ b = (c + 1) + Len(h.blanks) /\ c + 1 \in Nat
    BY <1>1, <1>2, <1>5, <1>7
  <2> HIDE DEF S
  <2>2. \A j \in ((c + 1) + 1)..b : t[j].ch \in S
    BY <2>1, SpelledIn
  <2> QED BY <2>2 DEF S
<1>10. \A j \in (b + 1)..d : t[j].ch \notin Ctl
  <2> DEFINE S == Chars \ Ctl
  <2>1. h.value \in Seq(S) /\ Spells(t, b, h.value) /\ d = b + Len(h.value)
    BY <1>1, <1>2, <1>5, <1>7
  <2> HIDE DEF S
  <2>2. \A j \in (b + 1)..d : t[j].ch \in S
    BY <2>1, SpelledIn
  <2> QED BY <2>2 DEF S
<1>11. b + 1 < d + 1 => t[b + 1].ch # "sp"
  <2>1. b + 1 < d + 1 => 1 \in 1..lv
    BY <1>5
  <2>2. 1 \in 1..lv => h.value # <<>> /\ t[b + 1].ch = h.value[1]
    BY <1>1, <1>2, <1>7 DEF Spells
  <2> QED BY <2>1, <2>2, <1>1
<1>12. (c + 1) - 1 = c /\ (d + 2) - 2 = d /\ (d + 2) - 1 = d + 1
       /\ k + 2 <= c + 1 /\ c + 1 <= b /\ b + 2 <= d + 2
  BY <1>3, <1>5
<1>13. (d + 2) - k = lk + 1 + lb + lv + 2
  BY <1>5
<1>14. IsHeaderLine(t, q, i)
  <2>1. PICK colon, lws, end, begin : colon = q.colon[i] /\ lws = q.lws[i] /\ end = q.end[i] /\ begin = q.end[i - 1]
    OBVIOUS
  <2>2. colon = c + 1 /\ lws = b /\ end = d + 2 /\ begin = k
    BY <1>6, <2>1
  <2>3. /\ colon \in Nat /\ begin + 2 <= colon
        /\ lws \in Nat /\ colon <= lws /\ lws + 2 <= end
    BY <1>12, <2>2
  <2>4. /\ \A j \in (begin + 1)..(colon - 1) : t[j].ch \in NameChars
        /\ t[colon].ch = "colon"
        /\ \A j \in (colon + 1)..lws : t[j].ch \in {"sp", "tab"}
        /\ \A j \in (lws + 1)..(end - 2) : t[j].ch \notin Ctl
    BY <1>7, <1>8, <1>9, <1>10, <1>12, <2>2
  <2>5. /\ lws + 1 < end - 1 => t[lws + 1].ch # "sp"
        /\ t[end - 1].ch = "cr" /\ t[end].ch = "lf" /\ t[end].length = h.length
    BY <1>7, <1>11, <1>12, <2>2
  <2> QED BY <2>1, <2>3, <2>4, <2>5 DEF IsHeaderLine
<1> QED BY <1>6, <1>7, <1>13, <1>14

\* The length that the headers announce is the one that counts.
LEMMA LengthAnnounced ==
  ASSUME NEW m, NEW n \in Nat, NEW headers \in [1..n -> HeaderLines], NEW len, len[0] = NoLength,
         \A i \in 1..n : len[i] = IF len[i - 1] = NoLength THEN headers[i].length ELSE len[i - 1]
  PROVE  LengthOf(m, headers) = IF m = "Post" /\ len[n] \in Lengths THEN len[n] ELSE 0
<1> DEFINE Silent(i) == \A j \in 1..i : headers[j].length = NoLength
<1> DEFINE P(i) == \/ Silent(i) /\ len[i] = NoLength
                   \/ \E f \in 1..i : /\ headers[f].length # NoLength /\ len[i] = headers[f].length
                                      /\ Silent(f - 1)
<1> DEFINE D == {i \in Nat : i <= n => P(i)}
<1>1. 0 \in D
  OBVIOUS
<1>2. ASSUME NEW i \in Nat, i \in D PROVE i + 1 \in D
  <2> SUFFICES ASSUME i + 1 <= n PROVE P(i + 1)
    <3> HIDE DEF P
    <3> QED OBVIOUS
  <2>0. P(i)
    <3> HIDE DEF P
    <3>1. i <= n
      OBVIOUS
    <3> QED BY <3>1, <1>2
  <2>1. i <= n /\ i + 1 \in 1..n /\ (i + 1) - 1 = i /\ i + 1 \in 1..(i + 1)
    OBVIOUS
  <2>2. len[i + 1] = IF len[i] = NoLength THEN headers[i + 1].length ELSE len[i]
    BY <2>1
  <2>3. Silent(i) /\ headers[i + 1].length = NoLength => Silent(i + 1)
    <3>1. \A j \in 1..(i + 1) : j \in 1..i \/ j = i + 1
      OBVIOUS
    <3> QED BY <3>1
  <2> HIDE DEF Silent
  <2>4. CASE Silent(i) /\ len[i] = NoLength
    BY <2>1, <2>2, <2>3, <2>4
  <2>5. CASE ~(Silent(i) /\ len[i] = NoLength)
    <3>1. PICK f \in 1..i : headers[f].length # NoLength /\ len[i] = headers[f].length /\ Silent(f - 1)
      BY <2>0, <2>5
    <3>2. f \in 1..(i + 1) /\ len[i + 1] = headers[f].length
      BY <2>2, <3>1
    <3> QED BY <3>1, <3>2
  <2> QED BY <2>4, <2>5
<1>3. \/ Silent(n) /\ len[n] = NoLength
      \/ \E f \in 1..n : headers[f].length # NoLength /\ len[n] = headers[f].length /\ Silent(f - 1)
  <2>1. n \in D
    <3> HIDE DEF D
    <3> QED BY <1>1, <1>2, NatSet
  <2>2. P(n)
    <3> HIDE DEF P
    <3> QED BY <2>1
  <2> QED BY <2>2
<1> DEFINE said == {i \in DOMAIN headers : headers[i].length # NoLength}
<1>4. DOMAIN headers = 1..n
  OBVIOUS
<1>5. CASE Silent(n) /\ len[n] = NoLength
  <2>1. said = {}
    BY <1>4, <1>5
  <2>2. NoLength \notin Lengths
    BY MaxBodyAssumption DEF NoLength, Lengths
  <2> QED BY <1>5, <2>1, <2>2 DEF LengthOf
<1>6. ASSUME NEW f \in 1..n, headers[f].length # NoLength, len[n] = headers[f].length, Silent(f - 1)
      PROVE  LengthOf(m, headers) = IF m = "Post" /\ len[n] \in Lengths THEN len[n] ELSE 0
  <2>1. f \in said /\ \A j \in said : f <= j
    <3>1. f \in said
      BY <1>4, <1>6
    <3>2. ASSUME NEW j \in said, ~(f <= j) PROVE FALSE
      <4>1. j \in 1..(f - 1)
        BY <1>4, <3>2
      <4> QED BY <4>1, <1>6
    <3> QED BY <3>1, <3>2
  <2>2. said \subseteq Nat /\ said # {}
    <3>1. said \subseteq 1..n
      BY <1>4
    <3> QED BY <3>1, <2>1
  <2> HIDE DEF said
  <2>3. Min(said) = f
    <3>1. \A x \in said : (\A y \in said : x <= y) => x = f
      BY <2>1, <2>2
    <3> QED BY <2>1, <3>1 DEF Min
  <2>4. LengthOf(m, headers) = IF m = "Post" /\ said # {} /\ headers[Min(said)].length \in Lengths
                               THEN headers[Min(said)].length ELSE 0
    BY DEF LengthOf, said
  <2> QED BY <1>6, <2>2, <2>3, <2>4
<1> HIDE DEF Silent
<1> QED BY <1>3, <1>5, <1>6

LEMMA LineLength ==
  ASSUME NEW h \in HeaderLines
  PROVE  \E lk \in Nat, lb \in Nat, lv \in Nat :
            /\ lk = Len(h.key) /\ lb = Len(h.blanks) /\ lv = Len(h.value)
            /\ HasLength(CharText, LineText(h), lk + 1 + lb + lv + 2)
<1>1. h.key \in Seq(NameChars) /\ h.blanks \in Seq({"sp", "tab"}) /\ h.value \in Seq(Chars \ Ctl)
  BY GrammarAssumption DEF HeaderLines
<1>2. NameChars \subseteq Chars /\ {"sp", "tab"} \subseteq Chars
  BY DEF NameChars, Chars, Special
<1>3. PICK lk \in Nat, lb \in Nat, lv \in Nat :
         HasLength(Chars, h.key, lk) /\ HasLength(Chars, h.blanks, lb) /\ HasLength(Chars, h.value, lv)
  BY <1>1, <1>2 DEF HasLength
<1>4. PICK c \in Nat, b \in Nat, d \in Nat : c = 0 + lk /\ b = c + 1 + lb /\ d = b + lv
  <2>1. 0 + lk \in Nat /\ (0 + lk) + 1 + lb \in Nat /\ ((0 + lk) + 1 + lb) + lv \in Nat
    OBVIOUS
  <2> QED BY <2>1
<1>5. PICK t : t = LineText(h)
  OBVIOUS
<1>6. IsAtPlace(t, 0, LineText(h))
  BY <1>5 DEF IsAtPlace
<1>7. HasLength(CharText, LineText(h), lk + 1 + lb + lv + 2)
  BY <1>3, <1>4, <1>6, HeaderLinePlaces
<1>8. lk = Len(h.key) /\ lb = Len(h.blanks) /\ lv = Len(h.value)
  BY <1>3 DEF HasLength
<1> QED BY <1>7, <1>8

\* Every text of the grammar is a request.
LEMMA TextIsRequest ==
  ASSUME NEW m \in Methods \ {"Unknown"}, NEW headers \in Fitting, NEW t \in Requests(m, headers)
  PROVE  \E q : IsRequest(t, m, q) /\ t[q.word + 1].method = m
<1>1. PICK word \in Words, uri \in Uris, minor \in Minors, body \in [1..LengthOf(m, headers) -> BodyChars] :
         t = FirstLine(m, word, uri, minor) \o Section(headers) \o Plain(body)
  BY DEF Requests
<1>2. PICK n \in Nat : headers \in [1..n -> HeaderLines] /\ Len(headers) = n
  BY GrammarAssumption DEF Fitting
<1>3. Len(Section(headers)) <= MaxHeaders
  BY DEF Fitting
<1> DEFINE lines == [i \in 1..n |-> LineText(headers[i])]
<1>4. lines \in [1..n -> Seq(CharText)]
  <2>1. \A h \in HeaderLines : LineText(h) \in Seq(CharText)
    BY LineLength DEF HasLength
  <2> QED BY <1>2, <2>1
<1>5. lines \in Seq(Seq(CharText)) /\ Len(lines) = n
  BY <1>4
<1>6. Section(headers) = Cat(FlattenSeq(lines), LineEnd(NoLength))
  BY <1>2 DEF Section, Cat
<1>7. PICK part \in [0..n -> Seq(CharText)] :
         /\ part[0] = <<>>
         /\ \A i \in 1..n : part[i] = Cat(part[i - 1], lines[i])
         /\ FlattenSeq(lines) = part[n]
  <2>1. \E part \in [0..Len(lines) -> Seq(CharText)] :
            /\ part[0] = <<>>
            /\ \A i \in 1..Len(lines) : part[i] = Cat(part[i - 1], lines[i])
            /\ FlattenSeq(lines) = part[Len(lines)]
    BY <1>5, FlattenParts
  <2> QED BY <2>1, <1>5
<1>8. \A i \in 1..n : lines[i] = LineText(headers[i]) /\ headers[i] \in HeaderLines
  BY <1>2
<1> HIDE DEF lines
\* What the first headers say of the body.
<1>9. PICK len \in [0..n -> Int] :
         /\ len[0] = NoLength
         /\ \A i \in 1..n : len[i] = IF len[i - 1] = NoLength THEN headers[i].length ELSE len[i - 1]
  <2> DEFINE step == [i \in 1..n |-> [x \in Int |-> IF x = NoLength THEN headers[i].length ELSE x]]
  <2>1. \A i \in 1..n : headers[i].length \in Int
    <3> TAKE i \in 1..n
    <3>1. headers[i].length \in Announced
      BY <1>8 DEF HeaderLines
    <3>2. Lengths \subseteq Int /\ NoLength \in Int /\ InvalidLength \in Int
      BY MaxBodyAssumption DEF Lengths, NoLength, InvalidLength
    <3> QED BY <3>1, <3>2, GrammarAssumption
  <2>2. step \in [1..n -> [Int -> Int]] /\ NoLength \in Int
    BY <2>1 DEF NoLength
  <2>3. PICK f \in [0..n -> Int] : Recurs(f, n, NoLength, step)
    <3> HIDE DEF step
    <3> QED BY <2>2, Recursion
  <2>4. \A i \in 1..n : i - 1 \in 0..n
    OBVIOUS
  <2>5. \A i \in 1..n : f[i] = step[i][f[i - 1]] /\ f[i - 1] \in Int
    BY <2>3, <2>4 DEF Recurs
  <2> QED BY <2>3, <2>5 DEF Recurs
\* The places.
<1>10. PICK w \in Nat, lu \in Nat, lm \in Nat : w = Len(word) /\ lu = Len(uri) /\ lm = Len(minor)
  BY GrammarAssumption
<1>11. PICK u \in Nat, v \in Nat : u = w + 1 + lu /\ v = u + 8 + lm
  <2>1. w + 1 + lu \in Nat /\ (w + 1 + lu) + 8 + lm \in Nat
    OBVIOUS
  <2> QED BY <2>1
<1> DEFINE end == [i \in 0..n |-> (v + 2) + Len(part[i])]
<1> DEFINE colon == [i \in 1..n |-> end[i - 1] + Len(headers[i].key) + 1]
<1> DEFINE lws == [i \in 1..n |-> colon[i] + Len(headers[i].blanks)]
<1> DEFINE q == [word |-> w, uri |-> u, minor |-> v, n |-> n, end |-> end, colon |-> colon,
                lws |-> lws, len |-> len]
<1>12. /\ q.word = w /\ q.uri = u /\ q.minor = v /\ q.n = n /\ q.end = end /\ q.colon = colon
       /\ q.lws = lws /\ q.len = len
  OBVIOUS
<1>13. \A i \in 0..n : end[i] = (v + 2) + Len(part[i]) /\ end[i] \in Nat
  OBVIOUS
<1>14. \A i \in 1..n : /\ colon[i] = end[i - 1] + Len(headers[i].key) + 1
                       /\ lws[i] = colon[i] + Len(headers[i].blanks)
  OBVIOUS
<1> HIDE DEF q, end, colon, lws
\* The parts of the text.
<1> DEFINE first == FirstLine(m, word, uri, minor)
<1>15. HasLength(CharText, first, v + 2)
  <2>1. PICK s : s = first
    OBVIOUS
  <2>2. IsAtPlace(s, 0, first)
    BY <2>1 DEF IsAtPlace
  <2>3. FirstLineIn(q, word, uri, minor)
    BY <1>10, <1>11, <1>12 DEF FirstLineIn
  <2>4. m \in Methods /\ IsAtPlace(s, 0, FirstLine(m, word, uri, minor))
    BY <2>2
  <2> HIDE DEF first
  <2>5. HasLength(CharText, FirstLine(m, word, uri, minor), q.minor + 2)
    BY <2>3, <2>4, FirstLineOfGrammar
  <2> QED BY <2>5, <1>12 DEF first
<1>16. PICK p \in Nat, s \in Nat : /\ HasLength(CharText, part[n], p) /\ HasLength(CharText, Section(headers), s)
                                 /\ s = p + 2 /\ s <= MaxHeaders /\ HasLength(CharText, LineEnd(NoLength), 2)
  <2>1. PICK p \in Nat : HasLength(CharText, part[n], p)
    BY <1>7 DEF HasLength
  <2>2. HasLength(CharText, LineEnd(NoLength), 2)
    BY LineEndText DEF HasLength
  <2>3. HasLength(CharText, Section(headers), p + 2)
    BY <1>6, <1>7, <2>1, <2>2, CatLength
  <2>4. p + 2 <= MaxHeaders
    BY <1>3, <2>3 DEF HasLength
  <2> QED BY <2>1, <2>2, <2>3, <2>4
<1>17. PICK l \in Nat : l = LengthOf(m, headers) /\ HasLength(CharText, Plain(body), l)
  <2>1. LengthOf(m, headers) \in Nat
    BY MaxBodyAssumption DEF LengthOf, Lengths
  <2>2. PICK l \in Nat : l = LengthOf(m, headers)
    BY <2>1
  <2>3. body \in [1..l -> Chars]
    BY <2>2, GrammarAssumption
  <2>4. body \in Seq(Chars) /\ Len(body) = l
    BY <2>3
  <2> QED BY <2>2, <2>4, PlainText DEF HasLength
<1>18. /\ IsAtPlace(t, 0, first) /\ IsAtPlace(t, v + 2, Section(headers))
       /\ HasLength(CharText, t, (v + 2) + s + l)
  <2> DEFINE head == Cat(first, Section(headers))
  <2>1. t = Cat(head, Plain(body))
    BY <1>1 DEF Cat
  <2>2. HasLength(CharText, head, (v + 2) + s)
    BY <1>15, <1>16, CatLength
  <2>3. IsAtPlace(t, 0, Cat(head, Plain(body)))
    BY <2>1 DEF IsAtPlace
  <2>4. head = Cat(first, Section(headers))
    OBVIOUS
  <2> HIDE DEF head, first
  <2>5. HasLength(CharText, t, ((v + 2) + s) + l)
    BY <2>1, <2>2, <1>17, CatLength
  <2>6. IsAtPlace(t, 0, head)
    BY <2>2, <2>3, <1>17, LastPart
  <2>7. IsAtPlace(t, 0, first) /\ IsAtPlace(t, v + 2, Section(headers))
    BY <2>4, <2>6, <1>15, <1>16, LastPart
  <2> QED BY <2>5, <2>7
<1>19. IsFirstLine(t, q) /\ t[q.word + 1].method = m
  <2>1. FirstLineIn(q, word, uri, minor)
    BY <1>10, <1>11, <1>12 DEF FirstLineIn
  <2>2. m \in Methods /\ IsAtPlace(t, 0, FirstLine(m, word, uri, minor))
    BY <1>18
  <2> HIDE DEF first
  <2>3. IsFirstLine(t, q)
    BY <2>1, <2>2, FirstLineOfGrammar
  <2>4. t[q.word + 1].method = m
    BY <2>1, <2>2, FirstLineOfGrammar
  <2> QED BY <2>3, <2>4
<1>20. IsAtPlace(t, v + 2, part[n]) /\ IsAtPlace(t, (v + 2) + p, LineEnd(NoLength))
  <2>1. Section(headers) = Cat(part[n], LineEnd(NoLength))
    BY <1>6, <1>7
  <2>2. IsAtPlace(t, v + 2, Cat(part[n], LineEnd(NoLength)))
    BY <2>1, <1>18
  <2> QED BY <2>2, <1>16, LastPart
<1>21. ASSUME NEW i \in 1..n PROVE IsHeaderLine(t, q, i)
  <2>1. i - 1 \in 0..n /\ i \in 0..n
    OBVIOUS
  <2>2. IsAtPlace(t, (v + 2) + Len(part[i - 1]), lines[i])
    <3>1. \A j \in 1..n : part[j] = Cat(part[j - 1], lines[j])
      BY <1>7
    <3>2. v + 2 \in Nat
      OBVIOUS
    <3>3. lines \in [1..n -> Seq(CharText)] /\ part \in [0..n -> Seq(CharText)] /\ IsAtPlace(t, v + 2, part[n])
      BY <1>4, <1>7, <1>20
    <3> QED BY <3>1, <3>2, <3>3, FlattenPlaces
  <2>3. PICK h \in HeaderLines, k \in Nat : h = headers[i] /\ k = end[i - 1]
    BY <2>1, <1>8, <1>13
  <2>4. IsAtPlace(t, k, LineText(h))
    BY <2>1, <2>2, <2>3, <1>8, <1>13
  <2>5. q.end[i - 1] = k /\ q.colon[i] = k + Len(h.key) + 1 /\ q.lws[i] = q.colon[i] + Len(h.blanks)
        /\ q.len[i] = IF q.len[i - 1] = NoLength THEN h.length ELSE q.len[i - 1]
    BY <2>3, <1>9, <1>12, <1>14
  <2>6. q.end[i] = q.lws[i] + Len(h.value) + 2
    <3>1. PICK lk \in Nat, lb \in Nat, lv \in Nat :
             /\ lk = Len(h.key) /\ lb = Len(h.blanks) /\ lv = Len(h.value)
             /\ HasLength(CharText, LineText(h), lk + 1 + lb + lv + 2)
      BY LineLength
    <3>4. PICK x \in Nat : HasLength(CharText, part[i - 1], x)
      <4>1. part[i - 1] \in Seq(CharText)
        BY <2>1
      <4>2. Len(part[i - 1]) \in Nat
        BY <4>1
      <4> QED BY <4>1, <4>2 DEF HasLength
    <3>5. HasLength(CharText, part[i], x + (lk + 1 + lb + lv + 2))
      <4>1. part[i] = Cat(part[i - 1], LineText(h))
        BY <1>7, <1>8, <2>3
      <4>2. PICK y \in Nat : y = lk + 1 + lb + lv + 2
        OBVIOUS
      <4>3. HasLength(CharText, LineText(h), y)
        BY <3>1, <4>2
      <4>4. HasLength(CharText, Cat(part[i - 1], LineText(h)), x + y)
        BY <3>4, <4>3, CatLength
      <4> QED BY <4>1, <4>2, <4>4
    <3>6. k = (v + 2) + x /\ q.end[i] = (v + 2) + (x + (lk + 1 + lb + lv + 2))
      <4>1. Len(part[i - 1]) = x /\ Len(part[i]) = x + (lk + 1 + lb + lv + 2)
        BY <3>4, <3>5 DEF HasLength
      <4> QED BY <4>1, <2>1, <2>3, <1>12, <1>13
    <3>7. q.colon[i] = k + lk + 1 /\ q.lws[i] = (k + lk + 1) + lb
      BY <2>5, <3>1
    <3>8. (v + 2) + (x + (lk + 1 + lb + lv + 2)) = ((((v + 2) + x) + lk + 1) + lb) + lv + 2
      OBVIOUS
    <3> QED BY <3>1, <3>6, <3>7, <3>8
  <2> QED BY <2>4, <2>5, <2>6, HeaderLineOfGrammar
<1>22. IsHead(t, q)
  <2>1. end[0] = v + 2 /\ end[n] = (v + 2) + p
    BY <1>7, <1>13, <1>16 DEF HasLength
  <2>2. \A i \in 0..n : end[i] \in Nat /\ end[i] <= end[n]
    <3>1. \A i \in 0..n : Len(part[i]) <= Len(part[n])
      BY <1>4, <1>7, PartsGrow
    <3> QED BY <3>1, <1>13
  <2>3. t[end[n] + 1].ch = "cr" /\ t[end[n] + 2].ch = "lf"
    BY <1>20, <2>1, LineEndPlace, SMTT(30)
  <2>4. end[n] + 2 - end[0] <= MaxHeaders
    BY <1>16, <2>1
  <2>5. q.end[0] = q.minor + 2 /\ q.len[0] = NoLength /\ q.n = n
    BY <1>9, <1>12, <2>1
  <2>6. \A i \in 0..q.n : q.end[i] \in Nat /\ q.end[i] <= q.end[q.n]
    BY <1>12, <2>2
  <2>7. t[q.end[q.n] + 1].ch = "cr" /\ t[q.end[q.n] + 2].ch = "lf" /\ q.end[q.n] + 2 - q.end[0] <= MaxHeaders
    BY <1>12, <2>3, <2>4
  <2> QED BY <1>21, <2>5, <2>6, <2>7 DEF IsHead
<1>23. BodyOf(m, q) = l
  <2>1. LengthOf(m, headers) = IF m = "Post" /\ len[n] \in Lengths THEN len[n] ELSE 0
    <3>1. headers \in [1..n -> HeaderLines]
      BY <1>2
    <3>2. /\ len[0] = NoLength
          /\ \A i \in 1..n : len[i] = IF len[i - 1] = NoLength THEN headers[i].length ELSE len[i - 1]
      BY <1>9
    <3> QED BY <3>1, <3>2, LengthAnnounced
  <2>2. q.len[q.n] = len[n]
    BY <1>12
  <2> QED BY <2>1, <2>2, <1>17 DEF BodyOf
<1>24. Len(t) = q.end[q.n] + 2 + BodyOf(m, q)
  <2>1. end[n] = (v + 2) + p
    BY <1>13, <1>16 DEF HasLength
  <2>2. Len(t) = (v + 2) + s + l
    BY <1>18 DEF HasLength
  <2> QED BY <2>1, <2>2, <1>12, <1>16, <1>23
<1>25. IsRequest(t, m, q)
  BY <1>19, <1>22, <1>24 DEF IsRequest
<1> QED BY <1>19, <1>25

\* In the mode "text", the parser has read the first pos characters of a request.
TextIsRead ==
    mode = "text" =>
        \E m, q : /\ IsRequest(text, m, q) /\ text[q.word + 1].method = m
                 /\ Reads(text, m, q) /\ pos = consumed

LEMMA RequestAtStart ==
  ASSUME NEW t, NEW m, NEW q, IsRequest(t, m, q), ParserInit
  PROVE  Reads(t, m, q)
<1>1. q.word \in Nat \ {0} /\ q.uri \in Nat /\ q.word < q.uri /\ q.minor \in Nat /\ q.uri + 9 <= q.minor
  BY DEF IsRequest, IsFirstLine
<1>2. /\ q.end[q.n] \in Nat /\ BodyOf(m, q) \in Nat
      /\ Len(t) = q.end[q.n] + 2 + BodyOf(m, q)
  BY MaxBodyAssumption DEF IsRequest, IsHead, BodyOf, Lengths
<1>3. LineReads(m, q)
  BY <1>1 DEF ParserInit, LineReads
<1>4. 0 <= Len(t) /\ Len(t) # 0
  BY <1>2
<1> QED BY <1>3, <1>4 DEF ParserInit, Reads

LEMMA TextStaysRead == TextIsRead /\ [GrammarNext]_grammarVars => TextIsRead'
<1> SUFFICES ASSUME TextIsRead, [GrammarNext]_grammarVars, mode' = "text"
             PROVE  TextIsRead'
  BY DEF TextIsRead
<1>1. mode = "text" /\ text' = text
  BY DEF GrammarNext, grammarVars
<1>2. PICK t : t = text
  OBVIOUS
<1>3. PICK m, q : /\ IsRequest(t, m, q) /\ t[q.word + 1].method = m
                  /\ Reads(t, m, q) /\ pos = consumed
  BY <1>1, <1>2 DEF TextIsRead
<1>4. Reads(t, m, q)' /\ pos' = consumed'
  <2>1. CASE UNCHANGED grammarVars
    <3>1. UNCHANGED <<state, result, consumed, pos>> /\ UNCHANGED lineVars /\ UNCHANGED headerVars /\ UNCHANGED bodyVars
      BY <2>1 DEF grammarVars, parserVars
    <3>2. LineReads(m, q) => LineReads(m, q)'
      BY <3>1 DEF lineVars, headerVars, bodyVars, LineReads
    <3>3. HeaderReads(m, q) => HeaderReads(m, q)'
      BY <3>1 DEF lineVars, headerVars, bodyVars, HeaderReads
    <3>4. BodyReads(m, q) => BodyReads(m, q)'
      BY <3>1 DEF lineVars, headerVars, bodyVars, BodyReads
    <3> QED BY <1>3, <3>1, <3>2, <3>3, <3>4 DEF Reads
  <2>2. CASE GrammarNext
    <3>1. pos' = pos + 1 /\ ParseChar(t[pos'].ch, t[pos'].method, t[pos'].length)
      BY <1>1, <1>2, <2>2 DEF GrammarNext
    <3>2. ReadNext(t, m, q)
      <4>1. ParseChar(t[consumed + 1].ch, t[consumed + 1].method, t[consumed + 1].length)
        BY <1>3, <3>1
      <4>2. consumed = q.word => t[consumed + 1].method = m
        BY <1>3
      <4> QED BY <4>1, <4>2 DEF ReadNext
    <3>3. consumed' = consumed + 1
      BY <3>1 DEF ParseChar
    <3> QED BY <1>3, <3>1, <3>2, <3>3, RequestRead
  <2> QED BY <2>1, <2>2
<1>5. text' = t
  BY <1>1, <1>2
<1> QED BY <1>3, <1>4, <1>5 DEF TextIsRead

\* Every text of the grammar is accepted with its last character and not before,
\* whatever its words, headers and body and the sizes of the buffers it fits.
THEOREM AcceptsGrammarCorrect == GrammarSpec => []AcceptsGrammar
<1>1. GrammarInit => TextIsRead
  <2> SUFFICES ASSUME GrammarInit, mode = "text" PROVE TextIsRead
    BY DEF TextIsRead
  <2>1. ParserInit /\ pos = 0 /\ text \in Texts
    BY DEF GrammarInit
  <2>2. PICK m \in Methods \ {"Unknown"}, headers \in Fitting : text \in Requests(m, headers)
    BY <2>1 DEF Texts
  <2>3. PICK q : IsRequest(text, m, q) /\ text[q.word + 1].method = m
    BY <2>2, TextIsRequest
  <2>4. Reads(text, m, q)
    BY <2>1, <2>3, RequestAtStart
  <2>5. consumed = 0
    BY <2>1 DEF ParserInit
  <2> QED BY <2>1, <2>3, <2>4, <2>5 DEF TextIsRead
<1>2. TextIsRead => AcceptsGrammar
  BY DEF TextIsRead, Reads, AcceptsGrammar
<1> QED BY <1>1, <1>2, TextStaysRead, PTL DEF GrammarSpec
=============================================================================
