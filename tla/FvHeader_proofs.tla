--------------------------- MODULE FvHeader_proofs ---------------------------
(***************************************************************************)
(* What the check of a header makes of the header that is written, and of  *)
(* one that has changed since.  The sum of the words is defined step by    *)
(* step, so the facts about it are proved by induction, over a set of      *)
(* numbers.  They are stated of any number of words, and the size of a     *)
(* word stays a name in them; only the last lemmas speak of 50 words.      *)
(***************************************************************************)
EXTENDS FvHeader, WellFoundedInduction, SequenceTheorems, TLAPS

\* A smaller number is below in the order that the library shows well-founded.
LEMMA NatBelow ==
    ASSUME NEW m \in Nat, NEW n \in Nat, m < n
    PROVE  <<m, n>> \in OpToRel(<, Nat)
  BY DEF OpToRel

\* A set with 0 and the successor of each of its numbers holds them all.
LEMMA Induction ==
    ASSUME NEW S, 0 \in S, \A n \in S \cap Nat : n + 1 \in S
    PROVE  Nat \subseteq S
<1> SUFFICES ASSUME Nat \ S # {} PROVE FALSE
  OBVIOUS
<1> DEFINE R == OpToRel(<, Nat)
<1>1. IsWellFoundedOn(R, Nat)
  BY NatLessThanWellFounded
<1> HIDE DEF R
<1>2. PICK least \in Nat \ S : \A y \in Nat \ S : <<y, least>> \notin R
  <2>1. Nat \ S \subseteq Nat
    OBVIOUS
  <2> QED BY <1>1, <2>1, WFMin, Zenon
<1>3. least # 0 /\ least - 1 \in Nat /\ least - 1 < least
  BY <1>2
<1>4. <<least - 1, least>> \in R
  <2>1. least \in Nat
    BY <1>2
  <2> QED BY <1>3, <2>1, NatBelow, Zenon DEF R
<1>5. least - 1 \in S \cap Nat
  BY <1>2, <1>3, <1>4, Zenon
<1>6. (least - 1) + 1 \in S
  BY <1>5
<1>7. (least - 1) + 1 = least
  BY <1>2
<1> QED
  BY <1>2, <1>6, <1>7

(* Induction up to a bound, over the numbers of a set.                     *)
LEMMA BoundedInduction ==
    ASSUME NEW bound \in Nat, NEW S, 0 \in S,
           \A k \in Nat : k \in S /\ k + 1 <= bound => k + 1 \in S
    PROVE  0 .. bound \subseteq S
<1> DEFINE T == {k \in Nat : k <= bound => k \in S}
<1>1. 0 \in T
  OBVIOUS
<1>2. ASSUME NEW k \in T \cap Nat PROVE k + 1 \in T
  BY <1>2
<1>3. Nat \subseteq T
  <2> HIDE DEF T
  <2> QED BY <1>1, <1>2, Induction
<1> QED BY <1>3

-----------------------------------------------------------------------------
\* n words.
Words(n) == [1 .. n -> Uint16]

\* A header is 50 words.
LEMMA WordsOfHeader == Header = Words(50)
<1>1. 100 \div 2 = 50
  BY SMT
<1>2. HeadersLength = 100
  BY SMT DEF HeadersLength, VolumeHeaderSize, StoreHeaderSize
<1> QED BY <1>1, <1>2, Zenon DEF Header, Words

\* So it has 50 places.
LEMMA HeaderDomain == ASSUME NEW h \in Header PROVE DOMAIN h = 1 .. 50
  BY WordsOfHeader, Zenon DEF Words

\* What is below the word size is a word, and a word is below it.
LEMMA IsWord ==
    /\ WordSize \in Nat \ {0}
    /\ Uint16 \subseteq Nat
    /\ \A x \in Uint16 : x < WordSize
    /\ \A x \in Nat : x < WordSize => x \in Uint16
<1>1. WordSize \in Nat \ {0}
  BY SMT DEF WordSize
<1>2. Uint16 = 0 .. WordSize - 1
  BY Zenon DEF Uint16
<1> QED BY <1>1, <1>2, SMT

\* The remainder of a number is a word.
LEMMA RemainderIsWord ==
    ASSUME NEW x \in Nat PROVE x % WordSize \in Uint16
<1>1. x % WordSize \in 0 .. WordSize - 1
  BY IsWord, SMT
<1> QED BY <1>1, Zenon DEF Uint16

-----------------------------------------------------------------------------
\* The sum of two words.
Plus(x, y) == (x + y) % WordSize

\* The sum of two words is a word.
LEMMA PlusIsWord ==
    ASSUME NEW x \in Uint16, NEW y \in Uint16 PROVE Plus(x, y) \in Uint16
<1>1. x + y \in Nat
  <2>1. x \in Nat /\ y \in Nat
    BY IsWord, Zenon
  <2> QED BY <2>1, SMT
<1> QED BY <1>1, RemainderIsWord, Zenon DEF Plus

\* A number below the word size is its own remainder.
LEMMA BelowWord ==
    ASSUME NEW x \in Int, 0 <= x, x < WordSize PROVE x % WordSize = x
  BY SMT DEF WordSize

\* A number past the word size by less than a word wraps once.
LEMMA PastWord ==
    ASSUME NEW x \in Int, WordSize <= x, x < WordSize + WordSize
    PROVE  x % WordSize = x - WordSize
  BY SMTT(60) DEF WordSize

\* The sum of two words wraps at most once.
LEMMA WrapsOnce ==
    ASSUME NEW x \in Uint16, NEW y \in Uint16
    PROVE  Plus(x, y) = IF x + y < WordSize THEN x + y ELSE (x + y) - WordSize
<1>1. /\ x \in Int /\ 0 <= x /\ x < WordSize
      /\ y \in Int /\ 0 <= y /\ y < WordSize
      /\ WordSize \in Int
  <2>1. x \in Nat /\ x < WordSize /\ y \in Nat /\ y < WordSize /\ WordSize \in Nat
    BY IsWord, Zenon
  <2> QED BY <2>1, SMT
<1> DEFINE z == x + y
<1>2. z \in Int /\ 0 <= z /\ z < WordSize + WordSize
  BY <1>1, SMT
<1> HIDE DEF z
<1>3. CASE z < WordSize
  BY <1>2, <1>3, BelowWord, Zenon DEF Plus, z
<1>4. CASE ~(z < WordSize)
  <2>1. WordSize <= z
    BY <1>1, <1>2, <1>4, SMT
  <2>2. z % WordSize = z - WordSize
    BY <1>2, <2>1, PastWord, Zenon
  <2> QED BY <1>4, <2>2, Zenon DEF Plus, z
<1> QED BY <1>3, <1>4, Zenon

\* Adding words commutes.
LEMMA PlusCommutes ==
    ASSUME NEW a \in Uint16, NEW b \in Uint16, NEW d \in Uint16
    PROVE  /\ Plus(a, Plus(b, d)) = Plus(Plus(a, b), d)
           /\ Plus(Plus(a, d), b) = Plus(Plus(a, b), d)
<1> DEFINE ab == Plus(a, b)
           ad == Plus(a, d)
           bd == Plus(b, d)
<1>1. ab \in Uint16 /\ ad \in Uint16 /\ bd \in Uint16
  BY PlusIsWord, Zenon
<1>2. /\ ab = IF a + b < WordSize THEN a + b ELSE (a + b) - WordSize
      /\ ad = IF a + d < WordSize THEN a + d ELSE (a + d) - WordSize
      /\ bd = IF b + d < WordSize THEN b + d ELSE (b + d) - WordSize
  BY WrapsOnce, Zenon
<1> HIDE DEF ab, ad, bd
<1> DEFINE l == Plus(a, bd)
           m == Plus(ad, b)
           r == Plus(ab, d)
<1>3. /\ l = IF a + bd < WordSize THEN a + bd ELSE (a + bd) - WordSize
      /\ m = IF ad + b < WordSize THEN ad + b ELSE (ad + b) - WordSize
      /\ r = IF ab + d < WordSize THEN ab + d ELSE (ab + d) - WordSize
  BY <1>1, WrapsOnce, Zenon
<1>4. /\ a \in Nat /\ b \in Nat /\ d \in Nat /\ WordSize \in Nat
      /\ a < WordSize /\ b < WordSize /\ d < WordSize
  BY IsWord, Zenon
<1> HIDE DEF l, m, r
<1>5. l = r /\ m = r
  BY <1>2, <1>3, <1>4, SMT
<1> QED BY <1>5, Zenon DEF l, m, r, ab, ad, bd

\* Zero adds nothing.
LEMMA PlusZero ==
    ASSUME NEW d \in Uint16 PROVE Plus(0, d) = d
<1>1. d \in Int /\ 0 <= d /\ d < WordSize
  <2>1. d \in Nat /\ d < WordSize
    BY IsWord, Zenon
  <2> QED BY <2>1, SMT
<1>2. 0 + d = d
  BY <1>1, SMT
<1> QED BY <1>1, <1>2, BelowWord, Zenon DEF Plus

\* The word that brings a sum to zero.
LEMMA Complement ==
    ASSUME NEW a \in Uint16
    PROVE  /\ (WordSize - a) % WordSize \in Uint16
           /\ Plus(a, (WordSize - a) % WordSize) = 0
<1> DEFINE e == WordSize - a
           d == e % WordSize
<1>1. a \in Nat /\ a < WordSize /\ WordSize \in Nat \ {0}
  BY IsWord, Zenon
<1>2. e \in Nat /\ e \in Int /\ 0 <= e /\ e <= WordSize
  BY <1>1, SMT
<1>3. d \in Uint16
  BY <1>2, RemainderIsWord, Zenon
<1>4. WordSize % WordSize = 0 /\ 0 % WordSize = 0
  BY SMT DEF WordSize
<1>5. CASE a = 0
  <2>1. e = WordSize
    BY <1>1, <1>5, SMT
  <2>2. d = 0
    BY <1>4, <2>1, Zenon
  <2>3. 0 + 0 = 0
    BY SMT
  <2> HIDE DEF d
  <2>4. Plus(a, d) = 0
    BY <1>4, <1>5, <2>2, <2>3, Zenon DEF Plus
  <2> QED BY <1>3, <2>4, Zenon DEF d
<1>6. CASE a # 0
  <2>1. e < WordSize /\ a + e = WordSize
    BY <1>1, <1>6, SMT
  <2> HIDE DEF e
  <2>2. d = e
    BY <1>2, <2>1, BelowWord, Zenon
  <2> HIDE DEF d
  <2>3. Plus(a, d) = 0
    BY <1>4, <2>1, <2>2, Zenon DEF Plus
  <2> QED BY <1>3, <2>3, Zenon DEF d, e
<1> QED BY <1>5, <1>6, Zenon

\* Two words that differ are apart by a word that is not zero.
LEMMA Apart ==
    ASSUME NEW a \in Uint16, NEW b \in Uint16, a # b
    PROVE  \E d \in Uint16 : d # 0 /\ a = Plus(b, d)
<1> DEFINE d == IF a > b THEN a - b ELSE (WordSize + a) - b
<1>1. /\ a \in Nat /\ b \in Nat /\ WordSize \in Nat
      /\ a < WordSize /\ b < WordSize
  BY IsWord, Zenon
<1>2. d \in Nat /\ d < WordSize /\ d # 0
  BY <1>1, SMT
<1>3. b + d = a \/ b + d = WordSize + a
  BY <1>1, SMT
<1> HIDE DEF d
<1>4. d \in Uint16
  BY <1>2, IsWord, Zenon
<1> DEFINE p == Plus(b, d)
<1>5. p = IF b + d < WordSize THEN b + d ELSE (b + d) - WordSize
  BY <1>4, WrapsOnce, Zenon
<1> HIDE DEF p
<1>6. p = a
  BY <1>1, <1>3, <1>5, SMT
<1> QED BY <1>2, <1>4, <1>6, Zenon DEF p

-----------------------------------------------------------------------------
\* Each of n words is a word.
LEMMA WordIn ==
    ASSUME NEW n \in Nat, NEW h \in Words(n), NEW i \in 1 .. n PROVE h[i] \in Uint16
  BY Zenon DEF Words

\* CalculateSum16's running sum over the first n words.
IsSum(s, h, n) == s = [i \in 0 .. n |-> IF i = 0 THEN 0 ELSE (s[i - 1] + h[i]) % WordSize]

\* It starts at zero and adds a word at every step.
Stepwise(s, h, n) ==
    /\ s = [k \in 0 .. n |-> s[k]]
    /\ s[0] = 0
    /\ \A k \in Nat : k + 1 <= n => s[k + 1] = Plus(s[k], h[k + 1])

\* A running sum is stepwise.
LEMMA SumSteps ==
    ASSUME NEW h, NEW n \in Nat, NEW s, IsSum(s, h, n) PROVE Stepwise(s, h, n)
<1> DEFINE Step(i) == IF i = 0 THEN 0 ELSE (s[i - 1] + h[i]) % WordSize
<1>1. s = [i \in 0 .. n |-> Step(i)]
  BY Zenon DEF IsSum
<1> HIDE DEF Step
<1>2. /\ s = [k \in 0 .. n |-> s[k]]
      /\ \A i \in 0 .. n : s[i] = Step(i)
  BY <1>1, Zenon
<1>3. 0 \in 0 .. n
  BY SMT
<1>4. s[0] = 0
  BY <1>2, <1>3, Zenon DEF Step
<1>5. ASSUME NEW k \in Nat, k + 1 <= n PROVE s[k + 1] = Plus(s[k], h[k + 1])
  <2>1. k + 1 \in 0 .. n /\ k + 1 # 0 /\ (k + 1) - 1 = k
    BY <1>5, SMT
  <2> QED BY <1>2, <2>1, Zenon DEF Step, Plus
<1> QED BY <1>2, <1>4, <1>5, Zenon DEF Stepwise

\* What starts at zero and adds a word at every step is the sum.
LEMMA StepsAreSum ==
    ASSUME NEW h, NEW n \in Nat, NEW s, Stepwise(s, h, n) PROVE IsSum(s, h, n)
<1> DEFINE Step(i) == IF i = 0 THEN 0 ELSE (s[i - 1] + h[i]) % WordSize
<1>1. ASSUME NEW i \in 0 .. n PROVE s[i] = Step(i)
  <2>1. CASE i = 0
    BY <2>1, Zenon DEF Stepwise
  <2>2. CASE i # 0
    <3>1. i - 1 \in Nat /\ (i - 1) + 1 = i /\ i <= n
      BY <2>2, SMT
    <3>2. s[i] = Plus(s[i - 1], h[i])
      BY <3>1, Zenon DEF Stepwise
    <3> QED BY <2>2, <3>2, Zenon DEF Plus
  <2> QED BY <2>1, <2>2, Zenon
<1> HIDE DEF Step
<1>2. s = [i \in 0 .. n |-> Step(i)]
  BY <1>1, Zenon DEF Stepwise
<1> QED BY <1>2, Zenon DEF IsSum, Step

(* A running sum goes one word further.                                    *)
LEMMA SumGrows ==
    ASSUME NEW k \in Nat, NEW h \in Words(k + 1), NEW s \in [0 .. k -> Uint16], IsSum(s, h, k)
    PROVE  \E t \in [0 .. k + 1 -> Uint16] : IsSum(t, h, k + 1)
<1> DEFINE t == [i \in 0 .. k + 1 |-> IF i <= k THEN s[i] ELSE Plus(s[k], h[k + 1])]
<1>1. /\ \A i \in 0 .. k + 1 : i <= k => i \in 0 .. k
      /\ k \in 0 .. k /\ k + 1 \in 1 .. k + 1 /\ k + 1 \in Nat
      /\ 0 \in 0 .. k + 1 /\ 0 <= k /\ k + 1 \in 0 .. k + 1 /\ ~(k + 1 <= k)
  BY SMT
<1>2. Plus(s[k], h[k + 1]) \in Uint16
  BY <1>1, PlusIsWord, WordIn, Zenon
<1>3. t \in [0 .. k + 1 -> Uint16]
  BY <1>1, <1>2, Zenon
<1>4. /\ t = [i \in 0 .. k + 1 |-> t[i]]
      /\ \A i \in 0 .. k + 1 : i <= k => t[i] = s[i]
      /\ t[k + 1] = Plus(s[k], h[k + 1])
  BY <1>1, Zenon
<1> HIDE DEF t
<1>5. Stepwise(s, h, k)
  BY SumSteps, Zenon
<1>6. t[0] = 0
  BY <1>1, <1>4, <1>5, Zenon DEF Stepwise
<1>7. ASSUME NEW i \in Nat, i + 1 <= k + 1 PROVE t[i + 1] = Plus(t[i], h[i + 1])
  <2>1. i \in 0 .. k + 1 /\ i <= k /\ i + 1 \in 0 .. k + 1 /\ (i + 1 <= k \/ i = k)
    BY <1>7, SMT
  <2>2. t[i] = s[i]
    BY <1>4, <2>1, Zenon
  <2>3. CASE i + 1 <= k
    BY <1>4, <1>5, <2>1, <2>2, <2>3, Zenon DEF Stepwise
  <2>4. CASE i = k
    BY <1>4, <2>2, <2>4, Zenon
  <2> QED BY <2>1, <2>3, <2>4, Zenon
<1>8. IsSum(t, h, k + 1)
  <2>1. Stepwise(t, h, k + 1)
    BY <1>4, <1>6, <1>7, Zenon DEF Stepwise
  <2> QED BY <1>1, <2>1, StepsAreSum, Zenon
<1> QED BY <1>3, <1>8, Zenon

\* The first of n words are words.
LEMMA FirstWords ==
    ASSUME NEW n \in Nat, NEW h \in Words(n), NEW k \in Nat, k <= n
    PROVE  [i \in 1 .. k |-> h[i]] \in Words(k)
<1>1. \A i \in 1 .. k : i \in 1 .. n
  BY SMT
<1> QED BY <1>1, WordIn, Zenon DEF Words

\* The sum over the first words does not tell the words behind them.
LEMMA SumOfFirst ==
    ASSUME NEW h, NEW g, NEW k \in Nat, NEW s, \A i \in 1 .. k : g[i] = h[i], IsSum(s, g, k)
    PROVE  IsSum(s, h, k)
<1>1. ASSUME NEW i \in Nat, i + 1 <= k PROVE g[i + 1] = h[i + 1]
  <2>1. i + 1 \in 1 .. k
    BY <1>1, SMT
  <2> QED BY <2>1, Zenon
<1>2. Stepwise(s, g, k)
  BY SumSteps, Zenon
<1>3. Stepwise(s, h, k)
  BY <1>1, <1>2, Zenon DEF Stepwise
<1> QED BY <1>3, StepsAreSum, Zenon

(* Every run of words has running sums, and each is a word.                *)
LEMMA SumExists ==
    ASSUME NEW n \in Nat, NEW h \in Words(n), NEW m \in 0 .. n
    PROVE  \E s \in [0 .. m -> Uint16] : IsSum(s, h, m)
<1> DEFINE Has(k) == \E s \in [0 .. k -> Uint16] : IsSum(s, h, k)
           S == {k \in Nat : Has(k)}
<1>1. Has(0)
  <2> DEFINE s == [i \in 0 .. 0 |-> 0]
  <2>1. 0 \in Uint16 /\ 0 \in 0 .. 0 /\ \A k \in Nat : ~(k + 1 <= 0)
    <3>1. 0 \in Nat /\ 0 < WordSize
      BY IsWord, SMT
    <3>2. 0 \in 0 .. 0 /\ \A k \in Nat : ~(k + 1 <= 0)
      BY SMT
    <3> QED BY <3>1, <3>2, IsWord, Zenon
  <2>2. s \in [0 .. 0 -> Uint16] /\ s = [k \in 0 .. 0 |-> s[k]] /\ s[0] = 0
    BY <2>1, Zenon
  <2>3. 0 \in Nat
    BY SMT
  <2> HIDE DEF s
  <2>4. IsSum(s, h, 0)
    <3>1. Stepwise(s, h, 0)
      BY <2>1, <2>2, Zenon DEF Stepwise
    <3> QED BY <2>3, <3>1, StepsAreSum, Zenon
  <2> QED BY <2>2, <2>4, Zenon
<1>2. ASSUME NEW k \in Nat, Has(k), k + 1 <= n PROVE Has(k + 1)
  <2> DEFINE g == [i \in 1 .. k + 1 |-> h[i]]
  <2>1. k + 1 \in Nat /\ k \in Nat /\ \A i \in 1 .. k : i \in 1 .. k + 1
    BY SMT
  <2>2. g \in Words(k + 1)
    BY <1>2, <2>1, FirstWords, Zenon
  <2>3. \A i \in 1 .. k + 1 : g[i] = h[i]
    BY Zenon
  <2> HIDE DEF g
  <2>4. PICK s \in [0 .. k -> Uint16] : IsSum(s, h, k)
    BY <1>2, Zenon
  <2>5. IsSum(s, g, k)
    BY <2>1, <2>3, <2>4, SumOfFirst, Zenon
  <2>6. PICK t \in [0 .. k + 1 -> Uint16] : IsSum(t, g, k + 1)
    BY <2>1, <2>2, <2>5, SumGrows, Zenon
  <2>7. IsSum(t, h, k + 1)
    BY <2>1, <2>3, <2>6, SumOfFirst, Zenon
  <2> QED BY <2>6, <2>7, Zenon
<1> HIDE DEF Has
<1>3. 0 \in S
  BY <1>1, SMT
<1>4. ASSUME NEW k \in Nat, k \in S, k + 1 <= n PROVE k + 1 \in S
  <2>1. k + 1 \in Nat
    BY SMT
  <2> QED BY <1>2, <1>4, <2>1, Zenon
<1>5. 0 .. n \subseteq S
  <2> HIDE DEF S
  <2> QED BY <1>3, <1>4, BoundedInduction, Zenon
<1>6. Has(m)
  BY <1>5, Zenon
<1> QED BY <1>6, Zenon DEF Has

(* There is one running sum of some words.                                 *)
LEMMA SumUnique ==
    ASSUME NEW h, NEW n \in Nat, NEW s, NEW t, IsSum(s, h, n), IsSum(t, h, n)
    PROVE  s = t
<1> DEFINE S == {k \in Nat : s[k] = t[k]}
<1>1. Stepwise(s, h, n) /\ Stepwise(t, h, n)
  BY SumSteps, Zenon
<1>2. 0 \in S /\ \A k \in Nat : k + 1 \in Nat
  <2>1. 0 \in Nat /\ \A k \in Nat : k + 1 \in Nat
    BY SMT
  <2> QED BY <1>1, <2>1, Zenon DEF Stepwise
<1>3. ASSUME NEW k \in Nat, k \in S, k + 1 <= n PROVE k + 1 \in S
  BY <1>1, <1>2, <1>3, Zenon DEF Stepwise
<1>4. 0 .. n \subseteq S
  <2> HIDE DEF S
  <2> QED BY <1>2, <1>3, BoundedInduction, Zenon
<1>5. \A k \in 0 .. n : s[k] = t[k]
  BY <1>4, Zenon
<1> QED BY <1>1, <1>5, Zenon DEF Stepwise

(* CalculateSum16 returns the last running sum.                            *)
LEMMA SumIsLast ==
    ASSUME NEW n \in Nat, NEW h \in Words(n), NEW m \in 0 .. n
    PROVE  \E s \in [0 .. m -> Uint16] : IsSum(s, h, m) /\ Sum16(h, m) = s[m]
<1> DEFINE s == CHOOSE s : IsSum(s, h, m)
<1>1. PICK t \in [0 .. m -> Uint16] : IsSum(t, h, m)
  BY SumExists, Zenon
<1>2. IsSum(s, h, m)
  BY <1>1, Zenon
<1>3. Sum16(h, m) = s[m]
  BY Zenon DEF Sum16, IsSum
<1> HIDE DEF s
<1>4. s = t
  <2>1. m \in Nat
    BY SMT
  <2> QED BY <1>1, <1>2, <2>1, SumUnique, Zenon
<1> QED BY <1>1, <1>3, <1>4, Zenon

\* A sum is a word.
LEMMA SumIsWord ==
    ASSUME NEW n \in Nat, NEW h \in Words(n), NEW m \in 0 .. n PROVE Sum16(h, m) \in Uint16
<1>1. m \in 0 .. m
  BY SMT
<1>2. PICK s \in [0 .. m -> Uint16] : IsSum(s, h, m) /\ Sum16(h, m) = s[m]
  BY SumIsLast, Zenon
<1> QED BY <1>1, <1>2, Zenon

(* A word that is d more makes every sum over it d more, modulo the word   *)
(* size.                                                                   *)
LEMMA SumShifts ==
    ASSUME NEW n \in Nat, NEW h \in Words(n), NEW g \in Words(n),
           NEW m \in 1 .. n, NEW i \in 1 .. m, NEW d \in Uint16,
           g[i] = Plus(h[i], d), \A j \in 1 .. n : j # i => g[j] = h[j]
    PROVE  Sum16(g, m) = Plus(Sum16(h, m), d)
<1>0. m \in Nat /\ m \in 0 .. n /\ m \in 0 .. m /\ 0 \in Nat /\ ~(m < i) /\ 0 < i
  BY SMT
<1>1. PICK s \in [0 .. m -> Uint16] : IsSum(s, h, m) /\ Sum16(h, m) = s[m]
  BY <1>0, SumIsLast, Zenon
<1>2. PICK t \in [0 .. m -> Uint16] : IsSum(t, g, m) /\ Sum16(g, m) = t[m]
  BY <1>0, SumIsLast, Zenon
<1>3. Stepwise(s, h, m) /\ Stepwise(t, g, m)
  BY <1>0, <1>1, <1>2, SumSteps, Zenon
<1> DEFINE Shifted(k) == (k < i => t[k] = s[k]) /\ (~(k < i) => t[k] = Plus(s[k], d))
           S == {k \in Nat : Shifted(k)}
<1>4. Shifted(0)
  BY <1>0, <1>3, Zenon DEF Stepwise
<1>5. ASSUME NEW k \in Nat, k + 1 <= m, Shifted(k) PROVE Shifted(k + 1)
  <2>1. k \in 0 .. m /\ k + 1 \in 1 .. n
    BY <1>5, SMT
  <2>2. s[k + 1] = Plus(s[k], h[k + 1]) /\ t[k + 1] = Plus(t[k], g[k + 1])
    BY <1>3, <1>5, Zenon DEF Stepwise
  <2>3. s[k] \in Uint16 /\ h[k + 1] \in Uint16
    BY <1>1, <2>1, WordIn, Zenon
  <2>4. CASE k + 1 < i
    <3>1. k < i /\ k + 1 # i
      BY <2>4, SMT
    <3>2. t[k + 1] = s[k + 1]
      BY <1>5, <2>1, <2>2, <3>1, Zenon
    <3> QED BY <2>4, <3>2, Zenon
  <2>5. CASE k + 1 = i
    <3>1. k < i /\ ~(k + 1 < i)
      BY <2>5, SMT
    <3>2. t[k + 1] = Plus(s[k], Plus(h[k + 1], d))
      BY <1>5, <2>2, <2>5, <3>1, Zenon
    <3>3. Plus(s[k], Plus(h[k + 1], d)) = Plus(Plus(s[k], h[k + 1]), d)
      BY <2>3, PlusCommutes, Zenon
    <3>4. t[k + 1] = Plus(s[k + 1], d)
      BY <2>2, <3>2, <3>3, Zenon
    <3> QED BY <3>1, <3>4, Zenon
  <2>6. CASE ~(k + 1 < i) /\ k + 1 # i
    <3>1. ~(k < i)
      BY <2>6, SMT
    <3>2. t[k + 1] = Plus(Plus(s[k], d), h[k + 1])
      BY <1>5, <2>1, <2>2, <2>6, <3>1, Zenon
    <3>3. Plus(Plus(s[k], d), h[k + 1]) = Plus(Plus(s[k], h[k + 1]), d)
      BY <2>3, PlusCommutes, Zenon
    <3>4. t[k + 1] = Plus(s[k + 1], d)
      BY <2>2, <3>2, <3>3, Zenon
    <3> QED BY <2>6, <3>4, Zenon
  <2> QED BY <2>4, <2>5, <2>6, Zenon
<1> HIDE DEF Shifted
<1>6. 0 \in S
  BY <1>0, <1>4, Zenon
<1>7. ASSUME NEW k \in Nat, k \in S, k + 1 <= m PROVE k + 1 \in S
  <2>1. k + 1 \in Nat
    BY SMT
  <2> QED BY <1>5, <1>7, <2>1, Zenon
<1>8. 0 .. m \subseteq S
  <2> HIDE DEF S
  <2> QED BY <1>0, <1>6, <1>7, BoundedInduction, Zenon
<1>9. Shifted(m)
  BY <1>0, <1>8, Zenon
<1> QED BY <1>0, <1>1, <1>2, <1>9, Zenon DEF Shifted

-----------------------------------------------------------------------------
\* The n words x stand behind the first k words of h.
At(h, k, x, n) == \A i \in 1 .. n : h[k + i] = x[i]

\* The first n words of h are those of p.
Begins(h, p, n) == \A i \in 1 .. n : h[i] = p[i]

\* Words are a sequence.
LEMMA WordsAreSeq ==
    ASSUME NEW n \in Nat, NEW a \in Words(n) PROVE a \in Seq(Uint16) /\ Len(a) = n
  BY SMT DEF Words

\* Words behind words are words.
LEMMA Join ==
    ASSUME NEW m \in Nat, NEW n \in Nat, NEW a \in Words(m), NEW b \in Words(n)
    PROVE  a \o b \in Words(m + n)
<1>1. a \in Seq(Uint16) /\ Len(a) = m /\ b \in Seq(Uint16) /\ Len(b) = n
  BY WordsAreSeq, Zenon
<1>2. a \o b \in Seq(Uint16) /\ Len(a \o b) = m + n
  BY <1>1, ConcatProperties, Zenon
<1> QED BY <1>2, LenProperties, Zenon DEF Words

(* What begins with words behind words begins with the first of them, and  *)
(* has the others behind these.                                            *)
LEMMA Peel ==
    ASSUME NEW m \in Nat, NEW n \in Nat, NEW a \in Words(m), NEW b \in Words(n),
           NEW h, Begins(h, a \o b, m + n)
    PROVE  Begins(h, a, m) /\ At(h, m, b, n)
<1>1. a \in Seq(Uint16) /\ Len(a) = m /\ b \in Seq(Uint16) /\ Len(b) = n
  BY WordsAreSeq, Zenon
<1>2. \A i \in 1 .. m + n : (a \o b)[i] = IF i <= m THEN a[i] ELSE b[i - m]
  BY <1>1, ConcatProperties, Zenon
<1>3. ASSUME NEW i \in 1 .. m PROVE h[i] = a[i]
  <2>1. i \in 1 .. m + n /\ i <= m
    BY SMT
  <2> QED BY <1>2, <2>1, Zenon DEF Begins
<1>4. ASSUME NEW i \in 1 .. n PROVE h[m + i] = b[i]
  <2>1. m + i \in 1 .. m + n /\ ~(m + i <= m) /\ (m + i) - m = i
    BY SMT
  <2> QED BY <1>2, <2>1, Zenon DEF Begins
<1> QED BY <1>3, <1>4, Zenon DEF Begins, At

\* What fits in 32 bits has two words.
LEMMA Uint32Words ==
    ASSUME NEW n \in Nat, n \div WordSize \in Uint16 PROVE Uint32(n) \in Words(2)
<1>1. n % WordSize \in Uint16
  BY RemainderIsWord, Zenon
<1> DEFINE x == n % WordSize
           y == n \div WordSize
<1> HIDE DEF x, y
<1>2. ASSUME x \in Uint16, y \in Uint16 PROVE <<x, y>> \in [1 .. 2 -> Uint16]
  BY <1>2, SMT
<1> QED BY <1>1, <1>2, Zenon DEF Uint32, Words, x, y

\* The numbers that the header holds fit in 32 bits.
LEMMA Sizes ==
    ASSUME NEW n \in {FvLength, MediaBlockSize, FvLength \div MediaBlockSize, VariableSize - 72}
    PROVE  n \in Nat /\ n \div WordSize \in Uint16
<1>1. FvLength \in Nat /\ FvLength \div WordSize \in Uint16
  <2>1. {VariableSize, FtwWorkingSize, FtwSpareSize} \subseteq Nat
    BY HeaderAssumption, Zenon
  <2>2. FvLength \in Nat
    BY <2>1, SMT DEF FvLength
  <2> QED BY <2>2, HeaderAssumption, Zenon
<1>2. MediaBlockSize \in Nat \ {0} /\ MediaBlockSize \div WordSize \in Uint16
  BY HeaderAssumption, Zenon
<1>3. ASSUME NEW a \in Nat, NEW b \in Nat \ {0} PROVE a \div b \in Nat /\ a \div b <= a
  BY SMT
<1>4. ASSUME NEW a \in Nat, a <= FvLength PROVE a \div WordSize \in Uint16
  <2> DEFINE L == FvLength
  <2>1. L \div WordSize \in Nat /\ L \div WordSize < WordSize /\ L \in Nat /\ a <= L
    BY <1>1, <1>4, IsWord, Zenon
  <2> HIDE DEF L
  <2>2. a \div WordSize \in Nat /\ a \div WordSize < WordSize
    <3>1. a \div 65536 \in Nat /\ a \div 65536 < 65536
      <4>1. L \div 65536 < 65536
        BY <2>1, SMT DEF WordSize
      <4>2. L < 65536 * 65536
        BY <2>1, <4>1, SMT
      <4> QED BY <2>1, <4>2, SMT
    <3> QED BY <3>1, SMT DEF WordSize
  <2> QED BY <2>2, IsWord, Zenon
<1>5. FvLength \div MediaBlockSize \in Nat /\ FvLength \div MediaBlockSize <= FvLength
  BY <1>1, <1>2, <1>3, Zenon
<1>6. VariableSize - 72 \in Nat /\ VariableSize - 72 <= FvLength
  <2>1. {VariableSize, FtwWorkingSize, FtwSpareSize} \subseteq Nat /\ VariableSize >= WordSize
    BY HeaderAssumption, Zenon
  <2>2. WordSize \in Nat /\ 72 <= WordSize
    BY SMT DEF WordSize
  <2> QED BY <2>1, <2>2, SMT DEF FvLength
<1> QED BY <1>1, <1>2, <1>4, <1>5, <1>6, Zenon

\* The words that are constants of the code.
LEMMA FixedWords ==
    /\ FvhSignature \in Words(2)
    /\ <<StoreState>> \in Words(1)
    /\ <<VolumeHeaderSize, 0, 0, 256 * FvhRevision>> \in Words(4)
    /\ FvhAttributes \in Nat /\ FvhAttributes \div WordSize \in Uint16
<1>1. WordSize = 65536
  BY SMT DEF WordSize
<1>2. ASSUME NEW x \in Nat, x < 65536 PROVE x \in Uint16
  <2>1. x < WordSize
    BY <1>1, <1>2, SMT
  <2> QED BY <2>1, IsWord, SMT
<1>3. /\ 18015 \in Uint16 /\ 18518 \in Uint16 /\ 65114 \in Uint16
      /\ 72 \in Uint16 /\ 0 \in Uint16 /\ 512 \in Uint16
  BY <1>2, SMT
<1>4. FvhSignature \in Words(2) /\ <<StoreState>> \in Words(1)
  BY <1>3, SMT DEF FvhSignature, StoreState, Words
<1>5. 256 * FvhRevision = 512 /\ VolumeHeaderSize = 72
  BY SMT DEF FvhRevision, VolumeHeaderSize
<1>6. <<72, 0, 0, 512>> \in Words(4)
  BY <1>3, SMT DEF Words
<1>7. FvhAttributes \in Nat /\ FvhAttributes \div WordSize = 0
  BY SMT DEF FvhAttributes, WordSize
<1> QED BY <1>3, <1>4, <1>5, <1>6, <1>7, SMT

\* Zeros are words.
LEMMA ZerosWords == ASSUME NEW n \in Nat PROVE Zeros(n) \in Words(n)
<1>1. 0 \in Nat /\ 0 < WordSize
  BY SMT DEF WordSize
<1>2. 0 \in Uint16
  BY <1>1, IsWord, Zenon
<1> QED BY <1>2, Zenon DEF Zeros, Words

\* What stands where in the header before its checksum.
LEMMA UnsummedWords ==
    /\ Unsummed \in Words(50)
    /\ At(Unsummed, 8, SystemNvDataFvGuid, 8)
    /\ At(Unsummed, 16, Uint32(FvLength), 2)
    /\ At(Unsummed, 18, Zeros(2), 2)
    /\ At(Unsummed, 20, FvhSignature, 2)
    /\ At(Unsummed, 24, <<VolumeHeaderSize, 0, 0, 256 * FvhRevision>>, 4)
    /\ At(Unsummed, 36, AuthenticatedVariableGuid, 8)
    /\ At(Unsummed, 44, Uint32(VariableSize - VolumeHeaderSize), 2)
<1> DEFINE sizes == <<VolumeHeaderSize, 0, 0, 256 * FvhRevision>>
           state == <<StoreState>>
           w1 == Uint32(FvLength)
           w2 == Uint32(FvhAttributes)
           w3 == Uint32(FvLength \div MediaBlockSize)
           w4 == Uint32(MediaBlockSize)
           w5 == Uint32(VariableSize - VolumeHeaderSize)
           p1 == Zeros(8)
           p2 == p1 \o SystemNvDataFvGuid
           p3 == p2 \o w1
           p4 == p3 \o Zeros(2)
           p5 == p4 \o FvhSignature
           p6 == p5 \o w2
           p7 == p6 \o sizes
           p8 == p7 \o w3
           p9 == p8 \o w4
           p10 == p9 \o Zeros(4)
           p11 == p10 \o AuthenticatedVariableGuid
           p12 == p11 \o w5
           p13 == p12 \o state
           p14 == p13 \o Zeros(3)
<1>0. Unsummed = p14
  BY Zenon DEF Unsummed
<1>1. ASSUME NEW n \in Nat PROVE Zeros(n) \in Words(n)
  BY ZerosWords, Zenon
<1>2. SystemNvDataFvGuid \in Words(8) /\ AuthenticatedVariableGuid \in Words(8)
  BY HeaderAssumption, Zenon DEF Guid, Words
<1>3. /\ w1 \in Words(2) /\ w2 \in Words(2) /\ w3 \in Words(2) /\ w4 \in Words(2)
      /\ w5 \in Words(2)
  <2>1. VolumeHeaderSize = 72
    BY Zenon DEF VolumeHeaderSize
  <2>2. w2 \in Words(2)
    BY FixedWords, Uint32Words, Zenon
  <2> QED BY <2>1, <2>2, Sizes, Uint32Words, Zenon
<1>4. sizes \in Words(4) /\ state \in Words(1) /\ FvhSignature \in Words(2)
  BY FixedWords, Zenon
<1> HIDE DEF sizes, state, w1, w2, w3, w4, w5
<1>7. ASSUME NEW m \in Nat, NEW n \in Nat, NEW k, m + n = k, NEW a \in Words(m), NEW b \in Words(n)
      PROVE  a \o b \in Words(k)
  BY <1>7, Join, Zenon
<1>8. ASSUME NEW m \in Nat, NEW n \in Nat, NEW k, m + n = k, NEW a \in Words(m), NEW b \in Words(n),
             NEW h, Begins(h, a \o b, k)
      PROVE  Begins(h, a, m) /\ At(h, m, b, n)
  BY <1>8, Peel, Zenon
<1> HIDE DEF p1, p2, p3, p4, p5, p6, p7, p8, p9, p10, p11, p12, p13, p14
<1>9. p1 \in Words(8)
  BY <1>1, SMT DEF p1
<1>10. p2 \in Words(16)
  BY <1>2, <1>7, <1>9, SMT DEF p2
<1>11. p3 \in Words(18)
  BY <1>3, <1>7, <1>10, SMT DEF p3
<1>12. p4 \in Words(20)
  BY <1>1, <1>7, <1>11, SMT DEF p4
<1>13. p5 \in Words(22)
  BY <1>4, <1>7, <1>12, SMT DEF p5
<1>14. p6 \in Words(24)
  BY <1>3, <1>7, <1>13, SMT DEF p6
<1>15. p7 \in Words(28)
  BY <1>4, <1>7, <1>14, SMT DEF p7
<1>16. p8 \in Words(30)
  BY <1>3, <1>7, <1>15, SMT DEF p8
<1>17. p9 \in Words(32)
  BY <1>3, <1>7, <1>16, SMT DEF p9
<1>18. p10 \in Words(36)
  BY <1>1, <1>7, <1>17, SMT DEF p10
<1>19. p11 \in Words(44)
  BY <1>2, <1>7, <1>18, SMT DEF p11
<1>20. p12 \in Words(46)
  BY <1>3, <1>7, <1>19, SMT DEF p12
<1>21. p13 \in Words(47)
  BY <1>4, <1>7, <1>20, SMT DEF p13
<1>22. p14 \in Words(50)
  BY <1>1, <1>7, <1>21, SMT DEF p14
<1> DEFINE h == p14
<1> HIDE DEF h
<1>23. Begins(h, p14, 50)
  BY Zenon DEF h, Begins
<1>24. Begins(h, p13, 47)
  BY <1>1, <1>8, <1>21, <1>23, SMT DEF p14
<1>25. Begins(h, p12, 46)
  BY <1>4, <1>8, <1>20, <1>24, SMT DEF p13
<1>26. Begins(h, p11, 44) /\ At(h, 44, w5, 2)
  BY <1>3, <1>8, <1>19, <1>25, SMT DEF p12
<1>27. Begins(h, p10, 36) /\ At(h, 36, AuthenticatedVariableGuid, 8)
  BY <1>2, <1>8, <1>18, <1>26, SMT DEF p11
<1>28. Begins(h, p9, 32)
  BY <1>1, <1>8, <1>17, <1>27, SMT DEF p10
<1>29. Begins(h, p8, 30)
  BY <1>3, <1>8, <1>16, <1>28, SMT DEF p9
<1>30. Begins(h, p7, 28)
  BY <1>3, <1>8, <1>15, <1>29, SMT DEF p8
<1>31. Begins(h, p6, 24) /\ At(h, 24, sizes, 4)
  BY <1>4, <1>8, <1>14, <1>30, SMT DEF p7
<1>32. Begins(h, p5, 22)
  BY <1>3, <1>8, <1>13, <1>31, SMT DEF p6
<1>33. Begins(h, p4, 20) /\ At(h, 20, FvhSignature, 2)
  BY <1>4, <1>8, <1>12, <1>32, SMT DEF p5
<1>34. Begins(h, p3, 18) /\ At(h, 18, Zeros(2), 2)
  BY <1>1, <1>8, <1>11, <1>33, SMT DEF p4
<1>35. Begins(h, p2, 16) /\ At(h, 16, w1, 2)
  BY <1>3, <1>8, <1>10, <1>34, SMT DEF p3
<1>36. At(h, 8, SystemNvDataFvGuid, 8)
  BY <1>2, <1>8, <1>9, <1>35, SMT DEF p2
<1> QED BY <1>0, <1>22, <1>26, <1>27, <1>31, <1>33, <1>34, <1>35, <1>36, Zenon
     DEF h, sizes, w1, w5

\* What stands where in a fresh header: the checksum is in no run of words that matters.
Fresh(h) ==
    /\ At(h, 8, SystemNvDataFvGuid, 8)
    /\ At(h, 16, Uint32(FvLength), 2)
    /\ At(h, 18, Zeros(2), 2)
    /\ At(h, 20, FvhSignature, 2)
    /\ h[25] = 72 /\ h[28] = 512
    /\ At(h, 36, AuthenticatedVariableGuid, 8)
    /\ At(h, 44, Uint32(VariableSize - 72), 2)

(* The header that is written: its words, and a sum that is zero.          *)
LEMMA FreshWords ==
    /\ FreshHeader \in Words(50)
    /\ Fresh(FreshHeader)
    /\ Sum16(FreshHeader, 36) = 0
<1> DEFINE sum == Sum16(Unsummed, 36)
           d == (WordSize - sum) % WordSize
<1>1. /\ VolumeHeaderSize = 72 /\ VolumeHeaderSize \div 2 = 36 /\ 256 * FvhRevision = 512
      /\ Checksum = 26
  BY SMT DEF VolumeHeaderSize, FvhRevision, Checksum
<1>2. Unsummed \in Words(50) /\ 50 \in Nat /\ 36 \in 0 .. 50 /\ 26 \in 1 .. 50 /\ 36 \in 1 .. 50
      /\ 26 \in 1 .. 36
  BY UnsummedWords, SMT
<1>3. /\ At(Unsummed, 8, SystemNvDataFvGuid, 8) /\ At(Unsummed, 16, Uint32(FvLength), 2)
      /\ At(Unsummed, 18, Zeros(2), 2) /\ At(Unsummed, 20, FvhSignature, 2)
      /\ At(Unsummed, 24, <<72, 0, 0, 512>>, 4) /\ At(Unsummed, 36, AuthenticatedVariableGuid, 8)
      /\ At(Unsummed, 44, Uint32(VariableSize - 72), 2)
  BY <1>1, UnsummedWords, SMT
<1>4. sum \in Uint16
  BY <1>2, SumIsWord, Zenon
<1>5. FreshHeader = [Unsummed EXCEPT ![26] = d]
  BY <1>1, SMT DEF FreshHeader
<1> HIDE DEF sum
<1>6. d \in Uint16 /\ Plus(sum, d) = 0 /\ Plus(0, d) = d
  BY <1>4, Complement, PlusZero, Zenon
<1> HIDE DEF d
<1>7. FreshHeader \in Words(50) /\ FreshHeader[26] = d /\ \A i \in 1 .. 50 : i # 26 => FreshHeader[i] = Unsummed[i]
  BY <1>2, <1>5, <1>6, Zenon DEF Words
<1>8. Unsummed[25] = 72 /\ Unsummed[26] = 0 /\ Unsummed[28] = 512
  <2>1. \A i \in 1 .. 4 : Unsummed[24 + i] = <<72, 0, 0, 512>>[i]
    BY <1>3, Zenon DEF At
  <2>2. Unsummed[24 + 1] = 72 /\ Unsummed[24 + 2] = 0 /\ Unsummed[24 + 4] = 512
    BY <2>1, SMT
  <2> QED BY <2>2, SMT
<1>9. ASSUME NEW k \in Nat, NEW n \in Nat, k + n <= 50, k >= 26 \/ k + n <= 25, NEW x, At(Unsummed, k, x, n)
      PROVE  At(FreshHeader, k, x, n)
  <2>1. ASSUME NEW i \in 1 .. n PROVE FreshHeader[k + i] = x[i]
    <3>1. k + i \in 1 .. 50 /\ k + i # 26
      BY <1>9, SMT
    <3>2. Unsummed[k + i] = x[i]
      BY <1>9, Zenon DEF At
    <3> QED BY <1>7, <3>1, <3>2, Zenon
  <2> QED BY <2>1, Zenon DEF At
<1>10. FreshHeader[25] = 72 /\ FreshHeader[28] = 512
  BY <1>7, <1>8, SMT
<1>11. Fresh(FreshHeader)
  BY <1>3, <1>9, <1>10, SMT DEF Fresh
<1>12. FreshHeader[26] = Plus(Unsummed[26], d)
  BY <1>6, <1>7, <1>8, SMT
<1>13. Sum16(FreshHeader, 36) = Plus(sum, d)
  <2>1. ASSUME NEW n \in Nat, NEW m \in 1 .. n, NEW i \in 1 .. m,
               Unsummed \in Words(n), FreshHeader \in Words(n), FreshHeader[i] = Plus(Unsummed[i], d),
               \A j \in 1 .. n : j # i => FreshHeader[j] = Unsummed[j]
        PROVE  Sum16(FreshHeader, m) = Plus(Sum16(Unsummed, m), d)
    BY <1>6, <2>1, SumShifts, Zenon
  <2>2. Sum16(FreshHeader, 36) = Plus(Sum16(Unsummed, 36), d)
    BY <1>2, <1>7, <1>12, <2>1, Zenon
  <2> QED BY <2>2, Zenon DEF sum
<1> QED BY <1>6, <1>7, <1>11, <1>13, Zenon

-----------------------------------------------------------------------------
\* Words at an even offset are words of the header.
LEMMA EvenWords ==
    ASSUME NEW h, NEW k \in Nat, NEW n \in Nat, k + n <= 50, NEW words, DOMAIN words = 1 .. n
    PROVE  MayBe(h, 2 * k, words) <=> At(h, k, words, n)
<1>1. HeadersLength = 100
  BY SMT DEF HeadersLength, VolumeHeaderSize, StoreHeaderSize
<1>2. ASSUME NEW i \in 1 .. n
      PROVE  /\ Read(2 * k + 2 * (i - 1))
             /\ WordAt(h, 2 * k + 2 * (i - 1)) = h[k + i]
  <2> DEFINE o == 2 * k + 2 * (i - 1)
  <2>1. o + 2 <= 100 /\ o % 2 = 0 /\ o \div 2 + 1 = k + i
    BY SMT
  <2> HIDE DEF o
  <2>2. Read(o) /\ WordAt(h, o) = h[k + i]
    BY <1>1, <2>1, Zenon DEF Read, WordAt
  <2> QED BY <2>2, Zenon DEF o
<1> QED BY <1>2, Zenon DEF MayBe, At

\* A GUID has eight words.
LEMMA GuidDomain ==
    ASSUME NEW guid \in {SystemNvDataFvGuid, VariableGuid, AuthenticatedVariableGuid}
    PROVE  DOMAIN guid = 1 .. 8
  BY HeaderAssumption, Zenon DEF Guid

\* A 32-bit field has two words.
LEMMA Uint32Domain == ASSUME NEW n PROVE DOMAIN Uint32(n) = 1 .. 2
  BY SMT DEF Uint32

\* Words that stand behind each other stand there as one run of words.
LEMMA StandJoined ==
    ASSUME NEW k \in Nat, NEW m \in Nat, NEW n \in Nat, NEW a \in Words(m), NEW b \in Words(n),
           NEW h, At(h, k, a, m), At(h, k + m, b, n)
    PROVE  At(h, k, a \o b, m + n) /\ DOMAIN (a \o b) = 1 .. m + n
<1>1. a \in Seq(Uint16) /\ Len(a) = m /\ b \in Seq(Uint16) /\ Len(b) = n
  BY WordsAreSeq, Zenon
<1>2. \A i \in 1 .. m + n : (a \o b)[i] = IF i <= m THEN a[i] ELSE b[i - m]
  BY <1>1, ConcatProperties, Zenon
<1>3. ASSUME NEW i \in 1 .. m + n PROVE h[k + i] = (a \o b)[i]
  <2>1. CASE i <= m
    <3>1. i \in 1 .. m
      BY <2>1, SMT
    <3> QED BY <1>2, <2>1, <3>1, Zenon DEF At
  <2>2. CASE ~(i <= m)
    <3>1. i - m \in 1 .. n /\ (k + m) + (i - m) = k + i
      BY <2>2, SMT
    <3>2. h[(k + m) + (i - m)] = b[i - m]
      BY <3>1, Zenon DEF At
    <3>3. h[k + i] = b[i - m]
      BY <3>1, <3>2, Zenon
    <3> QED BY <1>2, <2>2, <3>3, Zenon
  <2> QED BY <2>1, <2>2, Zenon
<1>4. a \o b \in Words(m + n)
  BY Join, Zenon
<1> QED BY <1>3, <1>4, Zenon DEF At, Words

(* A header with a fresh header's words is accepted, when the sum is zero. *)
LEMMA FreshIsPresent ==
    ASSUME NEW h, Fresh(h)
    PROVE  HeaderLength(h) = 72 /\ VolumePresent(h) /\ StorePresent(h)
<1>1. HeaderLength(h) = 72 /\ h[28] \div 256 = FvhRevision
  BY SMT DEF Fresh, HeaderLength, FvhRevision
<1>2. ASSUME NEW k \in Nat, NEW n \in Nat, k + n <= 50, NEW words, DOMAIN words = 1 .. n,
             At(h, k, words, n), NEW o, o = 2 * k
      PROVE  MayBe(h, o, words)
  BY <1>2, EvenWords, Zenon
<1>3. MayBe(h, 40, FvhSignature)
  <2>1. DOMAIN FvhSignature = 1 .. 2
    BY SMT DEF FvhSignature
  <2>2. At(h, 20, FvhSignature, 2)
    BY Zenon DEF Fresh
  <2>3. 20 \in Nat /\ 2 \in Nat /\ 20 + 2 <= 50 /\ 40 = 2 * 20
    BY SMT
  <2> QED BY <1>2, <2>1, <2>2, <2>3, Zenon
<1>4. MayBe(h, 32, Uint32(FvLength) \o Zeros(2))
  <2> DEFINE w == Uint32(FvLength)
             z == Zeros(2)
  <2>1. w \in Words(2) /\ z \in Words(2)
    BY Sizes, Uint32Words, ZerosWords, SMT
  <2>2. At(h, 16, w, 2) /\ At(h, 18, z, 2)
    BY Zenon DEF Fresh
  <2> HIDE DEF w, z
  <2>3. 16 \in Nat /\ 2 \in Nat /\ 4 \in Nat /\ 16 + 4 <= 50 /\ 32 = 2 * 16
    BY SMT
  <2>4. At(h, 16, w \o z, 4) /\ DOMAIN (w \o z) = 1 .. 4
    <3>1. ASSUME NEW k \in Nat, NEW n \in Nat, At(h, k, w, n), NEW l, l = k + n, At(h, l, z, n),
                 w \in Words(n), z \in Words(n), NEW m, m = n + n
          PROVE  At(h, k, w \o z, m) /\ DOMAIN (w \o z) = 1 .. m
      <4>1. At(h, k + n, z, n)
        BY <3>1, Zenon
      <4>2. At(h, k, w \o z, n + n) /\ DOMAIN (w \o z) = 1 .. n + n
        BY <3>1, <4>1, StandJoined, SMT
      <4> QED BY <3>1, <4>2, Zenon
    <3>2. 16 \in Nat /\ 2 \in Nat /\ 18 = 16 + 2 /\ 4 = 2 + 2
      BY SMT
    <3> QED BY <2>1, <2>2, <3>1, <3>2, Zenon
  <2>5. MayBe(h, 32, w \o z)
    BY <1>2, <2>3, <2>4, Zenon
  <2> QED BY <2>5, Zenon DEF w, z
<1>5. MayBe(h, 16, SystemNvDataFvGuid)
  <2>1. At(h, 8, SystemNvDataFvGuid, 8) /\ DOMAIN SystemNvDataFvGuid = 1 .. 8
    BY GuidDomain, Zenon DEF Fresh
  <2>2. 8 \in Nat /\ 8 + 8 <= 50 /\ 16 = 2 * 8
    BY SMT
  <2> QED BY <1>2, <2>1, <2>2, Zenon
<1>6. MayBe(h, 72, AuthenticatedVariableGuid)
  <2>1. At(h, 36, AuthenticatedVariableGuid, 8) /\ DOMAIN AuthenticatedVariableGuid = 1 .. 8
    BY GuidDomain, Zenon DEF Fresh
  <2>2. 36 \in Nat /\ 8 \in Nat /\ 36 + 8 <= 50 /\ 72 = 2 * 36
    BY SMT
  <2> QED BY <1>2, <2>1, <2>2, Zenon
<1>7. MayBe(h, 88, Uint32(VariableSize - 72))
  <2> DEFINE w == Uint32(VariableSize - 72)
  <2>1. At(h, 44, w, 2) /\ DOMAIN w = 1 .. 2
    BY Uint32Domain, Zenon DEF Fresh
  <2> HIDE DEF w
  <2>2. MayBe(h, 88, w)
    <3>1. 44 \in Nat /\ 2 \in Nat /\ 44 + 2 <= 50 /\ 88 = 2 * 44
      BY SMT
    <3> QED BY <1>2, <2>1, <3>1, Zenon
  <2> QED BY <2>2, Zenon DEF w
<1>8. VolumePresent(h)
  BY <1>1, <1>3, <1>4, <1>5, Zenon DEF VolumePresent
<1>9. 72 + 16 = 88
  BY SMT
<1>10. StorePresent(h)
  BY <1>1, <1>6, <1>7, <1>9, Zenon DEF StorePresent
<1> QED BY <1>1, <1>8, <1>10, Zenon

(* What InitializeFvAndVariableStoreHeaders writes ValidateFvHeader        *)
(* accepts, and nothing lets it refuse.                                    *)
THEOREM FreshAccepted ==
    MayAccept(FreshHeader) /\ ~MayRefuse(FreshHeader) /\ ~SumAsserts(FreshHeader)
<1> DEFINE h == FreshHeader
<1>1. /\ HeaderLength(h) = 72 /\ VolumePresent(h) /\ StorePresent(h)
      /\ Sum16(h, 36) = 0
  BY FreshWords, FreshIsPresent, Zenon
<1> HIDE DEF h
<1>2. 72 \div 2 = 36 /\ 72 % 2 = 0 /\ ~(72 + 20 > HeadersLength)
  BY SMT DEF HeadersLength, VolumeHeaderSize, StoreHeaderSize
<1>3. MayAccept(h) /\ ~LooksBeyond(h) /\ ~SumAsserts(h)
  BY <1>1, <1>2, Zenon DEF MayAccept, SumMayBeZero, LooksBeyond, SumAsserts
<1> QED BY <1>3, Zenon DEF MayRefuse, h

(* With two headers that differ in one word, words stand in one of them    *)
(* where they stand in the other, unless the word is among them.           *)
LEMMA StandElsewhere ==
    ASSUME NEW h, NEW f, NEW i \in 1 .. 50, \A j \in 1 .. 50 : j # i => h[j] = f[j],
           NEW k \in Nat, NEW n \in Nat, k + n <= 50, NEW x, At(f, k, x, n), At(h, k, x, n),
           i \in k + 1 .. k + n
    PROVE  h[i] = f[i]
<1> DEFINE j == i - k
<1>1. j \in 1 .. n /\ k + j = i
  BY SMT
<1> HIDE DEF j
<1> QED BY <1>1, Zenon DEF At

\* A header that differs from another in one word at most is it but for this word.
LEMMA OneElsewhere ==
    ASSUME NEW n \in Nat, NEW h \in Words(n), NEW f \in Words(n), NEW i \in 1 .. n,
           \A j \in 1 .. n : j # i => h[j] = f[j]
    PROVE  h = [f EXCEPT ![i] = h[i]]
<1> DEFINE g == [f EXCEPT ![i] = h[i]]
<1>1. h = [j \in 1 .. n |-> h[j]] /\ g = [j \in 1 .. n |-> g[j]]
  BY Zenon DEF Words
<1>2. ASSUME NEW j \in 1 .. n PROVE h[j] = g[j]
  BY Zenon DEF Words
<1> HIDE DEF g
<1>3. h = g
  BY <1>1, <1>2, Zenon
<1> QED BY <1>3, Zenon DEF g

\* Words that were found at an offset are words of the header.
LEMMA FoundAt ==
    ASSUME NEW h, NEW k \in Nat, NEW n \in Nat, k + n <= 50, NEW words, DOMAIN words = 1 .. n,
           NEW o, o = 2 * k, MayBe(h, o, words)
    PROVE  At(h, k, words, n)
<1>1. MayBe(h, 2 * k, words)
  BY Zenon
<1> QED BY <1>1, EvenWords, Zenon

\* What the store's part of the check finds behind the volume's header.
LEMMA StoreFound ==
    ASSUME NEW h, StorePresent(h), HeaderLength(h) = 72
    PROVE  /\ \E guid \in {VariableGuid, AuthenticatedVariableGuid} : At(h, 36, guid, 8)
           /\ At(h, 44, Uint32(VariableSize - 72), 2)
<1> DEFINE w == Uint32(VariableSize - 72)
<1>1. PICK guid \in {VariableGuid, AuthenticatedVariableGuid} : MayBe(h, 72, guid)
  BY Zenon DEF StorePresent
<1>2. MayBe(h, 72 + 16, w)
  BY Zenon DEF StorePresent
<1>3. DOMAIN guid = 1 .. 8 /\ DOMAIN w = 1 .. 2
  BY GuidDomain, Uint32Domain, Zenon
<1> HIDE DEF w
<1>4. At(h, 36, guid, 8)
  <2> DEFINE k == 36
             n == 8
             o == 72
  <2>1. k \in Nat /\ n \in Nat /\ k + n <= 50 /\ o = 2 * k
    BY SMT
  <2>2. MayBe(h, o, guid) /\ DOMAIN guid = 1 .. n
    BY <1>1, <1>3, Zenon
  <2> HIDE DEF k, n, o
  <2>3. At(h, k, guid, n)
    BY <2>1, <2>2, FoundAt, Zenon
  <2> QED BY <2>3, Zenon DEF k, n
<1>5. At(h, 44, w, 2)
  <2> DEFINE k == 44
             n == 2
             o == 72 + 16
  <2>1. k \in Nat /\ n \in Nat /\ k + n <= 50 /\ o = 2 * k
    BY SMT
  <2>2. MayBe(h, o, w) /\ DOMAIN w = 1 .. n
    BY <1>2, <1>3, Zenon
  <2> HIDE DEF k, n, o
  <2>3. At(h, k, w, n)
    BY <2>1, <2>2, FoundAt, Zenon
  <2> QED BY <2>3, Zenon DEF k, n
<1> QED BY <1>1, <1>4, <1>5, Zenon DEF w

\* A fresh header with another length, as far as the store's header was read, has no store.
LEMMA LengthNoticed ==
    ASSUME GuidsTell, NEW l \in Nat, l # 72, l + 20 <= 100, NEW h, h = [FreshHeader EXCEPT ![25] = l]
    PROVE  ~StorePresent(h)
<1>1. l \in 0 .. HeadersLength - 20 /\ l # VolumeHeaderSize
  BY SMT DEF HeadersLength, VolumeHeaderSize, StoreHeaderSize
<1> DEFINE g == [FreshHeader EXCEPT ![25] = l]
<1>2. ~StorePresent(g)
  BY <1>1, Zenon DEF GuidsTell
<1>3. h = g
  OBVIOUS
<1> HIDE DEF g
<1> QED BY <1>2, <1>3, Zenon

(* CalculateSum16 over any number of words notices every change of one of  *)
(* them: it was zero, so it is not any more.                               *)
THEOREM SumNoticed ==
    ASSUME NEW n \in Nat, NEW h \in Words(n), NEW f \in Words(n), NEW m \in 1 .. n, NEW i \in 1 .. m,
           h[i] # f[i], \A j \in 1 .. n : j # i => h[j] = f[j], Sum16(f, m) = 0
    PROVE  Sum16(h, m) # 0
<1>1. i \in 1 .. n
  BY SMT
<1>2. h[i] \in Uint16 /\ f[i] \in Uint16
  BY <1>1, WordIn, Zenon
<1>3. PICK d \in Uint16 : d # 0 /\ h[i] = Plus(f[i], d)
  BY <1>2, Apart, Zenon
<1>4. Sum16(h, m) = Plus(Sum16(f, m), d)
  BY <1>3, SumShifts, Zenon
<1>5. Plus(0, d) = d
  BY PlusZero, Zenon
<1> QED BY <1>3, <1>4, <1>5, Zenon

(* One word of a fresh header has changed and ValidateFvHeader still       *)
(* accepts it: the word is behind the store's size, or is a HeaderLength   *)
(* that leads out of the bytes that were read.                             *)
THEOREM OneWordNoticed ==
    ASSUME GuidsTell, NEW h \in Header, MayAccept(h), NEW i \in 1 .. 50,
           h[i] # FreshHeader[i], \A j \in 1 .. 50 : j # i => h[j] = FreshHeader[j]
    PROVE  i \in 47 .. 50 \/ LooksBeyond(h)
<1> DEFINE f == FreshHeader
<1>1. f \in Words(50) /\ Fresh(f) /\ Sum16(f, 36) = 0
  BY FreshWords, Zenon
<1>2. h \in Words(50) /\ h[i] # f[i] /\ \A j \in 1 .. 50 : j # i => h[j] = f[j]
  BY WordsOfHeader, Zenon
<1>3. VolumePresent(h) /\ SumMayBeZero(h) /\ StorePresent(h)
  BY Zenon DEF MayAccept
<1>4. HeadersLength = 100 /\ VolumeHeaderSize = 72
  BY SMT DEF HeadersLength, VolumeHeaderSize, StoreHeaderSize
<1>5. f[25] = 72 /\ 25 \in 1 .. 50 /\ 36 \in 1 .. 50 /\ 50 \in Nat
  <2>1. f[25] = 72
    BY <1>1, Zenon DEF Fresh
  <2> QED BY <2>1, SMT
<1>6. CASE i = 25
  <2>1. h = [FreshHeader EXCEPT ![25] = h[25]]
    <3> DEFINE n == 50
               k == 25
    <3>1. n \in Nat /\ k \in 1 .. n /\ h \in Words(n) /\ f \in Words(n) /\ i = k
          /\ \A j \in 1 .. n : j # k => h[j] = f[j]
      BY <1>1, <1>2, <1>5, <1>6, Zenon
    <3> HIDE DEF n, f
    <3> HIDE DEF k
    <3>2. h = [f EXCEPT ![k] = h[k]]
      BY <3>1, OneElsewhere, SMT
    <3> QED BY <3>2, Zenon DEF k, f
  <2> HIDE DEF f
  <2>2. h[25] \in Uint16
    BY <1>2, <1>5, WordIn, SMT
  <2>3. h[25] \in Nat
    BY <2>2, IsWord, Zenon
  <2>4. h[25] # 72
    BY <1>2, <1>5, <1>6, SMT
  <2> DEFINE l == h[25]
  <2>5. l \in Nat /\ l # 72 /\ h = [FreshHeader EXCEPT ![25] = l]
    BY <2>1, <2>3, <2>4, Zenon
  <2> HIDE DEF l
  <2>6. ~(l + 20 <= 100)
    BY <1>3, <2>5, LengthNoticed, Zenon
  <2>7. l + 20 > 100
    BY <2>5, <2>6, SMT
  <2> QED BY <1>4, <2>7, Zenon DEF l, LooksBeyond, HeaderLength
<1> HIDE DEF f
<1>7. ASSUME i # 25 PROVE HeaderLength(h) = 72
  <2>1. h[25] = f[25]
    BY <1>2, <1>5, <1>7, Zenon
  <2> QED BY <1>5, <2>1, SMT DEF HeaderLength
<1>8. CASE i \in 1 .. 36 /\ i # 25
  <2>1. Sum16(h, 36) = 0
    <3>1. 72 \div 2 = 36 /\ 72 <= 100
      BY SMT
    <3>2. HeaderLength(h) = 72
      BY <1>7, <1>8, Zenon
    <3> QED BY <1>3, <1>4, <3>1, <3>2, Zenon DEF SumMayBeZero
  <2>2. i \in 1 .. 36
    BY <1>8, Zenon
  <2>3. Sum16(h, 36) # 0
    <3>1. f \in Words(50) /\ h \in Words(50) /\ h[i] # f[i] /\ \A j \in 1 .. 50 : j # i => h[j] = f[j]
      BY <1>1, <1>2, SMT
    <3>2. ASSUME NEW n \in Nat, NEW m \in 1 .. n, f \in Words(n), h \in Words(n), i \in 1 .. m,
                 \A j \in 1 .. n : j # i => h[j] = f[j], Sum16(f, m) = 0
          PROVE  Sum16(h, m) # 0
      BY <3>1, <3>2, SumNoticed, SMTT(30)
    <3>3. Sum16(f, 36) = 0
      BY <1>1, Zenon
    <3> QED BY <1>5, <2>2, <3>1, <3>2, <3>3, SMTT(30)
  <2> QED BY <2>1, <2>3, Zenon
<1>9. CASE i \in 37 .. 46
  <2>0. i # 25
    BY <1>9, SMT
  <2>1. i \in 36 + 1 .. 36 + 8 \/ i \in 44 + 1 .. 44 + 2
    BY <1>9, SMT
  <2>2. /\ 36 \in Nat /\ 44 \in Nat /\ 2 \in Nat /\ 8 \in Nat
        /\ 36 + 8 <= 50 /\ 44 + 2 <= 50
    BY SMT
  <2> DEFINE w == Uint32(VariableSize - 72)
  <2>3. At(h, 44, w, 2) /\ \E guid \in {VariableGuid, AuthenticatedVariableGuid} : At(h, 36, guid, 8)
    BY <1>3, <1>7, <2>0, StoreFound, SMT
  <2>4. At(f, 44, w, 2) /\ At(f, 36, AuthenticatedVariableGuid, 8)
    BY <1>1, Zenon DEF Fresh
  <2> HIDE DEF w
  <2>5. ASSUME NEW k \in Nat, NEW n \in Nat, k + n <= 50, NEW x, At(f, k, x, n), At(h, k, x, n),
               i \in k + 1 .. k + n
        PROVE  FALSE
    BY <1>2, <2>5, StandElsewhere, Zenon
  <2>6. CASE i \in 44 + 1 .. 44 + 2
    BY <2>2, <2>3, <2>4, <2>5, <2>6, Zenon
  <2>7. CASE i \in 36 + 1 .. 36 + 8
    <3>1. PICK guid \in {VariableGuid, AuthenticatedVariableGuid} : At(h, 36, guid, 8)
      BY <2>3, Zenon
    <3> DEFINE m == i - 36
    <3>2. m \in 1 .. 8
      BY <2>7, SMT
    <3>3. PICK j \in 1 .. 8 \ {m} : VariableGuid[j] # AuthenticatedVariableGuid[j]
      BY <3>2, Zenon DEF GuidsTell
    <3>4. 36 + j \in 1 .. 50 /\ 36 + j # i
      BY <3>3, SMT
    <3>5. guid[j] = h[36 + j] /\ f[36 + j] = AuthenticatedVariableGuid[j]
      BY <2>4, <3>1, <3>3, Zenon DEF At
    <3>6. guid[j] = AuthenticatedVariableGuid[j]
      BY <1>2, <3>4, <3>5, Zenon
    <3>7. guid = AuthenticatedVariableGuid
      BY <3>1, <3>3, <3>6, Zenon
    <3> QED BY <2>2, <2>4, <2>5, <2>7, <3>1, <3>7, Zenon
  <2> QED BY <2>1, <2>6, <2>7, Zenon
<1>10. i \in 1 .. 36 \/ i \in 37 .. 46 \/ i \in 47 .. 50
  BY SMT
<1> QED BY <1>6, <1>8, <1>9, <1>10, Zenon
=============================================================================
