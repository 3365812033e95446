--------------------------- MODULE GeneratedProofs --------------------------
(***************************************************************************)
(* Theorems about the two codecs of what has no parts: what endpoint.mjs   *)
(* writes is what postcard writes, and each end reads what either wrote.   *)
(* They hold for every width of a byte and of a number, so for seven bits  *)
(* and for u128, where the runs try small ones.  Then, for any trait and   *)
(* any flags, about the numbers its methods cross under.                   *)
(*                                                                         *)
(* The facts about data are proved by induction over a set of numbers:     *)
(* SetInduction, from the well-foundedness of <.                           *)
(***************************************************************************)
EXTENDS PostcardPrimitives, ShellPrimitives, Numbering, SequenceTheorems,
        WellFoundedInduction, TLAPS

(* A set of numbers that is not empty has a least element.                 *)
LEMMA LeastElement ==
  ASSUME NEW T, T \subseteq Nat, T # {}
  PROVE  \E x \in T : \A y \in T : x <= y
<1>1. PICK x \in T : \A y \in T : ~ (<<y, x>> \in OpToRel(<, Nat))
  BY NatLessThanWellFounded, WFMin
<1>2. \A y \in T : ~ (y < x)
  BY <1>1 DEF OpToRel
<1> QED
  BY <1>2

(* Induction: a set with 0 that is closed under + 1 has every number.      *)
LEMMA SetInduction ==
  ASSUME NEW S, 0 \in S, \A n \in Nat : n \in S => n + 1 \in S
  PROVE  \A n \in Nat : n \in S
<1> SUFFICES ASSUME NEW m \in Nat, m \notin S PROVE FALSE
  OBVIOUS
<1> DEFINE Others == {n \in Nat : n \notin S}
<1>1. Others \subseteq Nat /\ Others # {}
  OBVIOUS
<1>2. PICK x \in Others : \A y \in Others : x <= y
  <2> HIDE DEF Others
  <2> QED BY <1>1, LeastElement
<1> QED
  BY <1>2

-----------------------------------------------------------------------------
(* Functions defined by recursion exist.                                   *)

(* f obeys the recursion as far as n.                                      *)
Obeys(f, n, first, step) ==
  /\ f \in [0 .. n -> Nat]
  /\ f[0] = first
  /\ \A i \in 1 .. n : f[i] = step[<<f[i - 1], i>>]

(* There is such a function, as far as one likes.                          *)
LEMMA RecursionTo ==
  ASSUME NEW first \in Nat, NEW step \in [Nat \X Nat -> Nat]
  PROVE  \A n \in Nat : \E f : Obeys(f, n, first, step)
<1> DEFINE S == {n \in Nat : \E f : Obeys(f, n, first, step)}
<1>1. 0 \in S
  <2>1. Obeys([i \in 0 .. 0 |-> first], 0, first, step)
    BY DEF Obeys
  <2> QED
    BY <2>1
<1>2. ASSUME NEW n \in Nat, n \in S
      PROVE  n + 1 \in S
  <2>1. PICK f : Obeys(f, n, first, step)
    BY <1>2
  <2> DEFINE next == step[<<f[n], n + 1>>]
             g == [i \in 0 .. n + 1 |-> IF i = n + 1 THEN next ELSE f[i]]
  <2>2. f[n] \in Nat /\ next \in Nat
    BY <2>1 DEF Obeys
  <2>3. next = step[<<f[n], n + 1>>]
    OBVIOUS
  <2> HIDE DEF next
  <2>4. g \in [0 .. n + 1 -> Nat] /\ g[0] = first
    BY <2>1, <2>2 DEF Obeys
  <2>5. g[n + 1] = next /\ \A i \in 0 .. n : g[i] = f[i]
    BY <2>2
  <2> HIDE DEF g
  <2>6. ASSUME NEW i \in 1 .. n + 1
        PROVE  g[i] = step[<<g[i - 1], i>>]
    <3>1. CASE i = n + 1
      <4>1. i - 1 = n /\ n \in 0 .. n
        BY <3>1
      <4>2. g[i - 1] = f[n] /\ g[i] = step[<<f[n], n + 1>>]
        BY <4>1, <3>1, <2>5, <2>3
      <4> QED
        BY <4>2, <3>1
    <3>2. CASE i # n + 1
      <4>1. i \in 1 .. n /\ i \in 0 .. n /\ i - 1 \in 0 .. n
        BY <3>2
      <4> QED
        BY <4>1, <2>1, <2>5 DEF Obeys
    <3> QED
      BY <3>1, <3>2
  <2>7. Obeys(g, n + 1, first, step)
    BY <2>4, <2>6 DEF Obeys
  <2> QED
    BY <2>7
<1>3. \A n \in Nat : n \in S
  <2> HIDE DEF S
  <2> QED BY <1>1, <1>2, SetInduction
<1> QED
  BY <1>3

(* Two such functions agree as far as both go.                             *)
LEMMA RecursionAgrees ==
  ASSUME NEW first, NEW step, NEW n \in Nat, NEW m \in Nat, NEW f, NEW g,
         Obeys(f, n, first, step), Obeys(g, m, first, step)
  PROVE  \A i \in Nat : i <= n /\ i <= m => f[i] = g[i]
<1> DEFINE S == {i \in Nat : i <= n /\ i <= m => f[i] = g[i]}
<1>1. 0 \in S
  BY DEF Obeys
<1>2. ASSUME NEW i \in Nat, i \in S
      PROVE  i + 1 \in S
  <2> SUFFICES ASSUME i + 1 <= n, i + 1 <= m
               PROVE  f[i + 1] = g[i + 1]
    OBVIOUS
  <2>1. i + 1 \in 1 .. n /\ i + 1 \in 1 .. m /\ (i + 1) - 1 = i
    OBVIOUS
  <2>2. f[i + 1] = step[<<f[i], i + 1>>] /\ g[i + 1] = step[<<g[i], i + 1>>]
    BY <2>1 DEF Obeys
  <2> QED
    BY <2>2, <1>2
<1>3. \A i \in Nat : i \in S
  <2> HIDE DEF S
  <2> QED BY <1>1, <1>2, SetInduction
<1> QED
  BY <1>3

(* There is one for all numbers.                                           *)
LEMMA RecursionOnNat ==
  ASSUME NEW first \in Nat, NEW step \in [Nat \X Nat -> Nat]
  PROVE  \E f \in [Nat -> Nat] :
           f[0] = first /\ \A n \in Nat \ {0} : f[n] = step[<<f[n - 1], n>>]
<1> DEFINE To(n) == CHOOSE g : Obeys(g, n, first, step)
           f == [n \in Nat |-> To(n)[n]]
<1>1. \A n \in Nat : Obeys(To(n), n, first, step)
  BY RecursionTo
<1>2. \A n \in Nat : f[n] = To(n)[n]
  OBVIOUS
<1> HIDE DEF To
<1>3. f \in [Nat -> Nat]
  BY <1>1 DEF Obeys
<1> HIDE DEF f
<1>4. f[0] = first
  BY <1>1, <1>2 DEF Obeys
<1>5. ASSUME NEW n \in Nat \ {0}
      PROVE  f[n] = step[<<f[n - 1], n>>]
  <2>1. n - 1 \in Nat /\ n \in 1 .. n /\ n - 1 <= n /\ n - 1 <= n - 1
    OBVIOUS
  <2>2. To(n)[n] = step[<<To(n)[n - 1], n>>]
    BY <1>1, <2>1 DEF Obeys
  <2>3. To(n)[n - 1] = To(n - 1)[n - 1]
    BY <1>1, <2>1, RecursionAgrees
  <2> QED
    BY <2>1, <2>2, <2>3, <1>2
<1> QED
  BY <1>3, <1>4, <1>5

-----------------------------------------------------------------------------
(* Powers.                                                                 *)
LEMMA PowerDef ==
  ASSUME NEW b \in Nat
  PROVE  /\ Power(b)[0] = 1
         /\ \A k \in Nat : Power(b)[k] \in Nat
         /\ \A k \in Nat : Power(b)[k + 1] = b * Power(b)[k]
<1> DEFINE step == [x \in Nat \X Nat |-> b * x[1]]
<1>1. PICK f \in [Nat -> Nat] :
        f[0] = 1 /\ \A n \in Nat \ {0} : f[n] = step[<<f[n - 1], n>>]
  <2>1. step \in [Nat \X Nat -> Nat] /\ 1 \in Nat
    OBVIOUS
  <2> HIDE DEF step
  <2> QED BY <2>1, RecursionOnNat
<1>2. ASSUME NEW n \in Nat \ {0}
      PROVE  f[n] = b * f[n - 1]
  <2>1. <<f[n - 1], n>> \in Nat \X Nat
    OBVIOUS
  <2> QED
    BY <2>1, <1>1
<1>3. f = [k \in Nat |-> IF k = 0 THEN 1 ELSE b * f[k - 1]]
  BY <1>1, <1>2
<1>4. Power(b) = [k \in Nat |-> IF k = 0 THEN 1 ELSE b * Power(b)[k - 1]]
  BY <1>3 DEF Power
<1>5. Power(b)[0] = 1 /\ \A k \in Nat \ {0} : Power(b)[k] = b * Power(b)[k - 1]
  <2> DEFINE p == Power(b)
  <2>1. p = [k \in Nat |-> IF k = 0 THEN 1 ELSE b * p[k - 1]]
    BY <1>4
  <2> HIDE DEF p
  <2>2. p[0] = 1 /\ \A k \in Nat \ {0} : p[k] = b * p[k - 1]
    BY <2>1
  <2> QED
    BY <2>2 DEF p
<1> QED
  <2> DEFINE p == Power(b)
  <2>1. p = [k \in Nat |-> IF k = 0 THEN 1 ELSE b * p[k - 1]]
    BY <1>4
  <2>2. p[0] = 1 /\ \A k \in Nat \ {0} : p[k] = b * p[k - 1]
    BY <1>5
  <2> HIDE DEF p
  <2>3. \A k \in Nat : k + 1 \in Nat \ {0} /\ (k + 1) - 1 = k
    OBVIOUS
  <2>4. \A k \in Nat : p[k + 1] = b * p[k]
    BY <2>2, <2>3
  <2>5. \A k \in Nat : p[k] = f[k]
    <3> DEFINE Same == {k \in Nat : p[k] = f[k]}
    <3>1. 0 \in Same
      BY <2>2, <1>1
    <3>2. ASSUME NEW k \in Nat, k \in Same
          PROVE  k + 1 \in Same
      BY <3>2, <2>4, <2>3, <1>2
    <3>3. \A k \in Nat : k \in Same
      <4> HIDE DEF Same
      <4> QED BY <3>1, <3>2, SetInduction
    <3> QED
      BY <3>3
  <2> QED
    BY <2>2, <2>4, <2>5, <1>1 DEF p

(* A power is greater than its exponent.                                   *)
LEMMA PowerGrows ==
  ASSUME NEW b \in Nat, b >= 2
  PROVE  \A k \in Nat : Power(b)[k] > k
<1> DEFINE S == {k \in Nat : Power(b)[k] > k}
<1>1. 0 \in S
  BY PowerDef
<1>2. ASSUME NEW k \in Nat, k \in S
      PROVE  k + 1 \in S
  <2> DEFINE p == Power(b)[k]
  <2>1. p \in Nat /\ p > k /\ Power(b)[k + 1] = b * p
    BY <1>2, PowerDef
  <2> HIDE DEF p
  <2>2. b * p >= 2 * p
    BY <2>1
  <2> QED
    BY <2>1, <2>2
<1>3. \A k \in Nat : k \in S
  <2> HIDE DEF S
  <2> QED BY <1>1, <1>2, SetInduction
<1> QED
  BY <1>3

LEMMA PowerPositive ==
  ASSUME NEW b \in Nat, b >= 2
  PROVE  \A k \in Nat : Power(b)[k] \in Nat \ {0}
BY PowerDef, PowerGrows

(* A width holds some numbers.                                             *)
LEMMA WidthPositive == \A bits \in Nat : Power(2)[bits] \in Nat \ {0}
BY PowerPositive

LEMMA PowerMonotone ==
  ASSUME NEW b \in Nat \ {0}
  PROVE  \A i, j \in Nat : i <= j => Power(b)[i] <= Power(b)[j]
<1> DEFINE S == {d \in Nat : \A i \in Nat : Power(b)[i] <= Power(b)[i + d]}
<1>1. 0 \in S
  BY PowerDef
<1>2. ASSUME NEW d \in Nat, d \in S
      PROVE  d + 1 \in S
  <2> SUFFICES ASSUME NEW i \in Nat
               PROVE  Power(b)[i] <= Power(b)[i + (d + 1)]
    OBVIOUS
  <2> DEFINE p == Power(b)[i + d]
  <2>1. p \in Nat /\ Power(b)[i] \in Nat /\ Power(b)[i] <= p /\ Power(b)[(i + d) + 1] = b * p
    BY <1>2, PowerDef
  <2> HIDE DEF p
  <2>2. b * p >= p
    BY <2>1
  <2>3. i + (d + 1) = (i + d) + 1
    OBVIOUS
  <2> QED
    BY <2>1, <2>2, <2>3
<1>3. \A d \in Nat : d \in S
  <2> HIDE DEF S
  <2> QED BY <1>1, <1>2, SetInduction
<1>4. ASSUME NEW i \in Nat, NEW j \in Nat, i <= j
      PROVE  Power(b)[i] <= Power(b)[j]
  <2>1. j - i \in Nat /\ i + (j - i) = j
    BY <1>4
  <2> QED
    BY <2>1, <1>3
<1> QED
  BY <1>4

(* The scale of a message.                                                 *)
LEMMA Scale ==
  /\ Group \in Nat /\ Group >= 2
  /\ Byte \in Nat /\ Byte = 2 * Group
<1>1. Power(2)[GroupBits] \in Nat /\ Power(2)[GroupBits] > GroupBits
  BY PowerDef, PowerGrows, ScaleAssumption
<1> QED
  BY <1>1, ScaleAssumption DEF Group, Byte

-----------------------------------------------------------------------------
(* Division.                                                               *)
LEMMA Division ==
  ASSUME NEW n \in Nat, NEW d \in Nat \ {0}
  PROVE  /\ n \div d \in Nat
         /\ n % d \in Nat
         /\ n % d < d
         /\ n = d * (n \div d) + (n % d)
OBVIOUS

LEMMA DivisionUnique ==
  ASSUME NEW n \in Nat, NEW d \in Nat \ {0}, NEW q \in Nat, NEW r \in Nat,
         n = d * q + r, r < d
  PROVE  n \div d = q /\ n % d = r
<1> DEFINE qq == n \div d
           rr == n % d
<1>1. qq \in Nat /\ rr \in Nat /\ rr < d /\ n = d * qq + rr
  BY Division
<1> HIDE DEF qq, rr
<1>2. d * (q - qq) = rr - r
  BY <1>1
<1>3. q - qq >= 1 => d * (q - qq) >= d
  BY <1>1
<1>4. qq - q >= 1 => d * (qq - q) >= d
  BY <1>1
<1>5. d * (qq - q) = r - rr
  BY <1>1
<1>6. q = qq
  BY <1>1, <1>2, <1>3, <1>4, <1>5
<1> QED
  BY <1>1, <1>6 DEF qq, rr
-----------------------------------------------------------------------------
(* Digits.                                                                 *)

(* A number seen through the power base ^ k: what is above it, and below.  *)
LEMMA DigitStep ==
  ASSUME NEW base \in Nat, base >= 2, NEW n \in Nat, NEW k \in Nat
  PROVE  /\ n \div Power(base)[k + 1] = (n \div Power(base)[k]) \div base
         /\ n % Power(base)[k + 1] =
              (n % Power(base)[k]) + ((n \div Power(base)[k]) % base) * Power(base)[k]
<1> DEFINE p == Power(base)[k]
           q == n \div p
           r == n % p
           high == q \div base
           digit == q % base
<1>1. p \in Nat \ {0} /\ Power(base)[k + 1] = base * p
  BY PowerDef, PowerGrows
<1> HIDE DEF p
<1>2. q \in Nat /\ r \in Nat /\ r < p /\ n = p * q + r
  BY <1>1, Division
<1> HIDE DEF q, r
<1>3. high \in Nat /\ digit \in Nat /\ digit < base /\ q = base * high + digit
  BY <1>2, Division
<1> HIDE DEF high, digit
<1>4. n = (base * p) * high + (r + digit * p)
  <2>1. p * (base * high + digit) = (base * p) * high + digit * p
    BY <1>1, <1>3
  <2>2. digit * p \in Nat /\ (base * p) * high \in Nat
    BY <1>1, <1>3
  <2> QED
    BY <1>2, <1>3, <2>1, <2>2
<1>5. r + digit * p \in Nat /\ r + digit * p < base * p
  <2>1. digit * p \in Nat /\ base * p \in Nat
    BY <1>1, <1>3
  <2>2. (digit + 1) * p <= base * p
    BY <1>1, <1>3
  <2>3. (digit + 1) * p = digit * p + p
    BY <1>1, <1>3
  <2> QED
    BY <1>1, <1>2, <2>1, <2>2, <2>3
<1>6. base * p \in Nat \ {0}
  BY <1>1, <1>5
<1>7. n \div (base * p) = high /\ n % (base * p) = r + digit * p
  BY <1>3, <1>4, <1>5, <1>6, DivisionUnique
<1> QED
  BY <1>1, <1>7 DEF p, q, r, high, digit

LEMMA FirstDigit ==
  ASSUME NEW base \in Nat, NEW n \in Nat
  PROVE  n \div Power(base)[0] = n /\ n % Power(base)[0] = 0
<1>1. n \div 1 = n /\ n % 1 = 0
  OBVIOUS
<1> QED
  BY <1>1, PowerDef

LEMMA DigitsType ==
  ASSUME NEW base \in Nat, base >= 2, NEW n \in Nat, NEW k \in Nat
  PROVE  /\ Digits(n, base, k) \in Seq(0 .. base - 1)
         /\ Len(Digits(n, base, k)) = k
         /\ DOMAIN Digits(n, base, k) = 1 .. k
         /\ \A i \in 1 .. k : Digits(n, base, k)[i] = (n \div Power(base)[i - 1]) % base
<1>1. ASSUME NEW i \in 1 .. k
      PROVE  (n \div Power(base)[i - 1]) % base \in 0 .. base - 1
  <2> DEFINE p == Power(base)[i - 1]
  <2>1. i - 1 \in Nat
    OBVIOUS
  <2>2. p \in Nat \ {0}
    BY <2>1, PowerDef, PowerGrows
  <2> HIDE DEF p
  <2>3. n \div p \in Nat
    BY <2>2, Division
  <2>4. (n \div p) % base \in Nat /\ (n \div p) % base < base
    BY <2>3, Division
  <2> QED
    BY <2>4 DEF p
<1>2. Digits(n, base, k) \in [1 .. k -> 0 .. base - 1]
  BY <1>1 DEF Digits
<1> QED
  BY <1>2, LenProperties, ElementOfSeq, IsASeq DEF Digits

(* A number is the sum of its digits.                                      *)
LEMMA NumberOfDef ==
  ASSUME NEW base \in Nat, NEW digits \in Seq(Nat)
  PROVE  \E sum : /\ sum[0] = 0
                  /\ \A k \in 0 .. Len(digits) : sum[k] \in Nat
                  /\ \A k \in 1 .. Len(digits) :
                       sum[k] = sum[k - 1] + digits[k] * Power(base)[k - 1]
                  /\ NumberOf(digits, base) = sum[Len(digits)]
<1> DEFINE n == Len(digits)
           Part(k) == IF k \in 1 .. n THEN digits[k] * Power(base)[k - 1] ELSE 0
           step == [x \in Nat \X Nat |-> x[1] + Part(x[2])]
<1>1. n \in Nat /\ \A k \in 1 .. n : digits[k] \in Nat
  BY LenProperties, ElementOfSeq
<1>2. \A k \in Nat : Part(k) \in Nat
  <2> SUFFICES ASSUME NEW k \in 1 .. n
               PROVE  digits[k] * Power(base)[k - 1] \in Nat
    OBVIOUS
  <2>1. Power(base)[k - 1] \in Nat
    BY <1>1, PowerDef
  <2> QED
    BY <1>1, <2>1
<1> HIDE DEF n
<1> HIDE DEF Part
<1>3. step \in [Nat \X Nat -> Nat] /\ 0 \in Nat
  <2>1. ASSUME NEW x \in Nat \X Nat
        PROVE  x[1] + Part(x[2]) \in Nat
    <3>1. x[1] \in Nat /\ x[2] \in Nat
      OBVIOUS
    <3>2. Part(x[2]) \in Nat
      BY <3>1, <1>2
    <3> QED
      BY <3>1, <3>2
  <2> QED
    BY <2>1
<1>4. PICK f : Obeys(f, n, 0, step)
  <2> HIDE DEF step
  <2> QED BY <1>1, <1>3, RecursionTo
<1>5. f \in [0 .. n -> Nat] /\ f[0] = 0
  BY <1>4 DEF Obeys
<1>6. ASSUME NEW k \in 1 .. n
      PROVE  f[k] = f[k - 1] + digits[k] * Power(base)[k - 1]
  <2>1. k - 1 \in 0 .. n /\ f[k - 1] \in Nat /\ k \in Nat
    BY <1>1, <1>5
  <2>2. f[k] = step[<<f[k - 1], k>>] /\ <<f[k - 1], k>> \in Nat \X Nat
    BY <1>4, <2>1 DEF Obeys
  <2>3. f[k] = f[k - 1] + Part(k)
    BY <2>2
  <2> QED
    BY <2>3 DEF Part
<1>7. f = [k \in 0 .. n |-> IF k = 0 THEN 0 ELSE f[k - 1] + digits[k] * Power(base)[k - 1]]
  BY <1>1, <1>5, <1>6
<1> DEFINE sum == CHOOSE sum : sum = [k \in 0 .. n |->
                    IF k = 0 THEN 0 ELSE sum[k - 1] + digits[k] * Power(base)[k - 1]]
<1>8. sum = [k \in 0 .. n |-> IF k = 0 THEN 0 ELSE sum[k - 1] + digits[k] * Power(base)[k - 1]]
  BY <1>7
<1>9. NumberOf(digits, base) = sum[n]
  BY DEF NumberOf, n
<1> HIDE DEF sum
<1>10. sum[0] = 0 /\ \A k \in 1 .. n : sum[k] = sum[k - 1] + digits[k] * Power(base)[k - 1]
  BY <1>1, <1>8
<1>11. \A k \in Nat : k <= n => sum[k] = f[k]
  <2> DEFINE S == {k \in Nat : k <= n => sum[k] = f[k]}
  <2>1. 0 \in S
    BY <1>5, <1>10
  <2>2. ASSUME NEW k \in Nat, k \in S
        PROVE  k + 1 \in S
    <3> SUFFICES ASSUME k + 1 <= n
                 PROVE  sum[k + 1] = f[k + 1]
      OBVIOUS
    <3>1. k + 1 \in 1 .. n /\ (k + 1) - 1 = k /\ sum[k] = f[k]
      BY <1>1, <2>2
    <3> QED
      BY <3>1, <1>6, <1>10
  <2>3. \A k \in Nat : k \in S
    <3> HIDE DEF S
    <3> QED BY <2>1, <2>2, SetInduction
  <2> QED
    BY <2>3
<1>12. \A k \in 0 .. n : sum[k] \in Nat
  BY <1>1, <1>5, <1>11
<1> QED
  BY <1>9, <1>10, <1>12 DEF n

(* Digits and NumberOf are inverse as far as the digits go.                *)
LEMMA NumberOfDigits ==
  ASSUME NEW base \in Nat, base >= 2, NEW n \in Nat, NEW k \in Nat
  PROVE  NumberOf(Digits(n, base, k), base) = n % Power(base)[k]
<1> DEFINE digits == Digits(n, base, k)
<1>1. digits \in Seq(Nat) /\ Len(digits) = k
  <2>1. 0 .. base - 1 \subseteq Nat
    OBVIOUS
  <2> QED
    BY <2>1, DigitsType, SeqMonotonic
<1>2. \A i \in 1 .. k : digits[i] = (n \div Power(base)[i - 1]) % base
  BY DigitsType
<1> HIDE DEF digits
<1>3. PICK sum : /\ sum[0] = 0
                 /\ \A i \in 1 .. k : sum[i] = sum[i - 1] + digits[i] * Power(base)[i - 1]
                 /\ NumberOf(digits, base) = sum[k]
  BY <1>1, NumberOfDef
<1> DEFINE S == {i \in Nat : i <= k => sum[i] = n % Power(base)[i]}
<1>4. 0 \in S
  BY <1>3, FirstDigit
<1>5. ASSUME NEW i \in Nat, i \in S
      PROVE  i + 1 \in S
  <2> SUFFICES ASSUME i + 1 <= k
               PROVE  sum[i + 1] = n % Power(base)[i + 1]
    OBVIOUS
  <2>1. i + 1 \in 1 .. k /\ (i + 1) - 1 = i
    OBVIOUS
  <2>2. sum[i] = n % Power(base)[i]
    BY <1>5
  <2>3. sum[i + 1] = sum[i] + ((n \div Power(base)[i]) % base) * Power(base)[i]
    BY <1>2, <1>3, <2>1
  <2> QED
    BY <2>2, <2>3, DigitStep
<1>6. \A i \in Nat : i \in S
  <2> HIDE DEF S
  <2> QED BY <1>4, <1>5, SetInduction
<1> QED
  BY <1>3, <1>6 DEF digits
LEMMA QuotientType ==
  ASSUME NEW base \in Nat, base >= 2, NEW n \in Nat
  PROVE  \A k \in Nat : n \div Power(base)[k] \in Nat
<1>1. ASSUME NEW k \in Nat
      PROVE  n \div Power(base)[k] \in Nat
  <2>1. Power(base)[k] \in Nat \ {0}
    BY PowerDef, PowerGrows
  <2> QED
    BY <2>1, Division
<1> QED
  BY <1>1

LEMMA NextRemainder ==
  ASSUME NEW d \in Nat \ {0}, NEW n \in Nat, n < d
  PROVE  (n + d) % d = n
<1>1. n + d \in Nat /\ n + d = d * 1 + n /\ 1 \in Nat
  OBVIOUS
<1> QED
  BY <1>1, DivisionUnique

LEMMA SmallRemainder ==
  ASSUME NEW d \in Nat \ {0}, NEW n \in Nat, n < d
  PROVE  n % d = n
OBVIOUS

-----------------------------------------------------------------------------
(* Writing a varint.                                                       *)

LEMMA QuotientBelow ==
  ASSUME NEW n \in Nat, NEW d \in Nat \ {0}, NEW g \in Nat
  PROVE  n \div d < g <=> n < g * d
<1> DEFINE q == n \div d
           r == n % d
<1>1. q \in Nat /\ r \in Nat /\ r < d /\ n = d * q + r
  BY Division
<1> HIDE DEF q, r
<1>2. q < g => d * (q + 1) <= g * d
  BY <1>1
<1>3. d * (q + 1) = d * q + d
  BY <1>1
<1>4. ~ (q < g) => d * q >= g * d
  BY <1>1
<1>5. d * q \in Nat /\ g * d \in Nat
  BY <1>1
<1> QED
  BY <1>1, <1>2, <1>3, <1>4, <1>5 DEF q

(* The length of a varint is the number of digits.                         *)
LEMMA VarintLengthDef ==
  ASSUME NEW n \in Nat
  PROVE  /\ VarintLength(n) \in Nat \ {0}
         /\ n < Power(Group)[VarintLength(n)]
         /\ VarintLength(n) = 1 \/ Power(Group)[VarintLength(n) - 1] <= n
<1> DEFINE T == {k \in Nat \ {0} : n < Power(Group)[k]}
<1>1. n + 1 \in T
  BY Scale, PowerDef, PowerGrows
<1>2. PICK k \in T : \A j \in T : k <= j
  <2>1. T \subseteq Nat /\ T # {}
    BY <1>1
  <2> HIDE DEF T
  <2> QED BY <2>1, LeastElement
<1>3. k \in 1 .. n + 1
  BY <1>1, <1>2
<1>4. k = 1 \/ Power(Group)[k - 1] <= n
  <2>1. SUFFICES ASSUME k # 1, ~ (Power(Group)[k - 1] <= n)
                 PROVE  FALSE
    OBVIOUS
  <2>2. k - 1 \in Nat \ {0}
    BY <2>1, <1>3
  <2>3. Power(Group)[k - 1] \in Nat
    BY <2>2, Scale, PowerDef
  <2>4. k - 1 \in T
    BY <2>1, <2>2, <2>3
  <2> QED
    BY <2>4, <1>2, <1>3
<1>5. \E l \in 1 .. n + 1 : n < Power(Group)[l] /\ (l = 1 \/ Power(Group)[l - 1] <= n)
  BY <1>2, <1>3, <1>4
<1> QED
  BY <1>5 DEF VarintLength

(* Before the last digit a quotient is too large for one byte, and then it *)
(* is the digit.                                                           *)
LEMMA VarintQuotients ==
  ASSUME NEW n \in Nat
  PROVE  /\ n \div Power(Group)[VarintLength(n) - 1] < Group
         /\ \A j \in 0 .. VarintLength(n) - 2 : n \div Power(Group)[j] >= Group
<1> DEFINE l == VarintLength(n)
<1>1. l \in Nat \ {0} /\ n < Power(Group)[l] /\ (l = 1 \/ Power(Group)[l - 1] <= n)
  BY VarintLengthDef
<1> HIDE DEF l
<1>2. \A j \in Nat : /\ Power(Group)[j] \in Nat \ {0}
                     /\ Power(Group)[j + 1] = Group * Power(Group)[j]
  BY Scale, PowerDef, PowerGrows
<1>3. ASSUME NEW j \in Nat
      PROVE  n \div Power(Group)[j] < Group <=> n < Power(Group)[j + 1]
  <2>1. n \div Power(Group)[j] < Group <=> n < Group * Power(Group)[j]
    BY <1>2, Scale, QuotientBelow
  <2> QED
    BY <2>1, <1>2
<1>4. n \div Power(Group)[l - 1] < Group
  <2>1. l - 1 \in Nat /\ (l - 1) + 1 = l
    BY <1>1
  <2> QED
    BY <2>1, <1>1, <1>3
<1>5. ASSUME NEW j \in 0 .. l - 2
      PROVE  n \div Power(Group)[j] >= Group
  <2>1. j \in Nat /\ j + 1 \in Nat /\ l - 1 \in Nat /\ j + 1 <= l - 1 /\ l # 1
    BY <1>1
  <2>2. Power(Group)[j + 1] <= Power(Group)[l - 1]
    BY <2>1, Scale, PowerMonotone
  <2>3. ~ (n < Power(Group)[j + 1])
    BY <1>1, <1>2, <2>1, <2>2
  <2>4. n \div Power(Group)[j] \in Nat
    BY <1>2, <2>1, Division
  <2> QED
    BY <2>1, <2>3, <2>4, <1>3, Scale
<1> QED
  BY <1>4, <1>5 DEF l

(* endpoint.mjs and postcard write the same bytes for a number, cut to its *)
(* width: the loop that shifts groups out of the number (Writer.varint32,  *)
(* varintBig) writes its digits, and no more of them than it needs.        *)
THEOREM VarintWritersAgree ==
  ASSUME NEW value \in Nat, NEW bits \in Nat
  PROVE  WriteVarint(value, bits) = Varint(value % Power(2)[bits])
<1> DEFINE n == value % Power(2)[bits]
           l == VarintLength(n)
<1>1. n \in Nat
  BY PowerDef, PowerGrows, Division
<1> HIDE DEF n
<1>2. l \in Nat \ {0}
  BY <1>1, VarintLengthDef
<1>3. /\ n \div Power(Group)[l - 1] < Group
      /\ \A j \in 0 .. l - 2 : n \div Power(Group)[j] >= Group
  BY <1>1, VarintQuotients
<1> DEFINE step == [x \in Nat \X Nat |-> x[1] \div Group]
<1>4. PICK f \in [Nat -> Nat] : f[0] = n /\ \A k \in Nat \ {0} : f[k] = step[<<f[k - 1], k>>]
  <2>1. step \in [Nat \X Nat -> Nat]
    <3>1. ASSUME NEW x \in Nat \X Nat
          PROVE  x[1] \div Group \in Nat
      <4>1. x[1] \in Nat
        OBVIOUS
      <4> QED
        BY <4>1, Scale, Division
    <3> QED
      BY <3>1
  <2> HIDE DEF step
  <2> QED BY <1>1, <2>1, RecursionOnNat
<1>5. ASSUME NEW k \in Nat \ {0}
      PROVE  f[k] = f[k - 1] \div Group
  <2>1. <<f[k - 1], k>> \in Nat \X Nat
    OBVIOUS
  <2> QED
    BY <2>1, <1>4
<1>6. f = [round \in Nat |-> IF round = 0 THEN n ELSE f[round - 1] \div Group]
  BY <1>4, <1>5
<1> DEFINE rest == CHOOSE rest : rest = [round \in Nat |->
                     IF round = 0 THEN n ELSE rest[round - 1] \div Group]
           rounds == CHOOSE k \in 0 .. rest[0] :
                       rest[k] < Group /\ \A j \in 0 .. k - 1 : rest[j] >= Group
<1>7. rest = [round \in Nat |-> IF round = 0 THEN n ELSE rest[round - 1] \div Group]
  BY <1>6
<1>8. WriteVarint(value, bits) =
        [i \in 1 .. rounds + 1 |->
          IF i <= rounds THEN (rest[i - 1] % Group) + Group ELSE rest[rounds]]
  BY DEF WriteVarint, n
<1> HIDE DEF rest
<1>9. \A k \in Nat : rest[k] = n \div Power(Group)[k]
  <2> DEFINE S == {k \in Nat : rest[k] = n \div Power(Group)[k]}
  <2>1. 0 \in S
    BY <1>1, <1>7, Scale, FirstDigit
  <2>2. ASSUME NEW k \in Nat, k \in S
        PROVE  k + 1 \in S
    <3>1. k + 1 \in Nat \ {0} /\ (k + 1) - 1 = k
      OBVIOUS
    <3>2. rest[k + 1] = rest[k] \div Group
      BY <3>1, <1>7
    <3> QED
      BY <3>2, <2>2, <1>1, Scale, DigitStep
  <2>3. \A k \in Nat : k \in S
    <3> HIDE DEF S
    <3> QED BY <2>1, <2>2, SetInduction
  <2> QED
    BY <2>3
<1>10. \A k \in Nat : rest[k] \in Nat
  BY <1>1, <1>9, Scale, QuotientType
<1>11. rounds = l - 1
  <2>1. l - 1 \in 0 .. rest[0]
    <3>1. rest[0] = n
      BY <1>7
    <3>2. l = 1 \/ Power(Group)[l - 1] <= n
      BY <1>1, VarintLengthDef
    <3>3. Power(Group)[l - 1] \in Nat /\ Power(Group)[l - 1] > l - 1
      <4>1. l - 1 \in Nat
        BY <1>2
      <4> QED
        BY <4>1, Scale, PowerDef, PowerGrows
    <3> QED
      BY <1>1, <1>2, <3>1, <3>2, <3>3
  <2>2. rest[l - 1] < Group /\ \A j \in 0 .. (l - 1) - 1 : rest[j] >= Group
    BY <1>2, <1>3, <1>9
  <2>3. /\ rounds \in 0 .. rest[0]
        /\ rest[rounds] < Group
        /\ \A j \in 0 .. rounds - 1 : rest[j] >= Group
    BY <2>1, <2>2
  <2> HIDE DEF rounds
  <2>4. ~ (rounds < l - 1)
    BY <1>2, <1>10, <2>2, <2>3, Scale
  <2>5. ~ (l - 1 < rounds)
    BY <1>2, <1>10, <2>2, <2>3, Scale
  <2> QED
    BY <1>2, <1>10, <2>3, <2>4, <2>5
<1> DEFINE digits == Digits(n, Group, l)
<1>12. Varint(n) = [i \in DOMAIN digits |-> digits[i] + (IF i < Len(digits) THEN Group ELSE 0)]
  BY DEF Varint
<1> HIDE DEF l, rounds
<1>13. /\ Len(digits) = l
       /\ DOMAIN digits = 1 .. l
       /\ \A i \in 1 .. l : digits[i] = (n \div Power(Group)[i - 1]) % Group
  BY <1>1, <1>2, Scale, DigitsType
<1> HIDE DEF digits
<1>14. \A i \in 1 .. l : i - 1 \in Nat /\ digits[i] = rest[i - 1] % Group
  BY <1>2, <1>9, <1>13
<1>15. digits[l] = rest[l - 1] /\ rest[l - 1] \in Nat
  <2>1. l - 1 \in Nat /\ l \in 1 .. l
    BY <1>2
  <2>2. rest[l - 1] \in Nat /\ rest[l - 1] < Group
    BY <2>1, <1>3, <1>9, <1>10
  <2>3. rest[l - 1] % Group = rest[l - 1]
    BY <2>2, Scale, SmallRemainder
  <2> QED
    BY <2>1, <2>2, <2>3, <1>14
<1>16. [i \in 1 .. rounds + 1 |-> IF i <= rounds THEN (rest[i - 1] % Group) + Group ELSE rest[rounds]]
         = [i \in 1 .. l |-> digits[i] + (IF i < l THEN Group ELSE 0)]
  <2>1. rounds + 1 = l
    BY <1>2, <1>11
  <2>2. ASSUME NEW i \in 1 .. l
        PROVE  (IF i <= rounds THEN (rest[i - 1] % Group) + Group ELSE rest[rounds])
                 = digits[i] + (IF i < l THEN Group ELSE 0)
    <3>1. CASE i < l
      BY <3>1, <1>2, <1>11, <1>14
    <3>2. CASE i = l
      BY <3>2, <1>2, <1>11, <1>15
    <3> QED
      BY <3>1, <3>2, <1>2
  <2> QED
    BY <2>1, <2>2
<1>17. WriteVarint(value, bits) = Varint(n)
  BY <1>8, <1>12, <1>13, <1>16 DEF rounds
<1> QED
  BY <1>17 DEF n
-----------------------------------------------------------------------------
(* Reading a varint.                                                       *)

(* A reader that has not thrown.                                           *)
Reader(in, js, out) == [in |-> in, js |-> js, out |-> out, ok |-> TRUE]

(* The groups of a run of bytes, as far as k.                              *)
Low(in, k) == [i \in 1 .. k |-> in[i] % Group]

LEMMA LowType ==
  ASSUME NEW in \in Seq(0 .. Byte - 1), NEW k \in 0 .. Len(in)
  PROVE  Low(in, k) \in Seq(Nat) /\ NumberOf(Low(in, k), Group) \in Nat
<1>1. ASSUME NEW i \in 1 .. k
      PROVE  in[i] % Group \in Nat
  <2>1. in[i] \in Nat
    BY ElementOfSeq, LenProperties, Scale
  <2> QED
    BY <2>1, Scale, Division
<1>2. k \in Nat
  BY LenProperties
<1>3. Low(in, k) \in Seq(Nat)
  BY <1>1, <1>2, IsASeq DEF Low
<1>4. NumberOf(Low(in, k), Group) \in Nat
  <2>1. Len(Low(in, k)) \in 0 .. Len(Low(in, k))
    BY <1>3, LenProperties
  <2> QED
    BY <1>3, <2>1, Scale, NumberOfDef
<1> QED
  BY <1>3, <1>4

(* The first byte that ends a varint is what both readers look for.        *)
LEMMA FirstEnd ==
  ASSUME NEW in \in Seq(0 .. Byte - 1), NEW k \in DOMAIN in, in[k] < Group,
         \A j \in 1 .. k - 1 : in[j] >= Group
  PROVE  /\ (CHOOSE i \in {i \in DOMAIN in : in[i] < Group} :
               \A j \in {j \in DOMAIN in : in[j] < Group} : i <= j) = k
         /\ {i \in DOMAIN in : in[i] < Group /\ \A j \in 1 .. i - 1 : in[j] >= Group} = {k}
<1>1. DOMAIN in = 1 .. Len(in) /\ Len(in) \in Nat
  BY LenProperties
<1>2. \A i \in DOMAIN in : in[i] \in Nat /\ i \in Nat
  BY <1>1, ElementOfSeq, Scale
<1> DEFINE ends == {i \in DOMAIN in : in[i] < Group}
           firsts == {i \in DOMAIN in : in[i] < Group /\ \A j \in 1 .. i - 1 : in[j] >= Group}
<1>3. \A i \in ends : k <= i
  BY <1>1, <1>2, Scale
<1>4. k \in ends
  OBVIOUS
<1>5. ASSUME NEW i \in ends, \A j \in ends : i <= j
      PROVE  i = k
  BY <1>1, <1>3, <1>4, <1>5
<1>6. (CHOOSE i \in ends : \A j \in ends : i <= j) = k
  <2> HIDE DEF ends
  <2> QED BY <1>3, <1>4, <1>5
<1>7. k \in firsts
  OBVIOUS
<1>8. ASSUME NEW i \in firsts
      PROVE  i = k
  <2>1. i \in Nat /\ k \in Nat /\ in[i] < Group /\ in[k] < Group /\ in[i] \in Nat /\ in[k] \in Nat
    BY <1>1, <1>2
  <2>2. ~ (k < i)
    BY <1>1, <2>1, Scale
  <2>3. ~ (i < k)
    BY <1>1, <2>1, Scale
  <2> QED
    BY <2>1, <2>2, <2>3
<1>9. firsts = {k}
  <2> HIDE DEF firsts
  <2> QED BY <1>7, <1>8
<1> QED
  BY <1>6, <1>9

(* What the two readers make of a run of bytes whose first end is k.       *)
LEMMA ReadersAt ==
  ASSUME NEW in \in Seq(0 .. Byte - 1), NEW js, NEW out, NEW bits \in Nat,
         NEW k \in DOMAIN in, in[k] < Group, \A j \in 1 .. k - 1 : in[j] >= Group
  PROVE  LET r == Reader(in, js, out)
             n == NumberOf(Low(in, k), Group)
         IN  /\ DeVarint(r, bits) =
                  IF ~ VarintMay(k, bits) \/ n >= Power(2)[bits] THEN Fail(r)
                  ELSE Give(Take(r, k), n)
             /\ ReadVarint(r, bits) = Give(Take(r, k), n % Power(2)[bits])
<1> DEFINE r == Reader(in, js, out)
           ends == {i \in DOMAIN r.in : r.in[i] < Group}
           first == CHOOSE i \in ends : \A j \in ends : i <= j
           firsts == {i \in DOMAIN r.in : r.in[i] < Group /\ \A j \in 1 .. i - 1 : r.in[j] >= Group}
<1>1. r.in = in
  BY DEF Reader
<1>2. first = k /\ firsts = {k} /\ ends # {}
  BY <1>1, FirstEnd
<1>3. (CHOOSE i \in firsts : TRUE) = k
  <2> HIDE DEF firsts
  <2> QED BY <1>2
<1>4. DeVarint(r, bits) =
        IF \/ ends = {} \/ ~ VarintMay(first, bits)
           \/ NumberOf(Low(r.in, first), Group) >= Power(2)[bits]
        THEN Fail(r)
        ELSE Give(Take(r, first), NumberOf(Low(r.in, first), Group))
  BY DEF DeVarint, Low
<1>5. ReadVarint(r, bits) =
        LET rounds == CHOOSE i \in firsts : TRUE
        IN  IF firsts = {} THEN Fail(r)
            ELSE Give(Take(r, rounds), NumberOf(Low(r.in, rounds), Group) % Power(2)[bits])
  BY DEF ReadVarint, Low
<1> HIDE DEF r, ends, first, firsts
<1>6. /\ DeVarint(r, bits) =
           IF ~ VarintMay(k, bits) \/ NumberOf(Low(in, k), Group) >= Power(2)[bits] THEN Fail(r)
           ELSE Give(Take(r, k), NumberOf(Low(in, k), Group))
      /\ ReadVarint(r, bits) = Give(Take(r, k), NumberOf(Low(in, k), Group) % Power(2)[bits])
  BY <1>1, <1>2, <1>3, <1>4, <1>5
<1> QED
  BY <1>6 DEF r

(* Whatever bytes arrive, minimal or not: a varint that postcard accepts   *)
(* is to endpoint.mjs the same number, and both leave the same bytes       *)
(* unread (Reader.varint32, varint64, varint128).                          *)
THEOREM VarintReadersAgree ==
  ASSUME NEW in \in Seq(0 .. Byte - 1), NEW js, NEW out, NEW bits \in Nat,
         DeVarint(Reader(in, js, out), bits).ok
  PROVE  ReadVarint(Reader(in, js, out), bits) = DeVarint(Reader(in, js, out), bits)
<1> DEFINE r == Reader(in, js, out)
           ends == {i \in DOMAIN in : in[i] < Group}
<1>1. r.in = in /\ Fail(r).ok = FALSE
  BY DEF Reader, Fail
<1>2. ends # {}
  <2>1. SUFFICES ASSUME ends = {}
                 PROVE  DeVarint(r, bits) = Fail(r)
    BY <1>1
  <2> QED
    BY <1>1, <2>1 DEF DeVarint
<1>3. DOMAIN in = 1 .. Len(in) /\ Len(in) \in Nat /\ \A i \in DOMAIN in : in[i] \in Nat
  BY LenProperties, ElementOfSeq, Scale
<1>4. PICK k \in ends : \A j \in ends : k <= j
  <2>1. ends \subseteq Nat
    BY <1>3
  <2> HIDE DEF ends
  <2> QED BY <1>2, <2>1, LeastElement
<1>5. k \in DOMAIN in /\ in[k] < Group
  OBVIOUS
<1>6. \A j \in 1 .. k - 1 : in[j] >= Group
  BY <1>3, <1>4, <1>5, Scale
<1> DEFINE n == NumberOf(Low(in, k), Group)
<1>7. /\ DeVarint(r, bits) =
           IF ~ VarintMay(k, bits) \/ n >= Power(2)[bits] THEN Fail(r) ELSE Give(Take(r, k), n)
      /\ ReadVarint(r, bits) = Give(Take(r, k), n % Power(2)[bits])
  BY <1>5, <1>6, ReadersAt
<1>8. n \in Nat
  <2>1. k \in 0 .. Len(in)
    BY <1>3, <1>5
  <2> QED
    BY <2>1, LowType
<1> HIDE DEF r, n
<1>9. Power(2)[bits] \in Nat \ {0}
  BY WidthPositive
<1>10. VarintMay(k, bits) /\ ~ (n >= Power(2)[bits])
  BY <1>1, <1>7 DEF r
<1>11. n % Power(2)[bits] = n
  BY <1>8, <1>9, <1>10, SmallRemainder
<1> QED
  BY <1>7, <1>10, <1>11 DEF r
-----------------------------------------------------------------------------
(* A number crosses.                                                       *)

(* The bytes of a varint: its digits, each but the last with the bit that  *)
(* says more follow.                                                       *)
LEMMA VarintType ==
  ASSUME NEW n \in Nat
  PROVE  /\ Varint(n) \in Seq(0 .. Byte - 1)
         /\ Len(Varint(n)) = VarintLength(n)
         /\ \A i \in 1 .. VarintLength(n) : Varint(n)[i] % Group = Digits(n, Group, VarintLength(n))[i]
         /\ Varint(n)[VarintLength(n)] < Group
         /\ \A i \in 1 .. VarintLength(n) - 1 : Varint(n)[i] >= Group
<1> DEFINE l == VarintLength(n)
           digits == Digits(n, Group, l)
           bytes == Varint(n)
<1>1. l \in Nat \ {0}
  BY VarintLengthDef
<1>2. bytes = [i \in DOMAIN digits |-> digits[i] + (IF i < Len(digits) THEN Group ELSE 0)]
  BY DEF Varint
<1> HIDE DEF l, bytes
<1>3. digits \in Seq(0 .. Group - 1) /\ Len(digits) = l /\ DOMAIN digits = 1 .. l
  BY <1>1, Scale, DigitsType
<1> HIDE DEF digits
<1>4. \A i \in 1 .. l : digits[i] \in Nat /\ digits[i] < Group
  <2>1. \A i \in 1 .. l : digits[i] \in 0 .. Group - 1
    BY <1>3, ElementOfSeq
  <2> QED
    BY <2>1, Scale
<1>5. bytes = [i \in 1 .. l |-> digits[i] + (IF i < l THEN Group ELSE 0)]
  BY <1>2, <1>3
<1>6. ASSUME NEW i \in 1 .. l
      PROVE  /\ bytes[i] \in 0 .. Byte - 1
             /\ bytes[i] % Group = digits[i]
             /\ i = l => bytes[i] < Group
             /\ i # l => bytes[i] >= Group
  <2>1. CASE i = l
    <3>1. bytes[i] = digits[i]
      BY <2>1, <1>1, <1>4, <1>5
    <3>2. bytes[i] % Group = digits[i]
      BY <3>1, <1>4, Scale, SmallRemainder
    <3> QED
      BY <3>1, <3>2, <2>1, <1>4, Scale
  <2>2. CASE i # l
    <3>1. bytes[i] = digits[i] + Group
      BY <2>2, <1>1, <1>5
    <3>2. digits[i] \in Nat /\ digits[i] < Group
      BY <1>4
    <3>3. bytes[i] % Group = digits[i]
      BY <3>1, <3>2, Scale, NextRemainder
    <3> QED
      BY <3>1, <3>2, <3>3, <2>2, Scale
  <2> QED
    BY <2>1, <2>2
<1>7. bytes \in Seq(0 .. Byte - 1) /\ Len(bytes) = l
  <2> DEFINE e(i) == digits[i] + (IF i < l THEN Group ELSE 0)
  <2>1. bytes = [i \in 1 .. l |-> e(i)] /\ \A i \in 1 .. l : e(i) = bytes[i]
    BY <1>5
  <2>2. \A i \in 1 .. l : e(i) \in 0 .. Byte - 1
    BY <2>1, <1>6
  <2> HIDE DEF e
  <2>3. [i \in 1 .. l |-> e(i)] \in Seq(0 .. Byte - 1) /\ Len([i \in 1 .. l |-> e(i)]) = l
    BY <2>2, <1>1
  <2> QED
    BY <2>1, <2>3
<1>8. l \in 1 .. l /\ \A i \in 1 .. l - 1 : i \in 1 .. l /\ i # l
  BY <1>1
<1> QED
  BY <1>6, <1>7, <1>8 DEF l, digits, bytes

LEMMA GiveReader ==
  ASSUME NEW in, NEW js, NEW out, NEW v
  PROVE  Give(Reader(in, js, out), v) = Reader(in, js, v)
<1> DEFINE R(o, ok) == [in |-> in, js |-> js, out |-> o, ok |-> ok]
<1>1. \A ok : [R(out, ok) EXCEPT !.out = v] = R(v, ok)
  OBVIOUS
<1>2. [R(out, TRUE) EXCEPT !.out = v] = R(v, TRUE)
  <2> HIDE DEF R
  <2> QED BY <1>1
<1> QED
  BY <1>2, Zenon DEF Give, Reader

(* A run of bytes in front of others is what Take gives.                   *)
LEMMA TakeFirst ==
  ASSUME NEW S, NEW first \in Seq(S), NEW tail \in Seq(S), NEW js, NEW out
  PROVE  Take(Reader(first \o tail, js, out), Len(first)) = Reader(tail, js, first)
<1> DEFINE in == first \o tail
           n == Len(first)
<1>1. in \in Seq(S) /\ Len(in) = n + Len(tail) /\ n \in Nat /\ Len(tail) \in Nat
  BY ConcatProperties, LenProperties
<1>2. SubSeq(in, 1, n) = first /\ SubSeq(in, n + 1, Len(in)) = tail
  BY <1>1, SubSeqOfConcat1, SubSeqOfConcat2, SubSeqFull
<1>3. ~ (n > Len(in))
  BY <1>1
<1> HIDE DEF in, n
<1>4. Take(Reader(in, js, out), n) =
        [Reader(in, js, out) EXCEPT !.out = SubSeq(in, 1, n), !.in = SubSeq(@, n + 1, Len(@))]
  BY <1>3 DEF Take, Reader
<1>5. Take(Reader(in, js, out), n) = Reader(tail, js, first)
  BY <1>2, <1>4 DEF Reader
<1> QED
  BY <1>5 DEF in, n

(* A number, followed by anything, that fits the width it is read with.    *)
(* Both ends read it, and leave what follows.                              *)
THEOREM VarintsCross ==
  ASSUME NEW n \in Nat, NEW bits \in Nat, n < Power(2)[bits],
         NEW tail \in Seq(0 .. Byte - 1), NEW js, NEW out
  PROVE  /\ DeVarint(Reader(Varint(n) \o tail, js, out), bits) = Reader(tail, js, n)
         /\ ReadVarint(Reader(Varint(n) \o tail, js, out), bits) = Reader(tail, js, n)
<1> DEFINE l == VarintLength(n)
           bytes == Varint(n)
           in == bytes \o tail
           r == Reader(in, js, out)
<1>1. l \in Nat \ {0} /\ n < Power(Group)[l]
  BY VarintLengthDef
<1>2. /\ bytes \in Seq(0 .. Byte - 1) /\ Len(bytes) = l
      /\ \A i \in 1 .. l : bytes[i] % Group = Digits(n, Group, l)[i]
      /\ bytes[l] < Group
      /\ \A i \in 1 .. l - 1 : bytes[i] >= Group
  BY VarintType
<1> HIDE DEF l, bytes
<1>3. in \in Seq(0 .. Byte - 1) /\ Len(in) = l + Len(tail) /\ \A i \in 1 .. l : in[i] = bytes[i]
  <2>1. Len(tail) \in Nat /\ l \in Nat
    BY <1>1, LenProperties
  <2>2. /\ in \in Seq(0 .. Byte - 1) /\ Len(in) = Len(bytes) + Len(tail)
        /\ \A i \in 1 .. Len(bytes) + Len(tail) :
             in[i] = IF i <= Len(bytes) THEN bytes[i] ELSE tail[i - Len(bytes)]
    BY <1>2, ConcatProperties
  <2> HIDE DEF in
  <2> QED
    BY <1>2, <2>1, <2>2
<1>4. l \in DOMAIN in /\ in[l] < Group /\ \A j \in 1 .. l - 1 : in[j] >= Group
  <2>1. DOMAIN in = 1 .. Len(in) /\ Len(tail) \in Nat
    BY <1>3, LenProperties
  <2> QED
    BY <2>1, <1>1, <1>2, <1>3
<1>5. NumberOf(Low(in, l), Group) = n
  <2>1. Low(in, l) = Digits(n, Group, l)
    <3>1. DOMAIN Digits(n, Group, l) = 1 .. l /\ Digits(n, Group, l) = [i \in 1 .. l |-> Digits(n, Group, l)[i]]
      BY DEF Digits
    <3>2. \A i \in 1 .. l : in[i] % Group = Digits(n, Group, l)[i]
      BY <1>2, <1>3
    <3> QED
      BY <3>1, <3>2 DEF Low
  <2>2. NumberOf(Digits(n, Group, l), Group) = n % Power(Group)[l]
    BY <1>1, Scale, NumberOfDigits
  <2>3. Power(Group)[l] \in Nat \ {0}
    BY <1>1, Scale, PowerPositive
  <2>4. n % Power(Group)[l] = n
    BY <2>3, <1>1, SmallRemainder
  <2> QED
    BY <2>1, <2>2, <2>4
<1>6. Take(r, l) = Reader(tail, js, bytes)
  BY <1>2, TakeFirst
<1>7. /\ DeVarint(r, bits) =
           IF ~ VarintMay(l, bits) \/ n >= Power(2)[bits] THEN Fail(r) ELSE Give(Take(r, l), n)
      /\ ReadVarint(r, bits) = Give(Take(r, l), n % Power(2)[bits])
  <2> HIDE DEF in
  <2> QED BY <1>3, <1>4, <1>5, ReadersAt
<1>8. Power(2)[bits] \in Nat \ {0}
  BY WidthPositive
<1>9. ~ (n >= Power(2)[bits]) /\ n % Power(2)[bits] = n
  BY <1>8, SmallRemainder
<1>10. VarintMay(l, bits)
  <2>1. l = 1 \/ Power(Group)[l - 1] <= n
    BY VarintLengthDef DEF l
  <2>2. l - 1 \in Nat
    BY <1>1
  <2>3. Power(Group)[l - 1] \in Nat
    BY <2>2, Scale, PowerPositive
  <2> QED
    BY <2>1, <2>3, <1>8 DEF VarintMay
<1>11. Give(Reader(tail, js, bytes), n) = Reader(tail, js, n)
  BY GiveReader
<1> HIDE DEF r
<1>12. DeVarint(r, bits) = Reader(tail, js, n) /\ ReadVarint(r, bits) = Reader(tail, js, n)
  BY <1>6, <1>7, <1>9, <1>10, <1>11
<1> QED
  BY <1>12 DEF r, bytes
-----------------------------------------------------------------------------
(* Signed numbers.                                                         *)

(* zigzag folds the integers onto the natural numbers, and either end      *)
(* unfolds them: postcard with (n + 1) div 2, endpoint.mjs with -(n div 2) *)
(* - 1.                                                                    *)
LEMMA ZigZagType ==
  ASSUME NEW n \in Int
  PROVE  /\ ZigZag(n) \in Nat
         /\ UnZigZag(ZigZag(n)) = n
         /\ (IF ZigZag(n) % 2 = 0 THEN ZigZag(n) \div 2 ELSE -(ZigZag(n) \div 2) - 1) = n
<1>1. CASE n >= 0
  <2>1. n \in Nat /\ ZigZag(n) = 2 * n
    BY <1>1 DEF ZigZag
  <2>2. (2 * n) \div 2 = n /\ (2 * n) % 2 = 0
    BY <2>1
  <2> QED
    BY <2>1, <2>2 DEF UnZigZag
<1>2. CASE n < 0
  <2> DEFINE m == -n - 1
             z == 2 * m + 1
  <2>1. m \in Nat /\ z \in Nat /\ ZigZag(n) = z /\ n = -m - 1
    BY <1>2 DEF ZigZag
  <2>2. z \div 2 = m /\ z % 2 = 1
    BY <2>1, DivisionUnique
  <2>3. (z + 1) \div 2 = m + 1
    <3>1. z + 1 = 2 * (m + 1) + 0 /\ m + 1 \in Nat /\ z + 1 \in Nat
      BY <2>1
    <3> QED
      BY <3>1, DivisionUnique
  <2> HIDE DEF m, z
  <2> QED
    BY <2>1, <2>2, <2>3 DEF UnZigZag
<1> QED
  BY <1>1, <1>2

(* The numbers of a signed type fold onto those of the unsigned one.       *)
LEMMA ZigZagFits ==
  ASSUME NEW bits \in Nat \ {0},
         NEW n \in -Power(2)[bits - 1] .. Power(2)[bits - 1] - 1
  PROVE  n \in Int /\ ZigZag(n) < Power(2)[bits]
<1> DEFINE p == Power(2)[bits - 1]
<1>1. bits - 1 \in Nat /\ (bits - 1) + 1 = bits
  OBVIOUS
<1>2. p \in Nat /\ Power(2)[bits] = 2 * p
  BY <1>1, PowerDef
<1> HIDE DEF p
<1>3. n \in -p .. p - 1
  BY DEF p
<1> QED
  BY <1>2, <1>3 DEF ZigZag

(* The two writers agree on a number that fits the width it is given.      *)
LEMMA WritersAgree ==
  ASSUME NEW n \in Nat, NEW bits \in Nat, n < Power(2)[bits]
  PROVE  WriteVarint(n, bits) = Varint(n)
<1>1. n % Power(2)[bits] = n
  BY WidthPositive, SmallRemainder
<1> QED
  BY <1>1, VarintWritersAgree

LEMMA ZigzagWritersAgree ==
  ASSUME NEW n \in Int, NEW bits \in Nat, ZigZag(n) < Power(2)[bits]
  PROVE  WriteZigzag(n, bits) = Varint(ZigZag(n))
<1>1. WriteZigzag(n, bits) = WriteVarint(ZigZag(n), bits)
  BY DEF WriteZigzag, ZigZag
<1> QED
  BY <1>1, WritersAgree, ZigZagType

LEMMA ZigzagsCross ==
  ASSUME NEW n \in Int, NEW bits \in Nat, ZigZag(n) < Power(2)[bits],
         NEW tail \in Seq(0 .. Byte - 1), NEW js, NEW out
  PROVE  LET r == Reader(Varint(ZigZag(n)) \o tail, js, out)
         IN  /\ DeVarint(r, bits) = Reader(tail, js, ZigZag(n))
             /\ ReadZigzag(r, bits) = Reader(tail, js, n)
<1> DEFINE z == ZigZag(n)
           r == Reader(Varint(z) \o tail, js, out)
           Continue(s) == Give(s, IF s.out % 2 = 0 THEN s.out \div 2 ELSE -(s.out \div 2) - 1)
<1>1. z \in Nat /\ (IF z % 2 = 0 THEN z \div 2 ELSE -(z \div 2) - 1) = n
  BY ZigZagType
<1>2. z < Power(2)[bits]
  OBVIOUS
<1> HIDE DEF z
<1>3. DeVarint(r, bits) = Reader(tail, js, z) /\ ReadVarint(r, bits) = Reader(tail, js, z)
  BY <1>1, <1>2, VarintsCross
<1>4. ReadZigzag(r, bits) =
        IF ReadVarint(r, bits).ok THEN Continue(ReadVarint(r, bits)) ELSE ReadVarint(r, bits)
  BY DEF ReadZigzag, Then
<1> HIDE DEF r
<1>5. ReadZigzag(r, bits) = Give(Reader(tail, js, z), n)
  <2> DEFINE s == Reader(tail, js, z)
  <2>1. s.ok /\ s.out = z
    BY DEF Reader
  <2> HIDE DEF s
  <2>2. ReadVarint(r, bits) = s
    BY <1>3 DEF s
  <2>3. ReadZigzag(r, bits) = Continue(s)
    BY <1>4, <2>1, <2>2
  <2>4. Continue(s) = Give(s, n)
    BY <1>1, <2>1
  <2> QED
    BY <2>3, <2>4 DEF s
<1>6. ReadZigzag(r, bits) = Reader(tail, js, n)
  BY <1>5, GiveReader
<1> QED
  BY <1>3, <1>6 DEF r, z
-----------------------------------------------------------------------------
(* Runs of bytes, and floats.                                              *)
LEMMA BytesCross ==
  ASSUME NEW bytes \in Seq(0 .. Byte - 1), NEW tail \in Seq(0 .. Byte - 1), NEW js, NEW out,
         Bits.U32 \in Nat, Len(bytes) < Power(2)[Bits.U32]
  PROVE  LET r == Reader(Prefixed(bytes) \o tail, js, out)
         IN  /\ WriteBytes(bytes) = Prefixed(bytes)
             /\ DePrefixed(r) = Reader(tail, js, bytes)
             /\ ReadBytes(r) = Reader(tail, js, bytes)
<1> DEFINE n == Len(bytes)
           r == Reader(Prefixed(bytes) \o tail, js, out)
           rest == bytes \o tail
           s == Reader(rest, js, n)
<1>1. n \in Nat /\ Varint(n) \in Seq(0 .. Byte - 1)
  BY LenProperties, VarintType
<1>2. rest \in Seq(0 .. Byte - 1) /\ r = Reader(Varint(n) \o rest, js, out)
  <2>1. rest \in Seq(0 .. Byte - 1)
    BY ConcatProperties
  <2>2. (Varint(n) \o bytes) \o tail = Varint(n) \o rest
    BY <1>1, ConcatAssociative
  <2> HIDE DEF rest
  <2> QED
    BY <2>1, <2>2 DEF Prefixed
<1>3. WriteBytes(bytes) = Prefixed(bytes)
  <2>1. WriteVarint(n, Bits.U32) = Varint(n)
    BY <1>1, WritersAgree
  <2> QED
    BY <2>1 DEF WriteBytes, Prefixed
<1>4. DeVarint(r, Bits.U32) = s /\ ReadVarint(r, Bits.U32) = s
  <2> HIDE DEF rest
  <2> QED
    BY <1>1, <1>2, VarintsCross
<1>5. s.ok /\ s.out = n
  BY DEF Reader
<1>6. Take(s, n) = Reader(tail, js, bytes)
  BY TakeFirst
<1>7. /\ DePrefixed(r) = IF DeVarint(r, Bits.U32).ok
                           THEN Take(DeVarint(r, Bits.U32), DeVarint(r, Bits.U32).out)
                           ELSE DeVarint(r, Bits.U32)
      /\ ReadBytes(r) = IF ReadVarint(r, Bits.U32).ok
                          THEN Take(ReadVarint(r, Bits.U32), ReadVarint(r, Bits.U32).out)
                          ELSE ReadVarint(r, Bits.U32)
  BY DEF DePrefixed, ReadBytes, Then
<1> HIDE DEF r, s
<1>8. DePrefixed(r) = Reader(tail, js, bytes) /\ ReadBytes(r) = Reader(tail, js, bytes)
  BY <1>4, <1>5, <1>6, <1>7
<1> QED
  BY <1>3, <1>8 DEF r

(* The bytes of a float, lowest first, come back as its bit pattern.       *)
LEMMA FloatsCross ==
  ASSUME NEW size \in Nat, NEW n \in Nat, n < Power(Byte)[size],
         NEW tail \in Seq(0 .. Byte - 1), NEW js, NEW out
  PROVE  LET s == Take(Reader(Digits(n, Byte, size) \o tail, js, out), size)
         IN  s = Reader(tail, js, Digits(n, Byte, size)) /\ NumberOf(s.out, Byte) = n
<1> DEFINE digits == Digits(n, Byte, size)
<1>1. Byte \in Nat /\ Byte >= 2
  BY Scale
<1>2. digits \in Seq(0 .. Byte - 1) /\ Len(digits) = size
  BY <1>1, DigitsType
<1>3. NumberOf(digits, Byte) = n
  <2>1. Power(Byte)[size] \in Nat \ {0}
    BY <1>1, PowerPositive
  <2>2. n % Power(Byte)[size] = n
    BY <2>1, SmallRemainder
  <2> QED
    BY <1>1, <2>2, NumberOfDigits
<1> HIDE DEF digits
<1>4. Take(Reader(digits \o tail, js, out), size) = Reader(tail, js, digits)
  BY <1>2, TakeFirst
<1>5. Reader(tail, js, digits).out = digits
  BY DEF Reader
<1> QED
  BY <1>3, <1>4, <1>5 DEF digits
-----------------------------------------------------------------------------
(* Text.                                                                   *)

(* What FlattenSeq joins, one sequence after another: f[i] is the first i  *)
(* of them.                                                                *)
Joins(f, seqs, V, n) ==
  /\ \A i \in 1 .. n : f[i] \in Seq(V)
  /\ f[1] = seqs[1]
  /\ \A i \in 1 .. n : i # 1 => f[i] = f[i - 1] \o seqs[i]
  /\ FlattenSeq(seqs) = f[n]

LEMMA FlattenSeqDef ==
  ASSUME NEW V, NEW n \in Nat \ {0}, NEW seqs, seqs \in [1 .. n -> Seq(V)]
  PROVE  \E f : Joins(f, seqs, V, n)
<1> DEFINE IsJoined(f, m) == f = [i \in 1 .. m |-> IF i = 1 THEN seqs[i] ELSE f[i - 1] \o seqs[i]]
           S == {m \in Nat : \E f : IsJoined(f, m)}
<1>1. 0 \in S
  <2>1. IsJoined([i \in 1 .. 0 |-> seqs[i]], 0)
    OBVIOUS
  <2> QED
    BY <2>1
<1>2. ASSUME NEW m \in Nat, m \in S
      PROVE  m + 1 \in S
  <2>1. PICK f : IsJoined(f, m)
    BY <1>2
  <2> DEFINE last == IF m = 0 THEN seqs[1] ELSE f[m] \o seqs[m + 1]
             g == [i \in 1 .. m + 1 |-> IF i = m + 1 THEN last ELSE f[i]]
  <2>2. \A i \in 1 .. m : f[i] = IF i = 1 THEN seqs[i] ELSE f[i - 1] \o seqs[i]
    BY <2>1
  <2> HIDE DEF IsJoined
  <2>3. last = IF m + 1 = 1 THEN seqs[m + 1] ELSE f[m] \o seqs[m + 1]
    OBVIOUS
  <2> HIDE DEF last
  <2>4. g[m + 1] = last /\ \A i \in 1 .. m : g[i] = f[i]
    OBVIOUS
  <2>5. g = [i \in 1 .. m + 1 |-> g[i]]
    OBVIOUS
  <2> HIDE DEF g
  <2>6. ASSUME NEW i \in 1 .. m + 1
        PROVE  g[i] = IF i = 1 THEN seqs[i] ELSE g[i - 1] \o seqs[i]
    <3>1. CASE i = m + 1
      <4>1. i # 1 => m \in 1 .. m /\ i - 1 = m
        BY <3>1
      <4> QED
        BY <3>1, <4>1, <2>3, <2>4
    <3>2. CASE i # m + 1
      <4>1. i \in 1 .. m /\ (i # 1 => i - 1 \in 1 .. m)
        BY <3>2
      <4> QED
        BY <4>1, <2>2, <2>4
    <3> QED
      BY <3>1, <3>2
  <2>7. IsJoined(g, m + 1)
    BY <2>5, <2>6 DEF IsJoined
  <2> QED
    BY <2>7
<1>3. \A m \in Nat : m \in S
  <2> HIDE DEF S
  <2> QED BY <1>1, <1>2, SetInduction
<1>4. seqs \in Seq(Seq(V)) /\ Len(seqs) = n
  BY IsASeq, LenProperties
<1> DEFINE f == CHOOSE f : f = [i \in 1 .. n |-> IF i = 1 THEN seqs[i] ELSE f[i - 1] \o seqs[i]]
<1>5. f = [i \in 1 .. n |-> IF i = 1 THEN seqs[i] ELSE f[i - 1] \o seqs[i]]
  BY <1>3
<1>6. FlattenSeq(seqs) = f[n]
  BY <1>4 DEF FlattenSeq
<1> HIDE DEF f
<1>7. f[1] = seqs[1] /\ \A i \in 1 .. n : i # 1 => f[i] = f[i - 1] \o seqs[i]
  <2>1. \A i \in 1 .. n : f[i] = IF i = 1 THEN seqs[i] ELSE f[i - 1] \o seqs[i]
    BY <1>5
  <2>2. 1 \in 1 .. n
    OBVIOUS
  <2> QED
    BY <2>1, <2>2
<1> DEFINE Typed == {i \in Nat : i \in 1 .. n => f[i] \in Seq(V)}
<1>8. 0 \in Typed
  OBVIOUS
<1>9. ASSUME NEW i \in Nat, i \in Typed
      PROVE  i + 1 \in Typed
  <2> SUFFICES ASSUME i + 1 \in 1 .. n
               PROVE  f[i + 1] \in Seq(V)
    OBVIOUS
  <2>1. seqs[i + 1] \in Seq(V)
    OBVIOUS
  <2>2. CASE i = 0
    BY <2>1, <2>2, <1>7
  <2>3. CASE i # 0
    <3>1. i + 1 # 1 /\ (i + 1) - 1 = i /\ f[i] \in Seq(V)
      BY <2>3, <1>9
    <3>2. f[i + 1] = f[i] \o seqs[i + 1]
      BY <3>1, <1>7
    <3> QED
      BY <2>1, <3>1, <3>2, ConcatProperties
  <2> QED
    BY <2>2, <2>3
<1>10. \A i \in Nat : i \in Typed
  <2> HIDE DEF Typed
  <2> QED BY <1>8, <1>9, SetInduction
<1>11. \A i \in 1 .. n : f[i] \in Seq(V)
  BY <1>10
<1> QED
  BY <1>6, <1>7, <1>11 DEF Joins
(* Where each character of a text lies among its bytes.                    *)
LEMMA TextLayout ==
  ASSUME NEW text \in Seq(DOMAIN Utf8)
  PROVE  \E at : /\ at[0] = 0
                 /\ \A i \in 0 .. Len(text) : at[i] \in Nat
                 /\ \A i \in 1 .. Len(text) : at[i] = at[i - 1] + Len(Utf8[text[i]])
                 /\ \A i \in 1 .. Len(text) : \A j \in 1 .. Len(Utf8[text[i]]) :
                      TextBytes(text)[at[i - 1] + j] = Utf8[text[i]][j]
                 /\ TextBytes(text) \in Seq(0 .. Byte - 1)
                 /\ Len(TextBytes(text)) = at[Len(text)]
<1> DEFINE n == Len(text)
           seqs == [i \in DOMAIN text |-> Utf8[text[i]]]
           bytes == TextBytes(text)
<1>1. n \in Nat /\ DOMAIN text = 1 .. n /\ bytes = FlattenSeq(seqs)
  BY LenProperties DEF TextBytes
<1>2. \A i \in 1 .. n : seqs[i] = Utf8[text[i]]
  BY <1>1
<1>3. seqs \in [1 .. n -> Seq(0 .. Byte - 1)]
  BY <1>1, ElementOfSeq, Utf8Assumption
<1> HIDE DEF seqs, bytes
<1>4. \A i \in 1 .. n : seqs[i] \in Seq(0 .. Byte - 1) /\ Len(seqs[i]) \in Nat
  BY <1>3, LenProperties
<1>5. CASE n = 0
  <2>1. seqs \in Seq(Seq(0 .. Byte - 1)) /\ Len(seqs) = 0
    BY <1>3, <1>5, IsASeq, LenProperties
  <2>2. bytes = seqs
    BY <2>1, <1>1 DEF FlattenSeq
  <2>3. seqs = <<>>
    BY <2>1, EmptySeq
  <2>4. bytes \in Seq(0 .. Byte - 1) /\ Len(bytes) = 0
    BY <2>2, <2>3
  <2> DEFINE at == [i \in 0 .. 0 |-> 0]
  <2>5. at[0] = 0
    OBVIOUS
  <2> HIDE DEF at
  <2>6. /\ \A i \in 0 .. n : at[i] \in Nat
        /\ Len(bytes) = at[n]
        /\ ~ \E i \in 1 .. n : TRUE
    BY <2>4, <2>5, <1>5
  <2> QED
    BY <2>4, <2>5, <2>6 DEF bytes
<1>6. CASE n # 0
  <2>1. n \in Nat \ {0}
    BY <1>1, <1>6
  <2> HIDE DEF n
  <2>2. PICK f : /\ \A i \in 1 .. n : f[i] \in Seq(0 .. Byte - 1)
                 /\ f[1] = seqs[1]
                 /\ \A i \in 1 .. n : i # 1 => f[i] = f[i - 1] \o seqs[i]
                 /\ FlattenSeq(seqs) = f[n]
    <3>1. \E f : Joins(f, seqs, 0 .. Byte - 1, n)
      BY <1>3, <2>1, FlattenSeqDef
    <3> QED
      BY <3>1 DEF Joins
  <2> DEFINE at == [i \in 0 .. n |-> IF i = 0 THEN 0 ELSE Len(f[i])]
  <2>3. at[0] = 0 /\ \A i \in 1 .. n : at[i] = Len(f[i])
    BY <2>1
  <2> HIDE DEF at
  <2>4. \A i \in 1 .. n : Len(f[i]) \in Nat
    BY <2>2, LenProperties
  <2>5. \A i \in 0 .. n : at[i] \in Nat
    BY <2>1, <2>3, <2>4
  <2>6. ASSUME NEW i \in 1 .. n
        PROVE  /\ at[i] = at[i - 1] + Len(seqs[i])
               /\ \A j \in 1 .. Len(seqs[i]) : f[i][at[i - 1] + j] = seqs[i][j]
               /\ \A j \in 1 .. at[i - 1] : f[i][j] = f[i - 1][j]
    <3>1. CASE i = 1
      BY <3>1, <1>4, <2>2, <2>3, <2>4
    <3>2. CASE i # 1
      <4>1. i - 1 \in 1 .. n /\ f[i] = f[i - 1] \o seqs[i]
        <5>1. i - 1 \in 1 .. n
          BY <3>2, <2>1
        <5> QED
          BY <5>1, <3>2, <2>2
      <4> DEFINE s == f[i - 1]
                 t == seqs[i]
      <4>2. s \in Seq(0 .. Byte - 1) /\ t \in Seq(0 .. Byte - 1) /\ Len(s) \in Nat /\ Len(t) \in Nat
        BY <4>1, <2>2, <2>4, <1>4
      <4>3. at[i] = Len(f[i]) /\ at[i - 1] = Len(s) /\ f[i] = s \o t
        BY <4>1, <2>3
      <4> HIDE DEF s, t
      <4>4. /\ Len(s \o t) = Len(s) + Len(t)
            /\ \A j \in 1 .. Len(s) + Len(t) : (s \o t)[j] = IF j <= Len(s) THEN s[j] ELSE t[j - Len(s)]
        BY <4>2, ConcatProperties
      <4>5. at[i] = at[i - 1] + Len(t)
        BY <4>3, <4>4
      <4>6. \A j \in 1 .. Len(t) : (s \o t)[Len(s) + j] = t[j]
        <5>1. ASSUME NEW j \in 1 .. Len(t)
              PROVE  (s \o t)[Len(s) + j] = t[j]
          <6>1. Len(s) + j \in 1 .. Len(s) + Len(t) /\ ~ (Len(s) + j <= Len(s)) /\ (Len(s) + j) - Len(s) = j
            BY <4>2
          <6> QED
            BY <6>1, <4>4
        <5> QED
          BY <5>1
      <4>7. \A j \in 1 .. Len(s) : (s \o t)[j] = s[j]
        BY <4>2, <4>4
      <4> QED
        BY <4>3, <4>5, <4>6, <4>7 DEF s, t
    <3> QED
      BY <3>1, <3>2
  <2>7. ASSUME NEW i \in 1 .. n
        PROVE  \A j \in 1 .. at[i] : bytes[j] = f[i][j]
    <3> DEFINE S == {d \in Nat : i + d <= n => \A j \in 1 .. at[i] : at[i] <= at[i + d] /\ f[i + d][j] = f[i][j]}
    <3>1. 0 \in S
      <4>1. i + 0 = i /\ at[i] \in Nat
        BY <2>5
      <4> QED
        BY <4>1
    <3>2. ASSUME NEW d \in Nat, d \in S
          PROVE  d + 1 \in S
      <4> SUFFICES ASSUME i + (d + 1) <= n, NEW j \in 1 .. at[i]
                   PROVE  at[i] <= at[i + (d + 1)] /\ f[i + (d + 1)][j] = f[i][j]
        OBVIOUS
      <4> DEFINE k == i + (d + 1)
      <4>1. k \in 1 .. n /\ k - 1 = i + d /\ i + d <= n /\ k - 1 \in 0 .. n
        BY <2>1
      <4>2. at[i] <= at[k - 1] /\ f[k - 1][j] = f[i][j]
        BY <3>2, <4>1
      <4> HIDE DEF k
      <4>3. at[i] \in Nat /\ at[k - 1] \in Nat /\ Len(seqs[k]) \in Nat
        BY <4>1, <2>5, <1>4
      <4>4. at[k] = at[k - 1] + Len(seqs[k]) /\ \A l \in 1 .. at[k - 1] : f[k][l] = f[k - 1][l]
        BY <4>1, <2>6
      <4>5. j \in 1 .. at[k - 1]
        BY <4>2, <4>3
      <4> QED
        BY <4>2, <4>3, <4>4, <4>5 DEF k
    <3>3. n - i \in S
      <4>1. \A d \in Nat : d \in S
        <5> HIDE DEF S
        <5> QED BY <3>1, <3>2, SetInduction
      <4>2. n - i \in Nat
        BY <2>1
      <4> QED
        BY <4>1, <4>2
    <3>4. i + (n - i) = n
      BY <2>1
    <3> QED
      BY <3>3, <3>4, <1>1, <2>1, <2>2
  <2>8. ASSUME NEW i \in 1 .. n, NEW j \in 1 .. Len(seqs[i])
        PROVE  bytes[at[i - 1] + j] = seqs[i][j]
    <3>1. at[i - 1] \in Nat /\ at[i] \in Nat /\ Len(seqs[i]) \in Nat /\ at[i] = at[i - 1] + Len(seqs[i])
      BY <2>1, <2>5, <2>6, <1>4
    <3>2. at[i - 1] + j \in 1 .. at[i]
      BY <3>1
    <3> QED
      BY <3>2, <2>6, <2>7
  <2>9. bytes \in Seq(0 .. Byte - 1) /\ Len(bytes) = at[n]
    BY <1>1, <2>1, <2>2, <2>3
  <2>10. \A i \in 1 .. n : at[i] = at[i - 1] + Len(Utf8[text[i]])
    BY <2>6, <1>2
  <2>11. \A i \in 1 .. n : \A j \in 1 .. Len(Utf8[text[i]]) : bytes[at[i - 1] + j] = Utf8[text[i]][j]
    BY <2>8, <1>2
  <2> QED
    BY <2>3, <2>5, <2>9, <2>10, <2>11 DEF n, bytes
<1> QED
  BY <1>5, <1>6
(* Characters lie one after another, and none is empty.                    *)
LEMMA LayoutGrows ==
  ASSUME NEW n \in Nat, NEW at, \A i \in 0 .. n : at[i] \in Nat,
         \A i \in 1 .. n : at[i - 1] < at[i]
  PROVE  \A i, j \in 0 .. n : i <= j => at[i] + (j - i) <= at[j]
<1> DEFINE S == {d \in Nat : \A i \in 0 .. n : i + d <= n => at[i] + d <= at[i + d]}
<1>1. 0 \in S
  <2>1. \A i \in 0 .. n : i + 0 = i /\ at[i] + 0 <= at[i]
    OBVIOUS
  <2> QED
    BY <2>1
<1>2. ASSUME NEW d \in Nat, d \in S
      PROVE  d + 1 \in S
  <2> SUFFICES ASSUME NEW i \in 0 .. n, i + (d + 1) <= n
               PROVE  at[i] + (d + 1) <= at[i + (d + 1)]
    OBVIOUS
  <2> DEFINE k == i + (d + 1)
  <2>1. k \in 1 .. n /\ k \in 0 .. n /\ k - 1 = i + d /\ i + d <= n /\ k - 1 \in 0 .. n
    OBVIOUS
  <2>2. at[i] + d <= at[k - 1]
    BY <1>2, <2>1
  <2> HIDE DEF k
  <2>3. at[k - 1] < at[k] /\ at[k - 1] \in Nat /\ at[k] \in Nat /\ at[i] \in Nat
    BY <2>1
  <2> QED
    BY <2>2, <2>3 DEF k
<1>3. \A d \in Nat : d \in S
  <2> HIDE DEF S
  <2> QED BY <1>1, <1>2, SetInduction
<1>4. ASSUME NEW i \in 0 .. n, NEW j \in 0 .. n, i <= j
      PROVE  at[i] + (j - i) <= at[j]
  <2>1. j - i \in Nat /\ i + (j - i) = j
    BY <1>4
  <2>2. j - i \in S
    BY <1>3, <2>1
  <2> QED
    BY <2>1, <2>2
<1> QED
  BY <1>4

(* One character begins where the other does, and both fit what is there:  *)
(* they are the same.                                                      *)
LEMMA SameCharacter ==
  ASSUME NEW c \in DOMAIN Utf8, NEW d \in DOMAIN Utf8, Len(Utf8[c]) <= Len(Utf8[d]),
         \A j \in 1 .. Len(Utf8[c]) : Utf8[c][j] = Utf8[d][j]
  PROVE  c = d
<1> DEFINE s == Utf8[c]
           t == Utf8[d]
           n == Len(s)
<1>1. s \in Seq(0 .. Byte - 1) /\ t \in Seq(0 .. Byte - 1) /\ n \in Nat /\ Len(t) \in Nat
  BY Utf8Assumption, LenProperties
<1>2. n <= Len(t) /\ \A j \in 1 .. n : s[j] = t[j]
  OBVIOUS
<1> HIDE DEF s, t
<1>3. SubSeq(s, 1, n) = SubSeq(t, 1, n)
  <2>1. 1 \in 1 .. Len(s) + 1 /\ 1 \in 1 .. Len(t) + 1
    BY <1>1
  <2>2. \A i \in 1 .. n : 1 + i - 1 = i
    BY <1>1
  <2> QED
    BY <1>1, <1>2, <2>1, <2>2
<1>4. IsPrefix(s, t)
  BY <1>1, <1>2, <1>3 DEF IsPrefix
<1> QED
  BY <1>4, Utf8Assumption DEF s, t
LEMMA ShorterTextInjective ==
  ASSUME NEW a \in Seq(DOMAIN Utf8), NEW b \in Seq(DOMAIN Utf8),
         TextBytes(a) = TextBytes(b), Len(a) <= Len(b)
  PROVE  a = b
<1> DEFINE n == Len(a)
           m == Len(b)
           bytes == TextBytes(a)
<1>1. n \in Nat /\ m \in Nat /\ n <= m
  BY LenProperties
<1>2. PICK at : /\ at[0] = 0
                /\ \A i \in 0 .. n : at[i] \in Nat
                /\ \A i \in 1 .. n : at[i] = at[i - 1] + Len(Utf8[a[i]])
                /\ \A i \in 1 .. n : \A j \in 1 .. Len(Utf8[a[i]]) :
                     bytes[at[i - 1] + j] = Utf8[a[i]][j]
                /\ Len(bytes) = at[n]
  BY TextLayout
<1>3. PICK bt : /\ bt[0] = 0
                /\ \A i \in 0 .. m : bt[i] \in Nat
                /\ \A i \in 1 .. m : bt[i] = bt[i - 1] + Len(Utf8[b[i]])
                /\ \A i \in 1 .. m : \A j \in 1 .. Len(Utf8[b[i]]) :
                     bytes[bt[i - 1] + j] = Utf8[b[i]][j]
                /\ Len(bytes) = bt[m]
  BY TextLayout
<1>4. /\ \A i \in 1 .. n : a[i] \in DOMAIN Utf8
      /\ \A i \in 1 .. m : b[i] \in DOMAIN Utf8
  BY ElementOfSeq
<1> HIDE DEF n, m, bytes
<1>5. \A c \in DOMAIN Utf8 : Len(Utf8[c]) \in Nat \ {0}
  BY Utf8Assumption, LenProperties, EmptySeq
<1> DEFINE S == {k \in Nat : k <= n => at[k] = bt[k] /\ \A i \in 1 .. k : a[i] = b[i]}
<1>6. 0 \in S
  BY <1>2, <1>3
<1>7. ASSUME NEW k \in Nat, k \in S
      PROVE  k + 1 \in S
  <2> SUFFICES ASSUME k + 1 <= n
               PROVE  at[k + 1] = bt[k + 1] /\ \A i \in 1 .. k + 1 : a[i] = b[i]
    OBVIOUS
  <2> DEFINE l == k + 1
             c == a[l]
             d == b[l]
  <2>1. l \in 1 .. n /\ l \in 1 .. m /\ l - 1 = k
    BY <1>1
  <2>2. at[k] = bt[k] /\ \A i \in 1 .. k : a[i] = b[i]
    BY <1>1, <1>7
  <2>3. c \in DOMAIN Utf8 /\ d \in DOMAIN Utf8
    BY <1>4, <2>1
  <2>4. /\ at[l] = at[k] + Len(Utf8[c]) /\ \A j \in 1 .. Len(Utf8[c]) : bytes[at[k] + j] = Utf8[c][j]
        /\ bt[l] = bt[k] + Len(Utf8[d]) /\ \A j \in 1 .. Len(Utf8[d]) : bytes[bt[k] + j] = Utf8[d][j]
    BY <1>2, <1>3, <2>1
  <2>5. Len(Utf8[c]) \in Nat /\ Len(Utf8[d]) \in Nat
    BY <1>5, <2>3
  <2> HIDE DEF c, d, l
  <2>6. c = d
    <3>1. CASE Len(Utf8[c]) <= Len(Utf8[d])
      <4>1. \A j \in 1 .. Len(Utf8[c]) : Utf8[c][j] = Utf8[d][j]
        BY <3>1, <2>2, <2>4, <2>5
      <4> QED
        BY <3>1, <4>1, <2>3, SameCharacter
    <3>2. CASE Len(Utf8[d]) <= Len(Utf8[c])
      <4>1. \A j \in 1 .. Len(Utf8[d]) : Utf8[d][j] = Utf8[c][j]
        BY <3>2, <2>2, <2>4, <2>5
      <4> QED
        BY <3>2, <4>1, <2>3, SameCharacter
    <3> QED
      BY <3>1, <3>2, <2>5
  <2>7. at[l] = bt[l]
    BY <2>2, <2>4, <2>6
  <2> QED
    BY <2>2, <2>6, <2>7 DEF c, d, l
<1>8. at[n] = bt[n] /\ \A i \in 1 .. n : a[i] = b[i]
  <2>1. \A k \in Nat : k \in S
    <3> HIDE DEF S
    <3> QED BY <1>6, <1>7, SetInduction
  <2> QED
    BY <2>1, <1>1
<1>9. n = m
  <2>1. \A i \in 1 .. m : bt[i - 1] < bt[i]
    <3>1. ASSUME NEW i \in 1 .. m
          PROVE  bt[i - 1] < bt[i]
      <4>1. i - 1 \in 0 .. m /\ b[i] \in DOMAIN Utf8
        BY <1>1, <1>4
      <4>2. bt[i - 1] \in Nat /\ Len(Utf8[b[i]]) \in Nat \ {0} /\ bt[i] = bt[i - 1] + Len(Utf8[b[i]])
        BY <4>1, <1>3, <1>5
      <4> QED
        BY <4>2
    <3> QED
      BY <3>1
  <2>2. bt[n] + (m - n) <= bt[m]
    <3>1. n \in 0 .. m /\ m \in 0 .. m
      BY <1>1
    <3> QED
      BY <3>1, <2>1, <1>1, <1>3, LayoutGrows
  <2>3. bt[n] = bt[m] /\ bt[n] \in Nat
    <3>1. n \in 0 .. m
      BY <1>1
    <3>2. bt[n] = at[n] /\ at[n] = Len(bytes) /\ Len(bytes) = bt[m]
      BY <1>2, <1>3, <1>8
    <3> QED
      BY <3>1, <3>2, <1>3
  <2> QED
    BY <2>2, <2>3, <1>1
<1> QED
  BY <1>8, <1>9, SeqEqual DEF n, m

(* Bytes are of one text at most, and of the one they were made of.        *)
LEMMA TextsOf ==
  ASSUME NEW text \in Seq(DOMAIN Utf8)
  PROVE  Texts(TextBytes(text)) = {text}
<1> DEFINE n == Len(text)
           size == Len(TextBytes(text))
<1>1. n \in Nat
  BY LenProperties
<1>2. size \in Nat /\ n <= size
  <2>1. PICK at : /\ at[0] = 0
                  /\ \A i \in 0 .. n : at[i] \in Nat
                  /\ \A i \in 1 .. n : at[i] = at[i - 1] + Len(Utf8[text[i]])
                  /\ size = at[n]
    BY TextLayout
  <2>2. \A i \in 1 .. n : Len(Utf8[text[i]]) \in Nat \ {0}
    BY ElementOfSeq, Utf8Assumption, LenProperties, EmptySeq
  <2> HIDE DEF n, size
  <2>3. \A i \in 1 .. n : at[i - 1] < at[i]
    <3>1. ASSUME NEW i \in 1 .. n
          PROVE  at[i - 1] < at[i]
      <4>1. i - 1 \in 0 .. n
        BY <1>1
      <4>2. at[i - 1] \in Nat /\ at[i] = at[i - 1] + Len(Utf8[text[i]])
        BY <4>1, <2>1
      <4> QED
        BY <4>2, <2>2
    <3> QED
      BY <3>1
  <2>4. 0 \in 0 .. n /\ n \in 0 .. n /\ 0 <= n
    BY <1>1
  <2>5. at[0] + (n - 0) <= at[n]
    BY <1>1, <2>1, <2>3, <2>4, LayoutGrows
  <2> QED
    BY <1>1, <2>1, <2>4, <2>5
<1>3. text \in BoundedSeq(DOMAIN Utf8, size)
  <2>1. text \in [1 .. n -> DOMAIN Utf8] /\ n \in 0 .. size
    BY <1>1, <1>2, LenProperties, ElementOfSeq
  <2> QED
    BY <2>1 DEF BoundedSeq, SeqOf
<1>4. ASSUME NEW other \in BoundedSeq(DOMAIN Utf8, size), TextBytes(other) = TextBytes(text)
      PROVE  other = text
  <2>1. PICK k \in 0 .. size : other \in [1 .. k -> DOMAIN Utf8]
    BY DEF BoundedSeq, SeqOf
  <2>2. k \in Nat
    BY <1>2
  <2>3. other \in Seq(DOMAIN Utf8)
    BY <2>1, <2>2
  <2>4. Len(other) \in Nat
    BY <2>3, LenProperties
  <2> QED
    BY <1>1, <1>4, <2>3, <2>4, ShorterTextInjective
<1> QED
  BY <1>3, <1>4 DEF Texts
-----------------------------------------------------------------------------
(* Every type without parts.                                               *)

(* The method of Writer and of Reader that a type is written and read by.  *)
Method(is) == PRIMITIVES[SchemaKinds[is]]

LEMMA MethodOf ==
  /\ Method("Bool") = "bool" /\ Method("U8") = "u8" /\ Method("I8") = "i8"
  /\ \A is \in {"U16", "U32"} : Method(is) = "varint32"
  /\ \A is \in {"I16", "I32"} : Method(is) = "zigzag32"
  /\ Method("U64") = "varint64" /\ Method("I64") = "zigzag64"
  /\ Method("U128") = "varint128" /\ Method("I128") = "zigzag128"
  /\ Method("F32") = "f32" /\ Method("F64") = "f64"
  /\ \A is \in {"Char", "String"} : Method(is) = "string"
  /\ Method("ByteArray") = "bytes"
BY DEF Method, PRIMITIVES, SchemaKinds

LEMMA Widths ==
  /\ \A t \in {"I16", "U16", "I32", "U32", "I64", "U64", "I128", "U128"} : Bits[t] \in Nat \ {0}
  /\ Bits.I16 = Bits.U16 /\ Bits.I32 = Bits.U32 /\ Bits.I64 = Bits.U64 /\ Bits.I128 = Bits.U128
  /\ Power(2)[Bits.U16] <= Power(2)[Bits.U32]
<1>1. \A t \in {"I16", "U16", "I32", "U32", "I64", "U64", "I128", "U128"} : Bits[t] \in Nat \ {0}
  BY ScaleAssumption, WidthsAssumption
<1>2. Bits.U16 \in Nat /\ Bits.U32 \in Nat /\ Bits.U16 <= Bits.U32
  BY <1>1, WidthsAssumption
<1>3. Power(2)[Bits.U16] <= Power(2)[Bits.U32]
  <2>1. 2 \in Nat \ {0}
    OBVIOUS
  <2> QED
    BY <1>2, <2>1, PowerMonotone
<1> QED
  BY <1>1, <1>3, WidthsAssumption

(* The width a number of a type is written and read with by endpoint.mjs.  *)
Width(is) ==
  CASE is \in {"U16", "U32", "I16", "I32"} -> Bits.U32
    [] is \in {"U64", "I64"} -> Bits.U64
    [] is \in {"U128", "I128"} -> Bits.U128

Big == {"U64", "I64", "U128", "I128"}

LEMMA WidthFits ==
  ASSUME NEW is \in Signed \cup Unsigned
  PROVE  /\ Bits[is] \in Nat \ {0} /\ Width(is) \in Nat
         /\ Power(2)[Bits[is]] \in Nat /\ Power(2)[Width(is)] \in Nat
         /\ Power(2)[Bits[is]] <= Power(2)[Width(is)]
<1>1. Bits[is] \in Nat \ {0} /\ Width(is) \in Nat
  BY Widths DEF Width, Signed, Unsigned
<1>2. \/ is \in {"U16", "I16"} /\ Bits[is] = Bits.U16 /\ Width(is) = Bits.U32
      \/ Bits[is] = Width(is)
  BY Widths DEF Width, Signed, Unsigned
<1>3. Power(2)[Bits[is]] \in Nat /\ Power(2)[Width(is)] \in Nat
  BY <1>1, PowerDef
<1>4. Power(2)[Bits[is]] <= Power(2)[Width(is)]
  BY <1>2, <1>3, Widths
<1> QED
  BY <1>1, <1>3, <1>4

(* What the methods for numbers do.                                        *)
LEMMA NumberMethods ==
  /\ \A is \in Unsigned : \A n :
       Write(Method(is), IF is \in Big THEN [bigint |-> n] ELSE [number |-> n]) = WriteVarint(n, Width(is))
  /\ \A is \in Signed : \A n :
       Write(Method(is), IF is \in Big THEN [bigint |-> n] ELSE [number |-> n]) = WriteZigzag(n, Width(is))
  /\ \A is \in Unsigned : \A r :
       ReadPrimitive(Method(is), r) =
         IF is \in Big THEN BigInt(ReadVarint(r, Width(is))) ELSE Number(ReadVarint(r, Width(is)))
  /\ \A is \in Signed : \A r :
       ReadPrimitive(Method(is), r) =
         IF is \in Big THEN BigInt(ReadZigzag(r, Width(is))) ELSE Number(ReadZigzag(r, Width(is)))
<1>1. \A n : "number" \in DOMAIN [number |-> n] /\ "bigint" \in DOMAIN [bigint |-> n]
  OBVIOUS
<1>2. \A n : /\ Write("varint32", [number |-> n]) = WriteVarint(n, Bits.U32)
             /\ Write("zigzag32", [number |-> n]) = WriteZigzag(n, Bits.U32)
             /\ Write("varint64", [bigint |-> n]) = WriteVarint(n, Bits.U64)
             /\ Write("zigzag64", [bigint |-> n]) = WriteZigzag(n, Bits.U64)
             /\ Write("varint128", [bigint |-> n]) = WriteVarint(n, Bits.U128)
             /\ Write("zigzag128", [bigint |-> n]) = WriteZigzag(n, Bits.U128)
  BY <1>1 DEF Write, IsA
<1>3. \A r : /\ ReadPrimitive("varint32", r) = Number(ReadVarint(r, Bits.U32))
             /\ ReadPrimitive("zigzag32", r) = Number(ReadZigzag(r, Bits.U32))
             /\ ReadPrimitive("varint64", r) = BigInt(ReadVarint(r, Bits.U64))
             /\ ReadPrimitive("zigzag64", r) = BigInt(ReadZigzag(r, Bits.U64))
             /\ ReadPrimitive("varint128", r) = BigInt(ReadVarint(r, Bits.U128))
             /\ ReadPrimitive("zigzag128", r) = BigInt(ReadZigzag(r, Bits.U128))
  BY DEF ReadPrimitive
<1>4. /\ Width("U16") = Bits.U32 /\ Width("U32") = Bits.U32 /\ Width("I16") = Bits.U32 /\ Width("I32") = Bits.U32
      /\ Width("U64") = Bits.U64 /\ Width("I64") = Bits.U64
      /\ Width("U128") = Bits.U128 /\ Width("I128") = Bits.U128
  BY DEF Width
<1> QED
  BY <1>2, <1>3, <1>4, MethodOf DEF Big, Signed, Unsigned
LEMMA WrapReader ==
  ASSUME NEW tail, NEW js, NEW n
  PROVE  LET s == Reader(tail, js, n)
         IN  /\ Number(s) = Reader(tail, js, [number |-> n])
             /\ BigInt(s) = Reader(tail, js, [bigint |-> n])
<1> DEFINE s == Reader(tail, js, n)
<1>1. s.ok /\ s.out = n
  BY DEF Reader
<1>2. Give(s, [number |-> n]) = Reader(tail, js, [number |-> n])
  BY GiveReader
<1>3. Give(s, [bigint |-> n]) = Reader(tail, js, [bigint |-> n])
  BY GiveReader
<1> HIDE DEF s
<1>4. Number(s) = Give(s, [number |-> n]) /\ BigInt(s) = Give(s, [bigint |-> n])
  BY <1>1 DEF Number, BigInt, Then
<1> QED
  BY <1>2, <1>3, <1>4 DEF s

(* Unsigned numbers of 16 bits and more.                                   *)
LEMMA UnsignedCross ==
  ASSUME NEW is \in Unsigned, NEW v, IsPrimitive(is, v),
         NEW tail \in Seq(0 .. Byte - 1), NEW js, NEW out
  PROVE  LET r == Reader(SerPrimitive(is, v) \o tail, js, out)
         IN  /\ Write(Method(is), PrimitiveForm(is, v)) = SerPrimitive(is, v)
             /\ DePrimitive(is, r) = Reader(tail, js, v)
             /\ ReadPrimitive(Method(is), r) = Reader(tail, js, PrimitiveForm(is, v))
<1> DEFINE n == v.num
           form == IF is \in Big THEN [bigint |-> n] ELSE [number |-> n]
           r == Reader(Varint(n) \o tail, js, out)
           s == Reader(tail, js, n)
<1>1. v \in [num : 0 .. Power(2)[Bits[is]] - 1]
  BY DEF IsPrimitive, Signed, Unsigned
<1>2. v = [num |-> n] /\ n \in 0 .. Power(2)[Bits[is]] - 1
  BY <1>1
<1>3. SerPrimitive(is, v) = Varint(n) /\ PrimitiveForm(is, v) = form
  BY DEF SerPrimitive, PrimitiveForm, Signed, Unsigned, Big
<1> HIDE DEF n
<1>4. /\ Bits[is] \in Nat /\ Width(is) \in Nat /\ n \in Nat
      /\ n < Power(2)[Bits[is]] /\ n < Power(2)[Width(is)]
  BY <1>2, WidthFits
<1>5. Write(Method(is), form) = Varint(n)
  <2>1. WriteVarint(n, Width(is)) = Varint(n)
    BY <1>4, WritersAgree
  <2> QED
    BY <2>1, NumberMethods
<1>6. DeVarint(r, Bits[is]) = s /\ ReadVarint(r, Width(is)) = s
  BY <1>4, VarintsCross
<1>7. s.ok /\ s.out = n
  BY DEF Reader
<1>8. Give(s, v) = Reader(tail, js, v)
  BY GiveReader
<1>9. Number(s) = Reader(tail, js, [number |-> n]) /\ BigInt(s) = Reader(tail, js, [bigint |-> n])
  BY WrapReader
<1> HIDE DEF r, s
<1>10. DePrimitive(is, r) = IF DeVarint(r, Bits[is]).ok
                              THEN Give(DeVarint(r, Bits[is]), [num |-> DeVarint(r, Bits[is]).out])
                              ELSE DeVarint(r, Bits[is])
  BY DEF DePrimitive, Signed, Unsigned, Then
<1>11. DePrimitive(is, r) = Reader(tail, js, v)
  BY <1>2, <1>6, <1>7, <1>8, <1>10
<1>12. ReadPrimitive(Method(is), r) = Reader(tail, js, form)
  BY <1>6, <1>9, NumberMethods
<1> QED
  BY <1>3, <1>5, <1>11, <1>12 DEF r

(* Signed ones.                                                            *)
LEMMA SignedCross ==
  ASSUME NEW is \in Signed, NEW v, IsPrimitive(is, v),
         NEW tail \in Seq(0 .. Byte - 1), NEW js, NEW out
  PROVE  LET r == Reader(SerPrimitive(is, v) \o tail, js, out)
         IN  /\ Write(Method(is), PrimitiveForm(is, v)) = SerPrimitive(is, v)
             /\ DePrimitive(is, r) = Reader(tail, js, v)
             /\ ReadPrimitive(Method(is), r) = Reader(tail, js, PrimitiveForm(is, v))
<1> DEFINE n == v.num
           z == ZigZag(n)
           form == IF is \in Big THEN [bigint |-> n] ELSE [number |-> n]
           r == Reader(Varint(z) \o tail, js, out)
           s == Reader(tail, js, z)
           t == Reader(tail, js, n)
<1>1. v \in [num : -Power(2)[Bits[is] - 1] .. Power(2)[Bits[is] - 1] - 1]
  BY DEF IsPrimitive, Signed, Unsigned
<1>2. v = [num |-> n] /\ n \in -Power(2)[Bits[is] - 1] .. Power(2)[Bits[is] - 1] - 1
  BY <1>1
<1>3. SerPrimitive(is, v) = Varint(z) /\ PrimitiveForm(is, v) = form
  BY DEF SerPrimitive, PrimitiveForm, Signed, Unsigned, Big
<1> HIDE DEF n
<1>4. /\ Bits[is] \in Nat \ {0} /\ Width(is) \in Nat
      /\ Power(2)[Bits[is]] \in Nat /\ Power(2)[Width(is)] \in Nat
      /\ Power(2)[Bits[is]] <= Power(2)[Width(is)]
  BY WidthFits
<1>5. n \in Int /\ z \in Nat /\ UnZigZag(z) = n /\ z < Power(2)[Bits[is]]
  BY <1>2, <1>4, ZigZagFits, ZigZagType
<1> HIDE DEF z
<1>6. z < Power(2)[Width(is)]
  BY <1>4, <1>5
<1>7. Write(Method(is), form) = Varint(z)
  <2>1. WriteZigzag(n, Width(is)) = Varint(z)
    BY <1>4, <1>5, <1>6, ZigzagWritersAgree DEF z
  <2> QED
    BY <2>1, NumberMethods
<1>8. DeVarint(r, Bits[is]) = s
  BY <1>4, <1>5, VarintsCross
<1>9. ReadZigzag(r, Width(is)) = t
  BY <1>4, <1>5, <1>6, ZigzagsCross DEF z
<1>10. s.ok /\ s.out = z
  BY DEF Reader
<1>11. Give(s, v) = Reader(tail, js, v)
  BY GiveReader
<1>12. Number(t) = Reader(tail, js, [number |-> n]) /\ BigInt(t) = Reader(tail, js, [bigint |-> n])
  BY WrapReader
<1> HIDE DEF r, s, t
<1>13. DePrimitive(is, r) = IF DeVarint(r, Bits[is]).ok
                              THEN Give(DeVarint(r, Bits[is]), [num |-> UnZigZag(DeVarint(r, Bits[is]).out)])
                              ELSE DeVarint(r, Bits[is])
  BY DEF DePrimitive, Signed, Unsigned, Then
<1>14. DePrimitive(is, r) = Reader(tail, js, v)
  BY <1>2, <1>5, <1>8, <1>10, <1>11, <1>13
<1>15. ReadPrimitive(Method(is), r) = Reader(tail, js, form)
  BY <1>9, <1>12, NumberMethods
<1> QED
  BY <1>3, <1>7, <1>14, <1>15 DEF r
LEMMA TakeByte ==
  ASSUME NEW b \in 0 .. Byte - 1, NEW tail \in Seq(0 .. Byte - 1), NEW js, NEW out
  PROVE  LET s == Take(Reader(<<b>> \o tail, js, out), 1)
         IN  s = Reader(tail, js, <<b>>) /\ s.ok /\ s.out = <<b>> /\ s.out[1] = b
<1>1. <<b>> \in Seq(0 .. Byte - 1) /\ Len(<<b>>) = 1
  OBVIOUS
<1>2. Take(Reader(<<b>> \o tail, js, out), 1) = Reader(tail, js, <<b>>)
  BY <1>1, TakeFirst
<1>3. Reader(tail, js, <<b>>).ok /\ Reader(tail, js, <<b>>).out = <<b>>
  BY DEF Reader
<1>4. <<b>>[1] = b
  OBVIOUS
<1> QED
  BY <1>2, <1>3, <1>4

(* What takes one byte: a boolean, and numbers of 8 bits.                  *)
LEMMA ByteTypesCross ==
  ASSUME NEW is \in {"Bool", "U8", "I8"}, NEW v, IsPrimitive(is, v),
         NEW tail \in Seq(0 .. Byte - 1), NEW js, NEW out
  PROVE  LET r == Reader(SerPrimitive(is, v) \o tail, js, out)
         IN  /\ Write(Method(is), PrimitiveForm(is, v)) = SerPrimitive(is, v)
             /\ DePrimitive(is, r) = Reader(tail, js, v)
             /\ ReadPrimitive(Method(is), r) = Reader(tail, js, PrimitiveForm(is, v))
<1>1. CASE is = "Bool"
  <2> DEFINE b == IF v.bool THEN 1 ELSE 0
             form == [boolean |-> v.bool]
             r == Reader(<<b>> \o tail, js, out)
             s == Take(r, 1)
  <2>1. v \in [bool : BOOLEAN]
    BY <1>1 DEF IsPrimitive, Signed, Unsigned
  <2>2. v = [bool |-> v.bool] /\ v.bool \in BOOLEAN
    BY <2>1
  <2>3. SerPrimitive(is, v) = <<b>> /\ PrimitiveForm(is, v) = form /\ Method(is) = "bool"
    BY <1>1, MethodOf DEF SerPrimitive, PrimitiveForm, Signed, Unsigned
  <2>4. Write("bool", form) = <<b>>
    BY DEF Write, IsA
  <2>5. /\ DePrimitive(is, r) =
             IF s.ok THEN (IF s.out[1] > 1 THEN Fail(s) ELSE Give(s, [bool |-> s.out[1] = 1])) ELSE s
        /\ ReadPrimitive("bool", r) = IF s.ok THEN Give(s, [boolean |-> s.out # <<0>>]) ELSE s
    BY <1>1 DEF DePrimitive, ReadPrimitive, Then, Signed, Unsigned
  <2>6. b \in 0 .. 1 /\ b \in 0 .. Byte - 1 /\ (b = 1 <=> v.bool) /\ (b # 0 <=> v.bool)
    BY <2>2, Scale
  <2>7. s = Reader(tail, js, <<b>>) /\ s.ok /\ s.out = <<b>> /\ s.out[1] = b
    <3> HIDE DEF b
    <3> QED BY <2>6, TakeByte
  <2> HIDE DEF r, s, b
  <2>8. (s.out[1] = 1) = v.bool /\ (s.out # <<0>>) = v.bool /\ ~ (s.out[1] > 1)
    <3>1. <<b>> = <<0>> <=> b = 0
      OBVIOUS
    <3> QED
      BY <2>2, <2>6, <2>7, <3>1
  <2>9. Give(s, v) = Reader(tail, js, v) /\ Give(s, form) = Reader(tail, js, form)
    BY <2>7, GiveReader
  <2>10. DePrimitive(is, r) = Reader(tail, js, v) /\ ReadPrimitive("bool", r) = Reader(tail, js, form)
    BY <2>2, <2>5, <2>7, <2>8, <2>9
  <2> QED
    BY <2>3, <2>4, <2>10 DEF r
<1>2. CASE is \in {"U8", "I8"}
  <2> DEFINE n == v.num
             b == n % Byte
             form == [number |-> n]
             r == Reader(<<b>> \o tail, js, out)
             s == Take(r, 1)
  <2>1. v \in [num : 0 .. Byte - 1] \/ v \in [num : -Group .. Group - 1]
    BY <1>2 DEF IsPrimitive, Signed, Unsigned
  <2>2. /\ is = "U8" => v \in [num : 0 .. Byte - 1]
        /\ is = "I8" => v \in [num : -Group .. Group - 1]
    BY <1>2 DEF IsPrimitive, Signed, Unsigned
  <2>3. /\ v = [num |-> n]
        /\ is = "U8" => n \in 0 .. Byte - 1
        /\ is = "I8" => n \in -Group .. Group - 1
    BY <2>1, <2>2
  <2>4. SerPrimitive(is, v) = <<b>> /\ PrimitiveForm(is, v) = form
    BY <1>2 DEF SerPrimitive, PrimitiveForm, Signed, Unsigned
  <2> HIDE DEF n
  <2>5. Group \in Nat /\ Group >= 2 /\ Byte = 2 * Group /\ Byte \in Nat \ {0}
    BY Scale
  <2>6. n \in Int /\ b \in 0 .. Byte - 1
    BY <1>2, <2>3, <2>5
  <2>7. /\ is = "U8" => b = n
        /\ is = "I8" => n = IF b < Group THEN b ELSE b - Byte
        /\ (IF n < 0 THEN n + Byte ELSE n) % Byte = b
    <3>1. CASE n >= 0
      <4>1. n \in Nat /\ n < Byte /\ (is = "I8" => n < Group)
        BY <3>1, <1>2, <2>3, <2>5
      <4>2. b = n
        BY <4>1, <2>5, SmallRemainder
      <4> QED
        BY <4>1, <4>2, <2>5
    <3>2. CASE n < 0
      <4>1. is = "I8" /\ n + Byte \in Nat /\ n + Byte < Byte /\ n + Byte >= Group
        BY <3>2, <1>2, <2>3, <2>5
      <4>2. (n + Byte) % Byte = n + Byte
        BY <4>1, <2>5, SmallRemainder
      <4>3. n % Byte = n + Byte
        BY <3>2, <4>1, <2>5, <2>6
      <4> QED
        BY <4>1, <4>2, <4>3, <3>2, <2>5, <2>6
    <3> QED
      BY <3>1, <3>2, <2>6
  <2>8. Write(Method(is), form) = <<b>>
    <3>1. Write(Method(is), form) = <<(IF n < 0 THEN n + Byte ELSE n) % Byte>>
      BY <1>2, MethodOf DEF Write, IsA
    <3> QED
      BY <3>1, <2>7
  <2>9. s = Reader(tail, js, <<b>>) /\ s.ok /\ s.out = <<b>> /\ s.out[1] = b
    <3> HIDE DEF b
    <3> QED BY <2>6, TakeByte
  <2>10. Give(s, v) = Reader(tail, js, v) /\ Give(s, form) = Reader(tail, js, form)
    BY <2>9, GiveReader
  <2> HIDE DEF b
  <2>11. /\ is = "U8" => DePrimitive(is, r) = IF s.ok THEN Give(s, [num |-> s.out[1]]) ELSE s
         /\ is = "I8" => DePrimitive(is, r) =
              IF s.ok THEN Give(s, [num |-> IF s.out[1] < Group THEN s.out[1] ELSE s.out[1] - Byte]) ELSE s
         /\ ReadPrimitive("u8", r) = IF s.ok THEN Give(s, [number |-> s.out[1]]) ELSE s
         /\ ReadPrimitive("i8", r) =
              IF s.ok THEN Give(s, [number |-> IF s.out[1] >= Group THEN s.out[1] - Byte ELSE s.out[1]]) ELSE s
    BY DEF DePrimitive, ReadPrimitive, Then, Signed, Unsigned
  <2> HIDE DEF r, s
  <2>12. (IF b >= Group THEN b - Byte ELSE b) = IF b < Group THEN b ELSE b - Byte
    BY <2>5, <2>6
  <2>13. DePrimitive(is, r) = Reader(tail, js, v)
    BY <1>2, <2>3, <2>7, <2>9, <2>10, <2>11
  <2>14. ReadPrimitive(Method(is), r) = Reader(tail, js, form)
    BY <1>2, <2>7, <2>9, <2>10, <2>11, <2>12, MethodOf
  <2> QED
    BY <2>4, <2>8, <2>13, <2>14 DEF r
<1> QED
  BY <1>1, <1>2
LEMMA FloatTypesCross ==
  ASSUME NEW is \in {"F32", "F64"}, NEW v, IsPrimitive(is, v),
         NEW tail \in Seq(0 .. Byte - 1), NEW js, NEW out
  PROVE  LET r == Reader(SerPrimitive(is, v) \o tail, js, out)
         IN  /\ Write(Method(is), PrimitiveForm(is, v)) = SerPrimitive(is, v)
             /\ DePrimitive(is, r) = Reader(tail, js, v)
             /\ ReadPrimitive(Method(is), r) = Reader(tail, js, PrimitiveForm(is, v))
<1> DEFINE n == v.num
           size == FloatBytes[is]
           bytes == Digits(n, Byte, size)
           form == [number |-> n]
           r == Reader(bytes \o tail, js, out)
           s == Take(r, size)
<1>1. v \in [num : 0 .. Power(Byte)[size] - 1]
  BY DEF IsPrimitive, Signed, Unsigned
<1>2. v = [num |-> n] /\ n \in 0 .. Power(Byte)[size] - 1
  BY <1>1
<1>3. SerPrimitive(is, v) = bytes /\ PrimitiveForm(is, v) = form
  BY DEF SerPrimitive, PrimitiveForm, Signed, Unsigned
<1>4. size \in Nat /\ (is = "F32" => size = 2) /\ (is = "F64" => size = 3)
  BY DEF FloatBytes
<1> HIDE DEF n, size
<1>5. n \in Nat /\ n < Power(Byte)[size]
  <2>1. Power(Byte)[size] \in Nat
    BY <1>4, Scale, PowerDef
  <2> QED
    BY <1>2, <2>1
<1>6. s = Reader(tail, js, bytes) /\ NumberOf(s.out, Byte) = n
  BY <1>4, <1>5, FloatsCross
<1> HIDE DEF bytes
<1>7. s.ok
  BY <1>6 DEF Reader
<1>8. Give(s, v) = Reader(tail, js, v) /\ Give(s, form) = Reader(tail, js, form)
  BY <1>6, GiveReader
<1>9. Write(Method(is), form) = WriteFloat(n, size)
  <2>1. Write("f32", form) = WriteFloat(n, 2) /\ Write("f64", form) = WriteFloat(n, 3)
    BY DEF Write, IsA
  <2> QED
    BY <2>1, <1>4, MethodOf
<1>10. DePrimitive(is, r) = IF s.ok THEN Give(s, [num |-> NumberOf(s.out, Byte)]) ELSE s
  BY DEF DePrimitive, Then, Signed, Unsigned, size
<1>11. ReadPrimitive(Method(is), r) = IF s.ok THEN Give(s, [number |-> NumberOf(s.out, Byte)]) ELSE s
  <2>1. ReadPrimitive("f32", r) = ReadFloat(r, 2) /\ ReadPrimitive("f64", r) = ReadFloat(r, 3)
    BY DEF ReadPrimitive
  <2>2. ReadPrimitive(Method(is), r) = ReadFloat(r, size)
    BY <2>1, <1>4, MethodOf
  <2> QED
    BY <2>2 DEF ReadFloat, Then
<1> HIDE DEF r, s
<1>12. DePrimitive(is, r) = Reader(tail, js, v)
  BY <1>2, <1>6, <1>7, <1>8, <1>10
<1>13. ReadPrimitive(Method(is), r) = Reader(tail, js, form)
  BY <1>6, <1>7, <1>8, <1>11
<1> QED
  BY <1>3, <1>9, <1>12, <1>13 DEF r, bytes, WriteFloat

(* Text, which is its bytes with their number before them.                 *)
LEMMA TextTypesCross ==
  ASSUME NEW is \in {"Char", "String"}, NEW v, IsPrimitive(is, v),
         NEW tail \in Seq(0 .. Byte - 1), NEW js, NEW out
  PROVE  LET r == Reader(SerPrimitive(is, v) \o tail, js, out)
         IN  /\ Write(Method(is), PrimitiveForm(is, v)) = SerPrimitive(is, v)
             /\ DePrimitive(is, r) = Reader(tail, js, v)
             /\ ReadPrimitive(Method(is), r) = Reader(tail, js, PrimitiveForm(is, v))
<1> DEFINE text == v.text
           bytes == TextBytes(text)
           form == [string |-> text]
           r == Reader(Prefixed(bytes) \o tail, js, out)
           s == Reader(tail, js, bytes)
<1>1. v \in [text : Seq(DOMAIN Utf8)] /\ Len(bytes) < Power(2)[Bits.U32]
  BY DEF IsPrimitive, Signed, Unsigned
<1>2. v = [text |-> text] /\ text \in Seq(DOMAIN Utf8)
  BY <1>1
<1>3. SerPrimitive(is, v) = Prefixed(bytes) /\ PrimitiveForm(is, v) = form /\ Method(is) = "string"
  BY MethodOf DEF SerPrimitive, PrimitiveForm, Signed, Unsigned
<1> HIDE DEF text
<1>4. bytes \in Seq(0 .. Byte - 1) /\ Texts(bytes) = {text}
  BY <1>2, TextLayout, TextsOf
<1>5. (CHOOSE t \in Texts(bytes) : TRUE) = text /\ Texts(bytes) # {}
  <2> HIDE DEF bytes
  <2> QED BY <1>4
<1>6. Write("string", form) = WriteBytes(bytes)
  BY DEF Write, IsA
<1> HIDE DEF bytes
<1>7. Bits.U32 \in Nat
  BY Widths
<1>8. WriteBytes(bytes) = Prefixed(bytes) /\ DePrefixed(r) = s /\ ReadBytes(r) = s
  BY <1>1, <1>4, <1>7, BytesCross
<1>9. s.ok /\ s.out = bytes
  BY DEF Reader
<1>10. Give(s, v) = Reader(tail, js, v) /\ Give(s, form) = Reader(tail, js, form)
  BY GiveReader
<1> HIDE DEF r, s
<1>11. DePrimitive(is, r) =
         IF DePrefixed(r).ok
           THEN IF Texts(DePrefixed(r).out) = {} THEN Fail(DePrefixed(r))
                ELSE Give(DePrefixed(r), [text |-> CHOOSE t \in Texts(DePrefixed(r).out) : TRUE])
           ELSE DePrefixed(r)
  BY DEF DePrimitive, Then, Signed, Unsigned
<1>12. ReadPrimitive("string", r) =
         IF ReadBytes(r).ok
           THEN IF Texts(ReadBytes(r).out) = {} THEN Fail(ReadBytes(r))
                ELSE Give(ReadBytes(r), [string |-> CHOOSE t \in Texts(ReadBytes(r).out) : TRUE])
           ELSE ReadBytes(r)
  BY DEF ReadPrimitive, Then
<1>13. DePrimitive(is, r) = Reader(tail, js, v)
  BY <1>2, <1>5, <1>8, <1>9, <1>10, <1>11
<1>14. ReadPrimitive("string", r) = Reader(tail, js, form)
  BY <1>5, <1>8, <1>9, <1>10, <1>12
<1> QED
  BY <1>3, <1>6, <1>8, <1>13, <1>14 DEF r

(* Bytes.                                                                  *)
LEMMA ByteArraysCross ==
  ASSUME NEW v, IsPrimitive("ByteArray", v),
         NEW tail \in Seq(0 .. Byte - 1), NEW js, NEW out
  PROVE  LET r == Reader(SerPrimitive("ByteArray", v) \o tail, js, out)
         IN  /\ Write("bytes", PrimitiveForm("ByteArray", v)) = SerPrimitive("ByteArray", v)
             /\ DePrimitive("ByteArray", r) = Reader(tail, js, v)
             /\ ReadPrimitive("bytes", r) = Reader(tail, js, PrimitiveForm("ByteArray", v))
<1> DEFINE bytes == v.bytes
           form == [bytes |-> bytes]
           r == Reader(Prefixed(bytes) \o tail, js, out)
           s == Reader(tail, js, bytes)
<1>1. v \in [bytes : Seq(0 .. Byte - 1)] /\ Len(bytes) < Power(2)[Bits.U32]
  BY DEF IsPrimitive, Signed, Unsigned
<1>2. v = [bytes |-> bytes] /\ bytes \in Seq(0 .. Byte - 1)
  BY <1>1
<1>3. SerPrimitive("ByteArray", v) = Prefixed(bytes) /\ PrimitiveForm("ByteArray", v) = form
  BY DEF SerPrimitive, PrimitiveForm, Signed, Unsigned
<1>4. Write("bytes", form) = WriteBytes(bytes)
  BY DEF Write, IsA
<1> HIDE DEF bytes
<1>5. Bits.U32 \in Nat
  BY Widths
<1>6. WriteBytes(bytes) = Prefixed(bytes) /\ DePrefixed(r) = s /\ ReadBytes(r) = s
  BY <1>1, <1>2, <1>5, BytesCross
<1>7. s.ok /\ s.out = bytes
  BY DEF Reader
<1>8. Give(s, v) = Reader(tail, js, v)
  BY GiveReader
<1> HIDE DEF r, s
<1>9. /\ DePrimitive("ByteArray", r) =
           IF DePrefixed(r).ok THEN Give(DePrefixed(r), [bytes |-> DePrefixed(r).out]) ELSE DePrefixed(r)
      /\ ReadPrimitive("bytes", r) =
           IF ReadBytes(r).ok THEN Give(ReadBytes(r), [bytes |-> ReadBytes(r).out]) ELSE ReadBytes(r)
  BY DEF DePrimitive, ReadPrimitive, Then, Signed, Unsigned
<1>10. DePrimitive("ByteArray", r) = Reader(tail, js, v) /\ ReadPrimitive("bytes", r) = Reader(tail, js, v)
  BY <1>2, <1>6, <1>7, <1>8, <1>9
<1> QED
  BY <1>2, <1>3, <1>4, <1>6, <1>10 DEF r

LEMMA EachTypeCrosses ==
  ASSUME NEW is \in PrimitiveTypes, NEW v, IsPrimitive(is, v),
         NEW tail \in Seq(0 .. Byte - 1), NEW js, NEW out
  PROVE  LET r == Reader(SerPrimitive(is, v) \o tail, js, out)
         IN  /\ Write(Method(is), PrimitiveForm(is, v)) = SerPrimitive(is, v)
             /\ DePrimitive(is, r) = Reader(tail, js, v)
             /\ ReadPrimitive(Method(is), r) = Reader(tail, js, PrimitiveForm(is, v))
<1>1. CASE is \in Unsigned
  BY <1>1, UnsignedCross
<1>2. CASE is \in Signed
  BY <1>2, SignedCross
<1>3. CASE is \in {"Bool", "U8", "I8"}
  BY <1>3, ByteTypesCross
<1>4. CASE is \in {"F32", "F64"}
  BY <1>4, FloatTypesCross
<1>5. CASE is \in {"Char", "String"}
  BY <1>5, TextTypesCross
<1>6. CASE is = "ByteArray"
  BY <1>6, ByteArraysCross, MethodOf
<1> QED
  BY <1>1, <1>2, <1>3, <1>4, <1>5, <1>6 DEF PrimitiveTypes

(* The two languages write a value alike, byte for byte: what              *)
(* EncodersAgree says of messages, for every value of every type without   *)
(* parts.  Codec picks the method of Writer by the name that code.rs gives *)
(* the type.                                                               *)
THEOREM PrimitiveEncodersAgree ==
  ASSUME NEW is \in PrimitiveTypes, NEW v, IsPrimitive(is, v)
  PROVE  Write(PRIMITIVES[SchemaKinds[is]], PrimitiveForm(is, v)) = SerPrimitive(is, v)
<1>1. <<>> \in Seq(0 .. Byte - 1)
  OBVIOUS
<1> QED
  BY <1>1, EachTypeCrosses DEF Method

(* A value of a type without parts, in front of anything, is read back by  *)
(* either language, whichever wrote it, and what follows is left: the      *)
(* value in Rust, in JavaScript what stands for it there (Reader, and      *)
(* from_bytes of postcard).                                                *)
THEOREM PrimitivesCross ==
  ASSUME NEW is \in PrimitiveTypes, NEW v, IsPrimitive(is, v),
         NEW tail \in Seq(0 .. Byte - 1), NEW js, NEW out
  PROVE  LET method == PRIMITIVES[SchemaKinds[is]]
             form == PrimitiveForm(is, v)
             FromRust == Reader(SerPrimitive(is, v) \o tail, js, out)
             FromJs == Reader(Write(method, form) \o tail, js, out)
         IN  /\ DePrimitive(is, FromRust) = Reader(tail, js, v)
             /\ DePrimitive(is, FromJs) = Reader(tail, js, v)
             /\ ReadPrimitive(method, FromRust) = Reader(tail, js, form)
             /\ ReadPrimitive(method, FromJs) = Reader(tail, js, form)
<1>1. Write(Method(is), PrimitiveForm(is, v)) = SerPrimitive(is, v)
  BY PrimitiveEncodersAgree DEF Method
<1>2. /\ DePrimitive(is, Reader(SerPrimitive(is, v) \o tail, js, out)) = Reader(tail, js, v)
      /\ ReadPrimitive(Method(is), Reader(SerPrimitive(is, v) \o tail, js, out)) =
           Reader(tail, js, PrimitiveForm(is, v))
  BY EachTypeCrosses
<1> QED
  BY <1>1, <1>2 DEF Method
-----------------------------------------------------------------------------
(* The numbers of methods.                                                 *)

(* Two lists made of the same places, one of what a has there and one of   *)
(* what b has.                                                             *)
Kept(a, n, kept) == [i \in 1 .. n |-> IF i \in kept THEN <<a[i]>> ELSE <<>>]

Aligned(s, t, a, b, kept) ==
  /\ Len(s) \in Nat /\ Len(t) = Len(s)
  /\ \A k \in 1 .. Len(s) : \E i \in kept : s[k] = a[i] /\ t[k] = b[i]
  /\ \A i \in kept : \E k \in 1 .. Len(s) : s[k] = a[i] /\ t[k] = b[i]

Keeps(p, a, n, kept) ==
  /\ p \in [1 .. n -> Seq({a[i] : i \in 1 .. n})]
  /\ \A i \in 1 .. n : p[i] = IF i \in kept THEN <<a[i]>> ELSE <<>>

LEMMA KeptType ==
  ASSUME NEW a, NEW n \in Nat, NEW kept
  PROVE  Keeps(Kept(a, n, kept), a, n, kept)
<1> DEFINE V == {a[i] : i \in 1 .. n}
<1>1. \A i \in 1 .. n : a[i] \in V
  OBVIOUS
<1> HIDE DEF V
<1>2. ASSUME NEW i \in 1 .. n
      PROVE  (IF i \in kept THEN <<a[i]>> ELSE <<>>) \in Seq(V)
  <2>1. <<a[i]>> \in Seq(V) /\ <<>> \in Seq(V)
    BY <1>1
  <2> QED
    BY <2>1
<1> QED
  BY <1>2 DEF Kept, Keeps, V

(* One more place.                                                         *)
LEMMA AlignedNext ==
  ASSUME NEW A, NEW B, NEW s \in Seq(A), NEW t \in Seq(B), NEW a, NEW b, NEW kept, NEW i,
         i \notin kept, a[i] \in A, b[i] \in B, Aligned(s, t, a, b, kept)
  PROVE  Aligned(s \o <<a[i]>>, t \o <<b[i]>>, a, b, kept \cup {i})
<1> DEFINE u == s \o <<a[i]>>
           w == t \o <<b[i]>>
           n == Len(s)
<1>1. n \in Nat /\ Len(t) = n
  BY DEF Aligned
<1>2. Len(u) = n + 1 /\ u[n + 1] = a[i] /\ \A k \in 1 .. n : u[k] = s[k]
  BY <1>1
<1>3. Len(w) = n + 1 /\ w[n + 1] = b[i] /\ \A k \in 1 .. n : w[k] = t[k]
  BY <1>1
<1> HIDE DEF u, w
<1>4. /\ \A k \in 1 .. n : \E j \in kept : s[k] = a[j] /\ t[k] = b[j]
      /\ \A j \in kept : \E k \in 1 .. n : s[k] = a[j] /\ t[k] = b[j]
  BY DEF Aligned
<1> HIDE DEF n
<1>5. ASSUME NEW k \in 1 .. n + 1
      PROVE  \E j \in kept \cup {i} : u[k] = a[j] /\ w[k] = b[j]
  <2>1. CASE k = n + 1
    BY <2>1, <1>2, <1>3
  <2>2. CASE k # n + 1
    <3>1. k \in 1 .. n
      BY <2>2, <1>1
    <3> QED
      BY <3>1, <1>2, <1>3, <1>4
  <2> QED
    BY <2>1, <2>2
<1>6. ASSUME NEW j \in kept \cup {i}
      PROVE  \E k \in 1 .. n + 1 : u[k] = a[j] /\ w[k] = b[j]
  <2>1. n + 1 \in 1 .. n + 1 /\ \A k \in 1 .. n : k \in 1 .. n + 1
    BY <1>1
  <2>2. CASE j = i
    BY <2>1, <2>2, <1>2, <1>3
  <2>3. CASE j \in kept
    <3>1. PICK k \in 1 .. n : s[k] = a[j] /\ t[k] = b[j]
      BY <2>3, <1>4
    <3> QED
      BY <3>1, <2>1, <1>2, <1>3
  <2> QED
    BY <2>2, <2>3
<1>7. Len(u) \in Nat /\ Len(w) = Len(u)
  BY <1>1, <1>2, <1>3
<1> QED
  BY <1>2, <1>5, <1>6, <1>7 DEF Aligned, u, w

LEMMA KeptAligned ==
  ASSUME NEW a, NEW b, NEW n \in Nat, NEW kept, kept \subseteq 1 .. n
  PROVE  Aligned(FlattenSeq(Kept(a, n, kept)), FlattenSeq(Kept(b, n, kept)), a, b, kept)
<1> DEFINE A == {a[i] : i \in 1 .. n}
           B == {b[i] : i \in 1 .. n}
           p == Kept(a, n, kept)
           q == Kept(b, n, kept)
<1>1. /\ p \in [1 .. n -> Seq(A)]
      /\ \A i \in 1 .. n : p[i] = IF i \in kept THEN <<a[i]>> ELSE <<>>
  <2>1. Keeps(Kept(a, n, kept), a, n, kept)
    BY KeptType
  <2> QED
    BY <2>1 DEF Keeps
<1>2. /\ q \in [1 .. n -> Seq(B)]
      /\ \A i \in 1 .. n : q[i] = IF i \in kept THEN <<b[i]>> ELSE <<>>
  <2>1. Keeps(Kept(b, n, kept), b, n, kept)
    BY KeptType
  <2> QED
    BY <2>1 DEF Keeps
<1>3. /\ p \in [1 .. n -> Seq(A)] /\ q \in [1 .. n -> Seq(B)]
      /\ \A i \in 1 .. n : p[i] = IF i \in kept THEN <<a[i]>> ELSE <<>>
      /\ \A i \in 1 .. n : q[i] = IF i \in kept THEN <<b[i]>> ELSE <<>>
  BY <1>1, <1>2
<1>4. \A i \in 1 .. n : a[i] \in A /\ b[i] \in B
  OBVIOUS
<1> HIDE DEF A, B, p, q
<1>5. CASE n = 0
  <2>1. kept = {}
    BY <1>5
  <2>2. p \in Seq(Seq(A)) /\ Len(p) = 0 /\ q \in Seq(Seq(B)) /\ Len(q) = 0
    BY <1>3, <1>5
  <2>3. FlattenSeq(p) = p /\ FlattenSeq(q) = q
    BY <2>2 DEF FlattenSeq
  <2>4. Aligned(p, q, a, b, kept)
    BY <2>1, <2>2 DEF Aligned
  <2> QED
    BY <2>3, <2>4 DEF p, q
<1>6. CASE n # 0
  <2>1. n \in Nat \ {0}
    BY <1>6
  <2>2. PICK f : Joins(f, p, A, n)
    BY <1>3, <2>1, FlattenSeqDef
  <2>3. PICK g : Joins(g, q, B, n)
    BY <1>3, <2>1, FlattenSeqDef
  <2> DEFINE S == {i \in Nat : i \in 1 .. n => Aligned(f[i], g[i], a, b, kept \cap (1 .. i))}
  <2>4. 0 \in S
    OBVIOUS
  <2>5. ASSUME NEW m \in Nat, m \in S
        PROVE  m + 1 \in S
    <3> DEFINE i == m + 1
               s == IF m = 0 THEN <<>> ELSE f[m]
               t == IF m = 0 THEN <<>> ELSE g[m]
               before == kept \cap (1 .. m)
    <3> SUFFICES ASSUME i \in 1 .. n
                 PROVE  Aligned(f[i], g[i], a, b, kept \cap (1 .. i))
      OBVIOUS
    <3>1. m # 0 => m \in 1 .. n /\ i # 1 /\ i - 1 = m
      OBVIOUS
    <3>2. s \in Seq(A) /\ t \in Seq(B)
      BY <3>1, <2>2, <2>3 DEF Joins
    <3>3. Aligned(s, t, a, b, before)
      <4>1. CASE m = 0
        <5>1. before = {} /\ s = <<>> /\ t = <<>>
          BY <4>1
        <5> QED
          BY <5>1 DEF Aligned
      <4>2. CASE m # 0
        BY <4>2, <3>1, <2>5
      <4> QED
        BY <4>1, <4>2
    <3>4. f[i] = s \o p[i] /\ g[i] = t \o q[i]
      <4>1. CASE m = 0
        <5>1. f[1] = p[1] /\ g[1] = q[1] /\ i = 1 /\ s = <<>> /\ t = <<>>
          BY <4>1, <2>2, <2>3 DEF Joins
        <5>2. p[1] \in Seq(A) /\ q[1] \in Seq(B)
          BY <5>1, <1>3
        <5>3. <<>> \o p[1] = p[1] /\ <<>> \o q[1] = q[1]
          BY <5>2, ConcatEmptySeq
        <5> QED
          BY <5>1, <5>3
      <4>2. CASE m # 0
        <5>1. i \in 1 .. n /\ i # 1 /\ i - 1 = m
          BY <4>2, <3>1
        <5>2. f[i] = f[i - 1] \o p[i] /\ g[i] = g[i - 1] \o q[i]
          BY <5>1, <2>2, <2>3 DEF Joins
        <5> QED
          BY <5>1, <5>2, <4>2
      <4> QED
        BY <4>1, <4>2
    <3> HIDE DEF s, t
    <3>5. CASE i \in kept
      <4>1. p[i] = <<a[i]>> /\ q[i] = <<b[i]>>
        BY <3>5, <1>3
      <4>2. i \notin before /\ kept \cap (1 .. i) = before \cup {i}
        BY <3>5
      <4>3. a[i] \in A /\ b[i] \in B
        BY <1>4
      <4> HIDE DEF i, before
      <4>4. Aligned(s \o <<a[i]>>, t \o <<b[i]>>, a, b, before \cup {i})
        BY <3>2, <3>3, <4>2, <4>3, AlignedNext
      <4> QED
        BY <3>4, <4>1, <4>2, <4>4
    <3>6. CASE i \notin kept
      <4>1. p[i] = <<>> /\ q[i] = <<>>
        BY <3>6, <1>3
      <4>2. kept \cap (1 .. i) = before
        BY <3>6
      <4>3. s \o <<>> = s /\ t \o <<>> = t
        BY <3>2, ConcatEmptySeq
      <4> HIDE DEF i, before
      <4> QED
        BY <3>3, <3>4, <4>1, <4>2, <4>3
    <3> QED
      BY <3>5, <3>6
  <2>6. \A i \in Nat : i \in S
    <3> HIDE DEF S
    <3> QED BY <2>4, <2>5, SetInduction
  <2>7. Aligned(f[n], g[n], a, b, kept \cap (1 .. n))
    BY <2>1, <2>6
  <2>8. kept \cap (1 .. n) = kept /\ FlattenSeq(p) = f[n] /\ FlattenSeq(q) = g[n]
    BY <2>2, <2>3 DEF Joins
  <2> QED
    BY <2>7, <2>8 DEF p, q
<1> QED
  BY <1>5, <1>6
(* The attributes that the items made for a method carry keep them exactly *)
(* when the const of the method is filled: unless a cfg is brought in by a *)
(* cfg_attr, which the consts know nothing of.                             *)
LEMMA SurvivesIsEnabled ==
  ASSUME NEW m, NEW flags,
         \A a \in ToSet(m.attrs) : a.attr = "cfg" => a.inside = {}
  PROVE  Survives(cfg_attrs(m.attrs), flags) <=> Enabled(m, flags)
<1>1. Survives(cfg_attrs(m.attrs), flags) <=>
        \A a \in ToSet(m.attrs) : a.attr = "cfg" => a.flag \in flags
  BY DEF Survives, cfg_attrs
<1>2. Enabled(m, flags) <=> \A a \in ToSet(m.attrs) : a.attr = "cfg" => a.flag \in flags
  BY DEF Enabled, cfg_predicates
<1> QED
  BY <1>1, <1>2

(* The number that a call of a method crosses under is the number its      *)
(* description has, whatever the cfgs of the methods and the flags of the  *)
(* build: the enums of lib.rs and the consts of describe.rs drop the same  *)
(* methods and keep the others in the same places.  It takes that no       *)
(* cfg_attr brings in a cfg; the run CfgAttr shows what happens otherwise. *)
THEOREM NumberingAgrees ==
  ASSUME NEW trait, NEW described, NEW flags,
         NEW n \in Nat, DOMAIN trait.methods = 1 .. n,
         \A i \in 1 .. n : \A a \in ToSet(trait.methods[i].attrs) : a.attr = "cfg" => a.inside = {}
  PROVE  LET variants == enum_request(trait, flags)
             service == ServiceDescription(trait, described, flags)
         IN  /\ method_count(service) = Len(variants)
             /\ \A k \in 1 .. Len(variants) : \E i \in 1 .. n :
                  /\ Enabled(trait.methods[i], flags)
                  /\ variants[k] = trait.methods[i]
                  /\ method_at(service, k - 1) = described[i]
             /\ \A i \in 1 .. n : Enabled(trait.methods[i], flags) =>
                  \E k \in 1 .. Len(variants) :
                    /\ variants[k] = trait.methods[i]
                    /\ method_at(service, k - 1) = described[i]
<1> DEFINE methods == trait.methods
           variants == enum_request(trait, flags)
           service == ServiceDescription(trait, described, flags)
           kept == {i \in 1 .. n : Enabled(methods[i], flags)}
<1>1. variants = FlattenSeq(Kept(methods, n, kept))
  <2>1. \A i \in 1 .. n : Survives(cfg_attrs(methods[i].attrs), flags) <=> i \in kept
    BY SurvivesIsEnabled
  <2> DEFINE made == [i \in 1 .. n |->
               IF Survives(cfg_attrs(methods[i].attrs), flags) THEN <<methods[i]>> ELSE <<>>]
  <2>2. variants = FlattenSeq(made)
    BY DEF enum_request
  <2>3. made = Kept(methods, n, kept)
    <3> HIDE DEF kept
    <3> QED BY <2>1 DEF Kept
  <2> QED
    BY <2>2, <2>3
<1>2. service.methods = Kept(described, n, kept)
  BY DEF ServiceDescription, Kept
<1> DEFINE s == FlattenSeq(service.methods)
<1>3. Aligned(variants, s, methods, described, kept)
  <2>1. kept \subseteq 1 .. n
    OBVIOUS
  <2> HIDE DEF kept, variants, service
  <2> QED BY <1>1, <1>2, <2>1, KeptAligned
<1>4. method_count(service) = Len(s)
  BY DEF method_count
<1>5. \A k \in 1 .. Len(variants) : method_at(service, k - 1) = s[k]
  <2> HIDE DEF variants, service
  <2>1. \A k \in 1 .. Len(variants) : (k - 1) + 1 = k
    BY <1>3 DEF Aligned
  <2> QED
    BY <2>1 DEF method_at
<1>6. \A i : i \in kept <=> i \in 1 .. n /\ Enabled(methods[i], flags)
  OBVIOUS
<1> HIDE DEF kept, variants, service, s, methods
<1>7. /\ Len(s) = Len(variants)
      /\ \A k \in 1 .. Len(variants) : \E i \in kept : variants[k] = methods[i] /\ s[k] = described[i]
      /\ \A i \in kept : \E k \in 1 .. Len(variants) : variants[k] = methods[i] /\ s[k] = described[i]
  BY <1>3 DEF Aligned
<1>8. ASSUME NEW k \in 1 .. Len(variants)
      PROVE  \E i \in 1 .. n : /\ Enabled(methods[i], flags)
                               /\ variants[k] = methods[i]
                               /\ method_at(service, k - 1) = described[i]
  <2>1. PICK i \in kept : variants[k] = methods[i] /\ s[k] = described[i]
    BY <1>7
  <2> QED
    BY <2>1, <1>5, <1>6
<1>9. ASSUME NEW i \in 1 .. n, Enabled(methods[i], flags)
      PROVE  \E k \in 1 .. Len(variants) : /\ variants[k] = methods[i]
                                           /\ method_at(service, k - 1) = described[i]
  <2>1. i \in kept
    BY <1>9, <1>6
  <2>2. PICK k \in 1 .. Len(variants) : variants[k] = methods[i] /\ s[k] = described[i]
    BY <2>1, <1>7
  <2> QED
    BY <2>2, <1>5
<1>10. method_count(service) = Len(variants)
  BY <1>4, <1>7
<1> QED
  BY <1>8, <1>9, <1>10 DEF variants, service, methods
=============================================================================
