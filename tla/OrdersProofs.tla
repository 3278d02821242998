----------------------------- MODULE OrdersProofs -----------------------------
(* For lines of any length, made of any symbols, and for any widths of int and *)
(* size_t: the parser reads what a line means, no pizza is noted that is not   *)
(* sent, and the cooks get what was ordered.                                   *)
EXTENDS Orders, DataLemmas, SequenceTheorems

\* What the parser returns for one piece of a line.
Order == [type : DOMAIN Recipe, size : DOMAIN Spelling, quantity : Nat \ {0}]

-----------------------------------------------------------------------------
(* The sums of main and of the property.                                       *)

\* Equal but for whole turns of an int.
Same(a, b) == \E j \in Int : a = b + j * IntRange

LEMMA IntRangeIs == MaxInt \in Nat /\ IntRange \in Nat \ {0} /\ IntRange = MaxInt + 1 + (MaxInt + 1)
BY OrdersAssumption DEF IntRange

LEMMA SameAdds ==
    ASSUME NEW a \in Int, NEW b \in Int, NEW c \in Int, NEW d \in Int, Same(a, b), Same(c, d)
    PROVE  Same(a + c, b + d)
<1>1. PICK i \in Int : a = b + i * IntRange
  BY DEF Same
<1>2. PICK j \in Int : c = d + j * IntRange
  BY DEF Same
<1>3. i + j \in Int /\ (i + j) * IntRange = i * IntRange + j * IntRange
  BY IntRangeIs
<1>4. i * IntRange \in Int /\ j * IntRange \in Int
  BY IntRangeIs
<1>5. a + c = b + d + (i + j) * IntRange
  BY <1>1, <1>2, <1>3, <1>4
<1> QED
  BY <1>3, <1>5 DEF Same

LEMMA SameTwice ==
    ASSUME NEW a \in Int, NEW b \in Int, NEW c \in Int, Same(a, b), Same(b, c)
    PROVE  Same(a, c)
<1>1. PICK i \in Int : a = b + i * IntRange
  BY DEF Same
<1>2. PICK j \in Int : b = c + j * IntRange
  BY DEF Same
<1>3. i + j \in Int /\ (i + j) * IntRange = i * IntRange + j * IntRange
  BY IntRangeIs
<1>4. i * IntRange \in Int /\ j * IntRange \in Int
  BY IntRangeIs
<1>5. a = c + (i + j) * IntRange
  BY <1>1, <1>2, <1>3, <1>4
<1> QED
  BY <1>3, <1>5 DEF Same

\* A number in an int differs from it by whole turns.
LEMMA AsIntIs ==
    ASSUME NEW n \in Int
    PROVE  /\ AsInt(n) \in Int /\ AsInt(n) <= MaxInt /\ -(MaxInt + 1) <= AsInt(n)
           /\ Same(n, AsInt(n))
<1> DEFINE q == n \div IntRange
           m == n % IntRange
<1>1. n = IntRange * q + m /\ m \in 0 .. IntRange - 1 /\ q \in Int
  BY IntRangeIs
<1>2. IntRange * q = q * IntRange /\ q * IntRange \in Int
  BY <1>1, IntRangeIs
<1> HIDE DEF q
<1>3. (q + 1) * IntRange = q * IntRange + IntRange
  BY <1>1, IntRangeIs
<1>4. CASE m <= MaxInt
  <2>1. AsInt(n) = m
    BY <1>4 DEF AsInt
  <2> HIDE DEF m
  <2>2. n = m + q * IntRange
    BY <1>1, <1>2
  <2>3. Same(n, m)
    BY <1>1, <2>2 DEF Same
  <2> QED
    BY <1>1, <1>4, <2>1, <2>3, IntRangeIs
<1>5. CASE ~(m <= MaxInt)
  <2>1. AsInt(n) = m - IntRange
    BY <1>5 DEF AsInt
  <2> HIDE DEF m
  <2>2. n = (m - IntRange) + (q + 1) * IntRange /\ q + 1 \in Int
    BY <1>1, <1>2, <1>3, IntRangeIs
  <2>3. Same(n, m - IntRange)
    BY <2>2 DEF Same
  <2> QED
    BY <1>1, <1>5, <2>1, <2>3, IntRangeIs
<1> QED
  BY <1>4, <1>5

\* A sum that is not negative is at least the int it wraps to, and equal if it fits.
LEMMA WrapsDown ==
    ASSUME NEW s \in Nat, NEW t \in Int, t <= MaxInt, -(MaxInt + 1) <= t, Same(s, t)
    PROVE  t <= s /\ (s <= MaxInt => t = s)
<1>1. PICK j \in Int : s = t + j * IntRange
  BY DEF Same
<1>2. j * IntRange \in Int
  BY IntRangeIs
<1>3. CASE j = 0
  BY <1>1, <1>3, IntRangeIs
<1>4. CASE j >= 1
  <2>1. j * IntRange >= IntRange
    BY <1>4, IntRangeIs
  <2> QED
    BY <1>1, <1>2, <2>1, IntRangeIs
<1>5. CASE j <= -1
  <2>1. j * IntRange <= -IntRange
    BY <1>5, IntRangeIs
  <2> QED
    BY <1>1, <1>2, <2>1, IntRangeIs
<1> QED
  BY <1>3, <1>4, <1>5

LEMMA OrdersAre ==
    ASSUME NEW os \in Seq(Order)
    PROVE  /\ Len(os) \in Nat
           /\ \A i \in 1 .. Len(os) :
                /\ os[i] \in Order /\ os[i].type \in DOMAIN Recipe
                /\ os[i].size \in DOMAIN Spelling
                /\ os[i].quantity \in Nat /\ os[i].quantity >= 1
<1>1. Len(os) \in Nat /\ \A i \in 1 .. Len(os) : os[i] \in Order
  OBVIOUS
<1>2. \A o \in Order : /\ o.type \in DOMAIN Recipe /\ o.size \in DOMAIN Spelling
                       /\ o.quantity \in Nat \ {0}
  BY DEF Order
<1>3. \A m \in Nat \ {0} : m \in Nat /\ m >= 1
  OBVIOUS
<1> QED
  BY <1>1, <1>2, <1>3

\* s counts the pizzas of the first orders of os.
Sums(os, s) ==
    /\ s \in [0 .. Len(os) -> Nat] /\ s[0] = 0
    /\ \A i \in 1 .. Len(os) : s[i] = s[i - 1] + os[i].quantity

LEMMA SumsExist ==
    ASSUME NEW os \in Seq(Order)
    PROVE  \E s : Sums(os, s)
<1> DEFINE n == Len(os)
           step == [x \in (1 .. n) \X Nat |-> x[2] + os[x[1]].quantity]
<1>1. n \in Nat /\ \A i \in 1 .. n : os[i].quantity \in Nat
  BY OrdersAre
<1>2. \E f \in [0 .. n -> Nat] : Recurs(f, 0, n, step)
  <2>1. step \in [(1 .. n) \X Nat -> Nat]
    BY <1>1
  <2>2. 0 \in Nat
    OBVIOUS
  <2> HIDE DEF step, n
  <2> QED
    BY <1>1, <2>1, <2>2, RecursionExists, Zenon
<1>3. PICK f \in [0 .. n -> Nat] :
          f[0] = 0 /\ \A i \in 1 .. n : f[i] = f[i - 1] + os[i].quantity
  <2>1. ASSUME NEW i \in 1 .. n, NEW x \in Nat
        PROVE  step[<<i, x>>] = x + os[i].quantity
    BY <1>1
  <2>2. PICK f \in [0 .. n -> Nat] : Recurs(f, 0, n, step)
    BY <1>2
  <2> USE DEF Recurs
  <2> HIDE DEF step
  <2>3. \A i \in 1 .. n : f[i - 1] \in Nat
    <3>1. \A i \in 1 .. n : i - 1 \in 0 .. n
      BY <1>1
    <3> QED
      BY <2>2, <3>1
  <2> QED
    BY <2>1, <2>2, <2>3
<1> QED
  BY <1>3 DEF Sums

\* The sum of all pizzas, as it is and in an int.
LEMMA OrderedIs ==
    ASSUME orders \in Seq(Order)
    PROVE  \E s : Sums(orders, s) /\ Ordered = s[Len(orders)]
<1> DEFINE n == Len(orders)
           sum[i \in 0 .. Len(orders)] ==
               IF i = 0 THEN 0 ELSE sum[i - 1] + orders[i].quantity
<1>1. n \in Nat /\ \A i \in 1 .. n : orders[i].quantity \in Nat
  BY OrdersAre
<1>2. PICK f \in [0 .. n -> Nat] :
          f[0] = 0 /\ \A i \in 1 .. n : f[i] = f[i - 1] + orders[i].quantity
  BY SumsExist DEF Sums
<1>3. f = [i \in 0 .. n |-> IF i = 0 THEN 0 ELSE f[i - 1] + orders[i].quantity]
  BY <1>1, <1>2
<1>4. sum = [i \in 0 .. n |-> IF i = 0 THEN 0 ELSE sum[i - 1] + orders[i].quantity]
  BY <1>3
<1>5. Ordered = sum[n]
  BY DEF Ordered
<1> HIDE DEF sum
<1>6. /\ sum[0] = 0
      /\ \A i \in 1 .. n : sum[i] = sum[i - 1] + orders[i].quantity
  BY <1>1, <1>4
<1>7. \A i \in 0 .. n : sum[i] \in Nat
  <2> DEFINE S == {i \in 0 .. n : sum[i] \in Nat}
  <2>1. 0 \in S
    BY <1>1, <1>6
  <2>2. ASSUME NEW i \in 1 .. n, i - 1 \in S
        PROVE  i \in S
    <3>1. i \in 0 .. n /\ sum[i - 1] \in Nat
      BY <1>1, <2>2
    <3> QED
      BY <1>1, <1>6, <3>1
  <2> HIDE DEF S, n
  <2>3. \A i \in 0 .. n : i \in S
    BY <1>1, <2>1, <2>2, CountUp
  <2> QED
    BY <2>3 DEF S
<1>8. sum \in [0 .. n -> Nat]
  BY <1>4, <1>7
<1> QED
  BY <1>5, <1>6, <1>8 DEF Sums

LEMMA TotalIs ==
    ASSUME orders \in Seq(Order)
    PROVE  \E s \in [0 .. Len(orders) -> Int] :
               /\ s[0] = 0
               /\ \A i \in 1 .. Len(orders) :
                    s[i] = AsInt(s[i - 1] + AsInt(orders[i].quantity))
               /\ Total = s[Len(orders)]
<1> DEFINE n == Len(orders)
           step == [x \in (1 .. n) \X Int |-> AsInt(x[2] + AsInt(orders[x[1]].quantity))]
           sum[i \in 0 .. Len(orders)] ==
               IF i = 0 THEN 0 ELSE AsInt(sum[i - 1] + AsInt(orders[i].quantity))
<1> HIDE DEF step, sum
<1>1. n \in Nat /\ \A i \in 1 .. n : AsInt(orders[i].quantity) \in Int
  <2>1. n \in Nat /\ \A i \in 1 .. n : orders[i].quantity \in Int
    BY OrdersAre
  <2>2. \A m \in Int : AsInt(m) \in Int
    BY AsIntIs
  <2> QED
    BY <2>1, <2>2
<1>2. \A x \in Int, i \in 1 .. n : AsInt(x + AsInt(orders[i].quantity)) \in Int
  <2>1. \A m \in Int : AsInt(m) \in Int
    BY AsIntIs
  <2>2. \A x \in Int, y \in Int : x + y \in Int
    OBVIOUS
  <2> QED
    BY <1>1, <2>1, <2>2
<1> USE DEF step, sum
<1>3. \E f \in [0 .. n -> Int] : Recurs(f, 0, n, step)
  <2>1. step \in [(1 .. n) \X Int -> Int]
    BY <1>2
  <2>2. 0 \in Int
    OBVIOUS
  <2> HIDE DEF step, n, sum
  <2> QED
    BY <1>1, <2>1, <2>2, RecursionExists, Zenon
<1>4. PICK f \in [0 .. n -> Int] :
          f[0] = 0 /\ \A i \in 1 .. n : f[i] = AsInt(f[i - 1] + AsInt(orders[i].quantity))
  <2>1. ASSUME NEW i \in 1 .. n, NEW x \in Int
        PROVE  step[<<i, x>>] = AsInt(x + AsInt(orders[i].quantity))
    OBVIOUS
  <2>2. PICK f \in [0 .. n -> Int] : Recurs(f, 0, n, step)
    BY <1>3
  <2> USE DEF Recurs
  <2> HIDE DEF step
  <2>3. \A i \in 1 .. n : f[i - 1] \in Int
    <3>1. \A i \in 1 .. n : i - 1 \in 0 .. n
      BY <1>1
    <3> QED
      BY <2>2, <3>1
  <2> QED
    BY <2>1, <2>2, <2>3
<1>5. f = [i \in 0 .. n |-> IF i = 0 THEN 0 ELSE AsInt(f[i - 1] + AsInt(orders[i].quantity))]
  BY <1>1, <1>4
<1>6. sum = [i \in 0 .. n |-> IF i = 0 THEN 0 ELSE AsInt(sum[i - 1] + AsInt(orders[i].quantity))]
  BY <1>5
<1>7. Total = sum[n]
  BY DEF Total
<1> HIDE DEF sum
<1>8. /\ sum[0] = 0
      /\ \A i \in 1 .. n : sum[i] = AsInt(sum[i - 1] + AsInt(orders[i].quantity))
  BY <1>1, <1>6
<1>9. \A i \in 0 .. n : sum[i] \in Int
  <2> DEFINE S == {i \in 0 .. n : sum[i] \in Int}
  <2>1. 0 \in S
    BY <1>1, <1>8
  <2>2. ASSUME NEW i \in 1 .. n, i - 1 \in S
        PROVE  i \in S
    <3>1. i \in 0 .. n /\ sum[i - 1] \in Int
      BY <1>1, <2>2
    <3> QED
      BY <1>1, <1>2, <1>8, <3>1
  <2> HIDE DEF S, n
  <2>3. \A i \in 0 .. n : i \in S
    BY <1>1, <2>1, <2>2, CountUp
  <2> QED
    BY <2>3 DEF S
<1>10. sum \in [0 .. n -> Int]
  BY <1>6, <1>9
<1> QED
  BY <1>7, <1>8, <1>10

\* What NotedIsSent rests on: the int never exceeds the sum, and is the sum if it fits.
LEMMA TotalFits ==
    ASSUME orders \in Seq(Order)
    PROVE  /\ Ordered \in Nat /\ Total \in Int
           /\ Total <= Ordered /\ (Ordered <= MaxInt => Total = Ordered)
<1> DEFINE n == Len(orders)
<1>1. PICK s \in [0 .. n -> Nat] :
          /\ s[0] = 0
          /\ \A i \in 1 .. n : s[i] = s[i - 1] + orders[i].quantity
          /\ Ordered = s[n]
  BY OrderedIs DEF Sums
<1>2. PICK t \in [0 .. n -> Int] :
          /\ t[0] = 0
          /\ \A i \in 1 .. n : t[i] = AsInt(t[i - 1] + AsInt(orders[i].quantity))
          /\ Total = t[n]
  BY TotalIs
<1>3. n \in Nat /\ \A i \in 1 .. n : orders[i].quantity \in Nat
  BY OrdersAre
<1> DEFINE Fits(i) == t[i] <= MaxInt /\ -(MaxInt + 1) <= t[i] /\ Same(s[i], t[i])
           S == {i \in 0 .. n : Fits(i)}
<1>4. 0 \in S
  <2>1. Same(0, 0)
    BY IntRangeIs DEF Same
  <2> QED
    BY <1>1, <1>2, <1>3, <2>1, IntRangeIs
<1>5. ASSUME NEW i \in 1 .. n, i - 1 \in S
      PROVE  i \in S
  <2> DEFINE q == orders[i].quantity
             a == s[i - 1]
             b == t[i - 1]
  <2>1. q \in Nat /\ q \in Int /\ a \in Nat /\ a \in Int /\ b \in Int /\ Same(a, b) /\ s[i] = a + q /\ i \in 0 .. n
    BY <1>1, <1>2, <1>3, <1>5
  <2>2. t[i] = AsInt(b + AsInt(q))
    BY <1>2
  <2> HIDE DEF q, a, b
  <2>3. AsInt(q) \in Int /\ Same(q, AsInt(q))
    BY <2>1, AsIntIs, Zenon
  <2>4. b + AsInt(q) \in Int
    BY <2>1, <2>3
  <2>5. Same(a + q, b + AsInt(q))
    BY <2>1, <2>3, SameAdds, Zenon
  <2>6. /\ t[i] \in Int /\ t[i] <= MaxInt /\ -(MaxInt + 1) <= t[i]
        /\ Same(b + AsInt(q), t[i])
    BY <2>2, <2>4, AsIntIs
  <2>7. a + q \in Int
    BY <2>1
  <2>8. Same(a + q, t[i])
    BY <2>4, <2>5, <2>6, <2>7, SameTwice, Zenon
  <2> QED
    BY <2>1, <2>6, <2>8
<1> HIDE DEF S
<1>6. \A i \in 0 .. n : i \in S
  <2> HIDE DEF n
  <2> QED
    BY <1>3, <1>4, <1>5, CountUp
<1>7. Fits(n)
  BY <1>3, <1>6 DEF S
<1> QED
  BY <1>1, <1>2, <1>3, <1>7, WrapsDown

-----------------------------------------------------------------------------
(* The number of a piece.                                                      *)

LEMMA DigitIs ==
    ASSUME NEW d \in Digit
    PROVE  /\ DigitValue(d) \in Nat /\ (d # "0" => DigitValue(d) >= 1)
           /\ d \notin {"S", "M", "L", "X", "REGINA", "s", "m", "l", "x", "regina", Blank}
<1>1. DOMAIN Digits = 1 .. 10 /\ Digits[1] = "0"
  BY DEF Digits
<1>2. PICK n \in 1 .. 10 : Digits[n] = d
  BY <1>1 DEF Digit
<1> DEFINE m == CHOOSE i \in DOMAIN Digits : Digits[i] = d
<1>3. m \in 1 .. 10 /\ Digits[m] = d
  BY <1>1, <1>2
<1>4. DigitValue(d) = m - 1
  BY DEF DigitValue
<1> HIDE DEF m
<1>5. d \in {"0", "1", "2", "3", "4", "5", "6", "7", "8", "9"}
  <2>1. /\ Digits[1] = "0" /\ Digits[2] = "1" /\ Digits[3] = "2" /\ Digits[4] = "3"
        /\ Digits[5] = "4" /\ Digits[6] = "5" /\ Digits[7] = "6" /\ Digits[8] = "7"
        /\ Digits[9] = "8" /\ Digits[10] = "9"
    BY DEF Digits
  <2>2. \/ \E i \in {1, 2, 3, 4, 5} : d = Digits[i]
        \/ \E i \in {6, 7, 8, 9, 10} : d = Digits[i]
    BY <1>2
  <2> QED
    BY <2>1, <2>2
<1>6. d # Blank
  BY <1>5, Zenon DEF Blank
<1>7. d \notin {"S", "M", "L", "X", "REGINA", "s", "m", "l", "x", "regina"}
  BY <1>5
<1>8. d # "0" => m # 1
  BY <1>1, <1>3
<1>9. m - 1 \in Nat /\ (m # 1 => m - 1 >= 1)
  BY <1>3
<1> QED
  BY <1>4, <1>6, <1>7, <1>8, <1>9

\* A number that begins with a digit other than 0 is at least 1.
LEMMA ValueIs ==
    ASSUME NEW d, DOMAIN d = 1 .. Len(d), Len(d) \in Nat, Len(d) >= 1,
           \A i \in 1 .. Len(d) : d[i] \in Digit, d[1] # "0"
    PROVE  Value(d) \in Nat /\ Value(d) >= 1
<1> DEFINE n == Len(d)
           step == [x \in (1 .. n) \X Nat |-> 10 * x[2] + DigitValue(d[x[1]])]
           value[i \in 0 .. Len(d)] ==
               IF i = 0 THEN 0 ELSE 10 * value[i - 1] + DigitValue(d[i])
<1> HIDE DEF step, value
<1>1. n \in Nat /\ n >= 1 /\ \A i \in 1 .. n : DigitValue(d[i]) \in Nat
  BY DigitIs
<1>2. \E f \in [0 .. n -> Nat] : Recurs(f, 0, n, step)
  <2>1. step \in [(1 .. n) \X Nat -> Nat]
    BY <1>1 DEF step
  <2>2. 0 \in Nat
    OBVIOUS
  <2> HIDE DEF n
  <2> QED
    BY <1>1, <2>1, <2>2, RecursionExists, Zenon
<1>3. PICK f \in [0 .. n -> Nat] :
          f[0] = 0 /\ \A i \in 1 .. n : f[i] = 10 * f[i - 1] + DigitValue(d[i])
  <2>1. ASSUME NEW i \in 1 .. n, NEW x \in Nat
        PROVE  step[<<i, x>>] = 10 * x + DigitValue(d[i])
    BY <1>1 DEF step
  <2>2. PICK f \in [0 .. n -> Nat] : Recurs(f, 0, n, step)
    BY <1>2
  <2>3. \A i \in 1 .. n : f[i - 1] \in Nat
    <3>1. \A i \in 1 .. n : i - 1 \in 0 .. n
      BY <1>1
    <3> QED
      BY <2>2, <3>1
  <2> QED
    BY <2>1, <2>2, <2>3 DEF Recurs
<1>4. f = [i \in 0 .. n |-> IF i = 0 THEN 0 ELSE 10 * f[i - 1] + DigitValue(d[i])]
  BY <1>1, <1>3
<1>5. value = [i \in 0 .. n |-> IF i = 0 THEN 0 ELSE 10 * value[i - 1] + DigitValue(d[i])]
  BY <1>4 DEF value
<1>6. Value(d) = value[n]
  BY DEF Value, value
<1>7. /\ value[0] = 0
      /\ \A i \in 1 .. n : value[i] = 10 * value[i - 1] + DigitValue(d[i])
  BY <1>1, <1>5
<1> DEFINE S == {i \in 0 .. n : value[i] \in Nat /\ (i >= 1 => value[i] >= 1)}
<1>8. 0 \in S
  BY <1>1, <1>7
<1>9. ASSUME NEW i \in 1 .. n, i - 1 \in S
      PROVE  i \in S
  <2>1. i \in 0 .. n /\ value[i - 1] \in Nat /\ (i - 1 >= 1 => value[i - 1] >= 1)
    BY <1>1, <1>9
  <2>2. value[i] = 10 * value[i - 1] + DigitValue(d[i]) /\ DigitValue(d[i]) \in Nat
    BY <1>1, <1>7
  <2>3. i = 1 => DigitValue(d[i]) >= 1
    BY <1>1, DigitIs
  <2>4. value[i] \in Nat /\ value[i] >= 1
    BY <2>1, <2>2, <2>3
  <2> QED
    BY <2>1, <2>4
<1> HIDE DEF S
<1>10. \A i \in 0 .. n : i \in S
  <2> HIDE DEF n
  <2> QED
    BY <1>1, <1>8, <1>9, CountUp
<1> QED
  BY <1>1, <1>6, <1>10 DEF S

-----------------------------------------------------------------------------
(* Windows of a line, and what Trim leaves of one.                             *)

LEMMA WindowAt ==
    ASSUME NEW p \in Seq(STRING), NEW a \in 1 .. Len(p) + 1, NEW b \in a - 1 .. Len(p)
    PROVE  /\ Len(p) \in Nat /\ a \in Int /\ b \in Int /\ 1 <= a /\ a <= b + 1 /\ b <= Len(p)
           /\ a \in Nat /\ b \in Nat
<1>1. Len(p) \in Nat
  OBVIOUS
<1>2. a \in Int /\ 1 <= a
  BY <1>1
<1> QED
  BY <1>1, <1>2

LEMMA WindowIs ==
    ASSUME NEW p \in Seq(STRING), NEW a \in 1 .. Len(p) + 1, NEW b \in a - 1 .. Len(p)
    PROVE  /\ SubSeq(p, a, b) \in Seq(STRING) /\ Len(SubSeq(p, a, b)) = b - a + 1
           /\ \A i \in 1 .. b - a + 1 : SubSeq(p, a, b)[i] = p[a + i - 1]
<1>1. Len(p) \in Nat /\ \A i \in 1 .. Len(p) : p[i] \in STRING
  OBVIOUS
<1>2. a \in Int /\ b \in Int /\ \A i \in a .. b : i \in 1 .. Len(p)
  BY <1>1
<1>3. \A i \in a .. b : p[i] \in STRING
  BY <1>1, <1>2
<1>4. /\ SubSeq(p, a, b) \in Seq(STRING)
      /\ Len(SubSeq(p, a, b)) = IF a <= b THEN b - a + 1 ELSE 0
      /\ \A i \in 1 .. b - a + 1 : SubSeq(p, a, b)[i] = p[a + i - 1]
  BY <1>2, <1>3, SubSeqProperties
<1>5. (IF a <= b THEN b - a + 1 ELSE 0) = b - a + 1
  BY <1>1
<1> QED
  BY <1>4, <1>5

LEMMA WindowInWindow ==
    ASSUME NEW p \in Seq(STRING), NEW a \in 1 .. Len(p) + 1, NEW b \in a - 1 .. Len(p),
           NEW c \in 1 .. b - a + 2, NEW d \in c - 1 .. b - a + 1
    PROVE  SubSeq(SubSeq(p, a, b), c, d) = SubSeq(p, a + c - 1, a + d - 1)
<1> DEFINE w == SubSeq(p, a, b)
           u == SubSeq(w, c, d)
           v == SubSeq(p, a + c - 1, a + d - 1)
<1>1. w \in Seq(STRING) /\ Len(w) = b - a + 1 /\ \A i \in 1 .. b - a + 1 : w[i] = p[a + i - 1]
  BY WindowIs
<1>2. u \in Seq(STRING) /\ Len(u) = d - c + 1 /\ \A i \in 1 .. d - c + 1 : u[i] = w[c + i - 1]
  <2>1. c \in 1 .. Len(w) + 1 /\ d \in c - 1 .. Len(w)
    BY <1>1
  <2> HIDE DEF w
  <2> QED
    BY <1>1, <2>1, WindowIs
<1>3. /\ v \in Seq(STRING) /\ Len(v) = d - c + 1
      /\ \A i \in 1 .. d - c + 1 : v[i] = p[a + c - 1 + i - 1]
  <2> DEFINE e == a + c - 1
             f == a + d - 1
  <2>1. e \in 1 .. Len(p) + 1 /\ f \in e - 1 .. Len(p) /\ f - e + 1 = d - c + 1
    OBVIOUS
  <2> HIDE DEF e, f
  <2>2. /\ SubSeq(p, e, f) \in Seq(STRING) /\ Len(SubSeq(p, e, f)) = f - e + 1
        /\ \A i \in 1 .. f - e + 1 : SubSeq(p, e, f)[i] = p[e + i - 1]
    BY <2>1, WindowIs
  <2> QED
    BY <2>1, <2>2 DEF e, f
<1>4. \A i \in 1 .. d - c + 1 : u[i] = v[i]
  <2> SUFFICES ASSUME NEW i \in 1 .. d - c + 1
               PROVE  u[i] = v[i]
    OBVIOUS
  <2>1. c + i - 1 \in 1 .. b - a + 1 /\ a + (c + i - 1) - 1 = a + c - 1 + i - 1
    OBVIOUS
  <2> HIDE DEF u, v, w
  <2> QED
    BY <1>1, <1>2, <1>3, <2>1
<1> HIDE DEF u, v, w
<1>5. u = v
  BY <1>2, <1>3, <1>4, SeqEqual
<1> QED
  BY <1>5 DEF u, v, w

Blanks(p, a, b) == \A i \in a .. b : p[i] = Blank

\* Without the blanks around it, the window of p from a to b is the one from c to d.
Trimmed(p, a, b, c, d) ==
    /\ a <= c /\ c <= d /\ d <= b
    /\ p[c] # Blank /\ p[d] # Blank
    /\ Blanks(p, a, c - 1) /\ Blanks(p, d + 1, b)

LEMMA TrimIs ==
    ASSUME NEW p \in Seq(STRING), NEW a \in 1 .. Len(p) + 1, NEW b \in a - 1 .. Len(p),
           NEW c \in Int, NEW d \in Int, Trimmed(p, a, b, c, d)
    PROVE  Trim(SubSeq(p, a, b)) = SubSeq(p, c, d)
<1> DEFINE w == SubSeq(p, a, b)
           text == {i \in DOMAIN w : w[i] # Blank}
           first == c - a + 1
           last == d - a + 1
<1>1. w \in Seq(STRING) /\ Len(w) = b - a + 1 /\ \A i \in 1 .. b - a + 1 : w[i] = p[a + i - 1]
  BY WindowIs
<1> HIDE DEF w
<1>2. DOMAIN w = 1 .. b - a + 1
  BY <1>1
<1>0. /\ Len(p) \in Nat /\ a \in Int /\ b \in Int /\ 1 <= a /\ a <= b + 1 /\ b <= Len(p)
      /\ a \in Nat /\ b \in Nat
  BY WindowAt
<1>3. first \in 1 .. b - a + 1 /\ last \in first .. b - a + 1
  BY <1>0 DEF Trimmed
<1>4. first \in text /\ last \in text
  <2>1. a + first - 1 = c /\ a + last - 1 = d /\ last \in 1 .. b - a + 1
    BY <1>3
  <2>2. w[first] = p[c] /\ w[last] = p[d]
    <3> HIDE DEF first, last
    <3> QED
      BY <1>1, <1>3, <2>1
  <2> QED
    BY <1>2, <1>3, <2>1, <2>2 DEF Trimmed
<1>5. ASSUME NEW i \in text
      PROVE  first <= i /\ i <= last
  <2>1. i \in 1 .. b - a + 1 /\ i \in Int /\ p[a + i - 1] # Blank /\ a + i - 1 \in a .. b
    BY <1>0, <1>1, <1>2
  <2>2. ~(a + i - 1 \in a .. c - 1) /\ ~(a + i - 1 \in d + 1 .. b)
    BY <2>1 DEF Trimmed, Blanks
  <2> HIDE DEF text
  <2> QED
    BY <1>0, <2>1, <2>2
<1>6. text \subseteq Int
  BY <1>0, <1>2
<1> HIDE DEF text
<1>7. Min(text) = first /\ Max(text) = last
  <2>1. \A x \in text : (\A y \in text : x <= y) => x = first
    BY <1>3, <1>4, <1>5, <1>6
  <2>2. \A x \in text : (\A y \in text : x >= y) => x = last
    BY <1>3, <1>4, <1>5, <1>6
  <2>3. first \in text /\ \A y \in text : first <= y
    BY <1>4, <1>5
  <2>4. last \in text /\ \A y \in text : last >= y
    BY <1>3, <1>4, <1>5, <1>6
  <2> HIDE DEF first, last
  <2>5. Min(text) = first
    BY <2>1, <2>3, Zenon DEF Min
  <2>6. Max(text) = last
    BY <2>2, <2>4, Zenon DEF Max
  <2> QED
    BY <2>5, <2>6
<1>8. Trim(w) = SubSeq(w, first, last)
  <2>1. text # {}
    BY <1>4
  <2>2. Trim(w) = IF text = {} THEN <<>> ELSE SubSeq(w, Min(text), Max(text))
    BY Zenon DEF Trim, text
  <2> QED
    BY <1>7, <2>1, <2>2
<1>9. SubSeq(w, first, last) = SubSeq(p, a + first - 1, a + last - 1)
  <2>1. first \in 1 .. b - a + 2 /\ last \in first - 1 .. b - a + 1
    BY <1>3
  <2> HIDE DEF first, last
  <2> QED
    BY <2>1, WindowInWindow DEF w
<1>10. a + first - 1 = c /\ a + last - 1 = d
  OBVIOUS
<1> QED
  BY <1>8, <1>9, <1>10 DEF w

LEMMA TrimBlank ==
    ASSUME NEW p \in Seq(STRING), NEW a \in 1 .. Len(p) + 1, NEW b \in a - 1 .. Len(p),
           Blanks(p, a, b)
    PROVE  Trim(SubSeq(p, a, b)) = <<>>
<1> DEFINE w == SubSeq(p, a, b)
<1>1. w \in Seq(STRING) /\ Len(w) = b - a + 1 /\ \A i \in 1 .. b - a + 1 : w[i] = p[a + i - 1]
  BY WindowIs
<1> HIDE DEF w
<1>0. /\ Len(p) \in Nat /\ a \in Int /\ b \in Int /\ 1 <= a /\ a <= b + 1 /\ b <= Len(p)
      /\ a \in Nat /\ b \in Nat
  BY WindowAt
<1>2. \A i \in DOMAIN w : w[i] = Blank
  <2> SUFFICES ASSUME NEW i \in DOMAIN w
               PROVE  w[i] = Blank
    OBVIOUS
  <2>1. i \in 1 .. b - a + 1
    BY <1>1
  <2>2. a + i - 1 \in a .. b
    BY <1>0, <2>1
  <2> QED
    BY <1>1, <2>1, <2>2 DEF Blanks
<1>3. {i \in DOMAIN w : w[i] # Blank} = {}
  BY <1>2
<1> QED
  BY <1>3 DEF Trim, w

LEMMA TextExists ==
    ASSUME NEW p \in Seq(STRING), NEW a \in 1 .. Len(p) + 1, NEW b \in a - 1 .. Len(p),
           NEW i \in a .. b, p[i] # Blank
    PROVE  \E c, d \in a .. b : Trimmed(p, a, b, c, d)
<1> DEFINE text == {j \in a .. b : p[j] # Blank}
<1>0. /\ Len(p) \in Nat /\ a \in Int /\ b \in Int /\ 1 <= a /\ a <= b + 1 /\ b <= Len(p)
      /\ a \in Nat /\ b \in Nat
  BY WindowAt
<1>1. text \subseteq Nat /\ text \subseteq 0 .. b /\ b \in Nat /\ i \in text
  <2>1. a .. b \subseteq Nat /\ a .. b \subseteq 0 .. b
    BY <1>0
  <2>2. text \subseteq a .. b
    OBVIOUS
  <2> QED
    BY <1>0, <2>1, <2>2
<1>2. \A j \in text : j \in a .. b /\ p[j] # Blank
  OBVIOUS
<1>3. \A j \in a .. b : j \notin text => p[j] = Blank
  OBVIOUS
<1> HIDE DEF text
<1>4. PICK c \in text : \A j \in text : c <= j
  BY <1>1, LeastExists
<1>5. PICK d \in text : \A j \in text : j <= d
  BY <1>1, GreatestExists
<1>6. Trimmed(p, a, b, c, d)
  <2>1. c \in a .. b /\ d \in a .. b /\ c <= d /\ p[c] # Blank /\ p[d] # Blank
    BY <1>0, <1>2, <1>4, <1>5
  <2>2. \A j \in a .. c - 1 : j \notin text /\ j \in a .. b
    BY <1>0, <1>4, <2>1
  <2>3. \A j \in d + 1 .. b : j \notin text /\ j \in a .. b
    BY <1>0, <1>5, <2>1
  <2> QED
    BY <1>3, <2>1, <2>2, <2>3 DEF Trimmed, Blanks
<1> QED
  BY <1>2, <1>4, <1>5, <1>6

-----------------------------------------------------------------------------
(* Types, sizes and numbers in a line.                                         *)

LEMMA TypesAre ==
    DOMAIN Types = {"regina", "margarita", "americana", "fantasia"}
    /\ \A t \in DOMAIN Types : Types[t] \in DOMAIN Recipe
<1>1. DOMAIN Recipe = {"Margarita", "Regina", "Americana", "Fantasia"}
  BY Zenon DEF Recipe
<1>2. DOMAIN Types = {"regina", "margarita", "americana", "fantasia"}
  BY DEF Types
<1>3. /\ Types["regina"] = "Regina" /\ Types["margarita"] = "Margarita"
      /\ Types["americana"] = "Americana" /\ Types["fantasia"] = "Fantasia"
  BY DEF Types
<1> QED
  BY <1>1, <1>2, <1>3

LEMMA SmallIs ==
    /\ DOMAIN Small = {"S", "M", "L", "X", "REGINA"}
    /\ Small["S"] = "s" /\ Small["M"] = "m" /\ Small["L"] = "l" /\ Small["X"] = "x"
    /\ Small["REGINA"] = "regina"
BY DEF Small

LEMMA LowerIs ==
    ASSUME NEW c
    PROVE  /\ Lower(c) \in Digit <=> c \in Digit
           /\ c \in Digit => Lower(c) = c
           /\ Lower(c) = "0" <=> c = "0"
           /\ Lower(c) \in DOMAIN Types => c \in Letter
           /\ Lower(c) \in DOMAIN Types \cup {"s", "m", "l", "x"} => c # Blank
           /\ Lower(Lower(c)) = Lower(c)
<1>1. /\ Lower("S") = "s" /\ Lower("M") = "m" /\ Lower("L") = "l" /\ Lower("X") = "x"
      /\ Lower("REGINA") = "regina"
      /\ \A s : s \notin {"S", "M", "L", "X", "REGINA"} => Lower(s) = s
  BY SmallIs DEF Lower
<1>2. {"S", "M", "L", "X", "REGINA", "s", "m", "l", "x", "regina"} \cap Digit = {}
  BY DigitIs
<1>3. \A s \in {"s", "m", "l", "x", "regina"} : Lower(s) = s
  BY <1>1
<1>4. Lower(Blank) = Blank
  <2>1. Blank \notin {"S", "M", "L", "X", "REGINA"}
    BY Zenon DEF Blank
  <2> QED
    BY <1>1, <2>1
<1>5. Blank \notin {"regina", "margarita", "americana", "fantasia", "s", "m", "l", "x"}
  BY Zenon DEF Blank
<1>6. /\ DOMAIN Types \cup {"S", "M", "L", "X", "REGINA"} \subseteq Letter
      /\ {"s", "m", "l", "x"} \cap DOMAIN Types = {}
  BY TypesAre, SmallIs DEF Letter
<1>7. Lower(c) \in Digit <=> c \in Digit
  BY <1>1, <1>2
<1>8. c \in Digit => Lower(c) = c
  BY <1>1, <1>2
<1>9. Lower(c) = "0" <=> c = "0"
  BY <1>1
<1>10. Lower(c) \in DOMAIN Types => c \in Letter
  BY <1>1, <1>6
<1>11. Lower(c) \in DOMAIN Types \cup {"s", "m", "l", "x"} => c # Blank
  BY <1>4, <1>5, TypesAre
<1>12. Lower(Lower(c)) = Lower(c)
  BY <1>1, <1>3
<1> QED
  BY <1>7, <1>8, <1>9, <1>10, <1>11, <1>12

LEMMA SizesAre ==
    ASSUME NEW z \in DOMAIN Spelling
    PROVE  /\ Spelling[z] \in Seq({"s", "m", "l", "x"})
           /\ Len(Spelling[z]) \in 1 .. 3 /\ DOMAIN Spelling[z] = 1 .. Len(Spelling[z])
           /\ \A k \in 1 .. Len(Spelling[z]) : Spelling[z][k] \in {"s", "m", "l", "x"}
<1>1. z \in {"S", "M", "L", "XL", "XXL"}
  BY DEF Spelling
<1>2. /\ Spelling["S"] = <<"s">> /\ Spelling["M"] = <<"m">> /\ Spelling["L"] = <<"l">>
      /\ Spelling["XL"] = <<"x", "l">> /\ Spelling["XXL"] = <<"x", "x", "l">>
  BY DEF Spelling
<1>3. Spelling[z] \in Seq({"s", "m", "l", "x"})
  <2>1. /\ <<"s">> \in Seq({"s", "m", "l", "x"}) /\ <<"m">> \in Seq({"s", "m", "l", "x"})
        /\ <<"l">> \in Seq({"s", "m", "l", "x"})
    OBVIOUS
  <2>2. <<"x", "l">> \in Seq({"s", "m", "l", "x"})
    OBVIOUS
  <2>3. <<"x", "x", "l">> \in Seq({"s", "m", "l", "x"})
    OBVIOUS
  <2> QED
    BY <1>1, <1>2, <2>1, <2>2, <2>3
<1>4. Len(Spelling[z]) \in 1 .. 3
  BY <1>1, <1>2
<1> QED
  BY <1>3, <1>4

\* No size begins with another one.
LEMMA SizesDiffer ==
    ASSUME NEW z \in DOMAIN Spelling, NEW y \in DOMAIN Spelling,
           \A k \in 1 .. 3 : /\ k <= Len(Spelling[z]) /\ k <= Len(Spelling[y])
                           => Spelling[z][k] = Spelling[y][k]
    PROVE  z = y
<1>1. z \in {"S", "M", "L", "XL", "XXL"} /\ y \in {"S", "M", "L", "XL", "XXL"}
  BY DEF Spelling
<1>2. /\ Spelling["S"] = <<"s">> /\ Spelling["M"] = <<"m">> /\ Spelling["L"] = <<"l">>
      /\ Spelling["XL"] = <<"x", "l">> /\ Spelling["XXL"] = <<"x", "x", "l">>
  BY DEF Spelling
<1>3. Len(Spelling[z]) >= 1 /\ Len(Spelling[y]) >= 1
  <2>1. Len(Spelling[z]) \in 1 .. 3 /\ Len(Spelling[y]) \in 1 .. 3
    BY SizesAre, Zenon
  <2>2. \A m \in 1 .. 3 : m >= 1
    OBVIOUS
  <2> QED
    BY <2>1, <2>2, Zenon
<1>4. Spelling[z][1] = Spelling[y][1]
  BY <1>3
<1>5. /\ Spelling["S"][1] = "s" /\ Spelling["M"][1] = "m" /\ Spelling["L"][1] = "l"
      /\ Spelling["XL"][1] = "x" /\ Spelling["XXL"][1] = "x"
  BY <1>2
<1>6. z = y \/ (z \in {"XL", "XXL"} /\ y \in {"XL", "XXL"})
  BY <1>1, <1>4, <1>5
<1>7. CASE z \in {"XL", "XXL"} /\ y \in {"XL", "XXL"}
  <2>1. /\ Len(Spelling["XL"]) = 2 /\ Len(Spelling["XXL"]) = 3
        /\ Spelling["XL"][2] = "l" /\ Spelling["XXL"][2] = "x"
    BY <1>2
  <2>2. Spelling[z][2] = Spelling[y][2]
    BY <1>7, <2>1
  <2> QED
    BY <1>7, <2>1, <2>2
<1> QED
  BY <1>6, <1>7

\* The size z stands in p from position c on.
Spelled(p, c, z) == \A k \in 1 .. Len(Spelling[z]) : Lower(p[c + k - 1]) = Spelling[z][k]

LEMMA SpelledIs ==
    ASSUME NEW p \in Seq(STRING), NEW a \in 1 .. Len(p) + 1, NEW b \in a - 1 .. Len(p),
           NEW z \in DOMAIN Spelling
    PROVE  InLower(SubSeq(p, a, b)) = Spelling[z]
               <=> b = a + Len(Spelling[z]) - 1 /\ Spelled(p, a, z)
<1> DEFINE w == SubSeq(p, a, b)
           y == Spelling[z]
           n == b - a + 1
<1>0. /\ Len(p) \in Nat /\ a \in Int /\ b \in Int /\ 1 <= a /\ a <= b + 1 /\ b <= Len(p)
      /\ a \in Nat /\ b \in Nat
  BY WindowAt
<1>1. w \in Seq(STRING) /\ Len(w) = n /\ \A i \in 1 .. n : w[i] = p[a + i - 1]
  BY WindowIs
<1>2. DOMAIN w = 1 .. n /\ n \in Nat
  BY <1>0, <1>1
<1>3. Len(y) \in 1 .. 3 /\ DOMAIN y = 1 .. Len(y)
  BY SizesAre
<1>4. InLower(w) = [i \in 1 .. n |-> Lower(p[a + i - 1])]
  BY <1>1, <1>2 DEF InLower
<1>5. y = [i \in 1 .. Len(y) |-> y[i]]
  <2>1. y \in Seq({"s", "m", "l", "x"})
    BY SizesAre
  <2> HIDE DEF y
  <2> QED
    BY <2>1
<1> HIDE DEF w, y, n
<1>6. ASSUME InLower(w) = y
      PROVE  Len(y) = n /\ \A k \in 1 .. Len(y) : Lower(p[a + k - 1]) = y[k]
  <2>1. DOMAIN InLower(w) = 1 .. n
    BY <1>4
  <2>2. 1 .. n = 1 .. Len(y)
    BY <1>3, <1>6, <2>1
  <2>3. n = Len(y)
    <3> DEFINE m == Len(y)
    <3>1. m \in Int /\ 1 <= m /\ 1 .. n = 1 .. m
      BY <1>3, <2>2
    <3> HIDE DEF m
    <3>2. n = m
      BY <1>2, <3>1
    <3> QED
      BY <3>2 DEF m
  <2> QED
    BY <1>4, <1>6, <2>3
<1>7. ASSUME Len(y) = n, \A k \in 1 .. Len(y) : Lower(p[a + k - 1]) = y[k]
      PROVE  InLower(w) = y
  BY <1>4, <1>5, <1>7
<1>8. b = a + Len(y) - 1 <=> Len(y) = n
  BY <1>0, <1>3 DEF n
<1> QED
  BY <1>6, <1>7, <1>8 DEF Spelled, w, y

\* Between e and f stands a number in p: an x, and digits that begin with no 0.
NumberAt(p, e, f) ==
    /\ e < f
    /\ Lower(p[e]) = "x" /\ p[e + 1] # "0"
    /\ \A i \in e + 1 .. f : p[i] \in Digit

LEMMA NumberIs ==
    ASSUME NEW p \in Seq(STRING), NEW a \in 1 .. Len(p) + 1, NEW b \in a - 1 .. Len(p)
    PROVE  /\ IsNumber(SubSeq(p, a, b)) <=> NumberAt(p, a, b)
           /\ IsNumber(InLower(SubSeq(p, a, b))) <=> NumberAt(p, a, b)
           /\ NumberAt(p, a, b) =>
                /\ After(SubSeq(p, a, b), 1) = SubSeq(p, a + 1, b)
                /\ Tail(InLower(SubSeq(p, a, b))) = SubSeq(p, a + 1, b)
<1> DEFINE w == SubSeq(p, a, b)
           n == b - a + 1
           u == InLower(w)
           rest == SubSeq(p, a + 1, b)
<1>0. /\ Len(p) \in Nat /\ a \in Int /\ b \in Int /\ 1 <= a /\ a <= b + 1 /\ b <= Len(p)
      /\ a \in Nat /\ b \in Nat
  BY WindowAt
<1>1. w \in Seq(STRING) /\ Len(w) = n /\ \A i \in 1 .. n : w[i] = p[a + i - 1]
  BY WindowIs
<1>2. DOMAIN w = 1 .. n /\ n \in Nat
  BY <1>0, <1>1
<1>3. u = [i \in 1 .. n |-> Lower(p[a + i - 1])]
  BY <1>1, <1>2 DEF InLower
<1>4. \A i \in 1 .. n : w[i] \in STRING
  BY <1>1
<1>5. \A i \in 1 .. n : a + i - 1 \in 1 .. Len(p)
  BY <1>0
<1>6. Len(u) = n /\ DOMAIN u = 1 .. n
  <2> HIDE DEF n, u
  <2> QED
    BY <1>2, <1>3
<1>7. NumberAt(p, a, b) <=>
          /\ n >= 2 /\ Lower(p[a]) = "x" /\ p[a + 1] # "0"
          /\ \A i \in 2 .. n : p[a + i - 1] \in Digit
  <2>1. a < b <=> n >= 2
    BY <1>0
  <2>2. \A i \in 2 .. n : a + i - 1 \in a + 1 .. b
    BY <1>0
  <2>3. \A i \in a + 1 .. b : i - a + 1 \in 2 .. n /\ a + (i - a + 1) - 1 = i
    BY <1>0
  <2>4. (\A i \in 2 .. n : p[a + i - 1] \in Digit) <=> \A i \in a + 1 .. b : p[i] \in Digit
    <3> HIDE DEF n
    <3> QED
      BY <2>2, <2>3
  <2> QED
    BY <2>1, <2>4 DEF NumberAt
<1>8. n >= 2 => /\ w[1] = p[a] /\ w[2] = p[a + 1]
                /\ u[1] = Lower(p[a]) /\ u[2] = Lower(p[a + 1])
                /\ \A i \in 2 .. n : w[i] = p[a + i - 1] /\ u[i] = Lower(p[a + i - 1])
  <2>1. a + 1 - 1 = a /\ a + 2 - 1 = a + 1
    BY <1>0
  <2>2. \A i \in 2 .. n : i \in 1 .. n
    OBVIOUS
  <2>3. n >= 2 => 1 \in 1 .. n /\ 2 \in 1 .. n
    BY <1>2
  <2> HIDE DEF n, w, u
  <2> QED
    BY <1>1, <1>3, <2>1, <2>2, <2>3
<1> HIDE DEF n, w, u
<1>9. IsNumber(w) <=> NumberAt(p, a, b)
  BY <1>1, <1>7, <1>8 DEF IsNumber
<1>10. IsNumber(u) <=> NumberAt(p, a, b)
  <2>1. \A c : /\ Lower(c) \in Digit <=> c \in Digit
               /\ Lower(c) = "0" <=> c = "0"
               /\ Lower(Lower(c)) = Lower(c)
    BY LowerIs
  <2> QED
    BY <1>6, <1>7, <1>8, <2>1 DEF IsNumber
<1>11. ASSUME NumberAt(p, a, b)
       PROVE  After(w, 1) = rest
  <2>1. n >= 2 /\ n = b - a + 1
    BY <1>7, <1>11 DEF n
  <2>2. SubSeq(w, 2, n) = SubSeq(p, a + 2 - 1, a + n - 1)
    <3>1. 2 \in 1 .. b - a + 2 /\ n \in 2 - 1 .. b - a + 1
      BY <1>0, <2>1
    <3> QED
      BY <3>1, WindowInWindow DEF w
  <2>3. a + 2 - 1 = a + 1 /\ a + n - 1 = b
    BY <1>0, <2>1
  <2>4. After(w, 1) = SubSeq(w, 2, n)
    <3>1. 1 + 1 = 2
      OBVIOUS
    <3> QED
      BY <1>1, <3>1, Zenon DEF After
  <2>5. SubSeq(p, a + 2 - 1, a + n - 1) = rest
    BY <2>3, Zenon
  <2> QED
    BY <2>2, <2>4, <2>5, Zenon
<1>12. ASSUME NumberAt(p, a, b)
       PROVE  Tail(u) = rest
  <2>1. n >= 2 /\ \A i \in 2 .. n : p[a + i - 1] \in Digit
    BY <1>7, <1>11, <1>12
  <2>2. \A i \in 2 .. n : u[i] = p[a + i - 1]
    <3>1. \A c : c \in Digit => Lower(c) = c
      BY LowerIs
    <3> QED
      BY <1>8, <2>1, <3>1
  <2>3. \A i \in 1 .. n - 1 : i + 1 \in 2 .. n /\ a + (i + 1) - 1 = a + 1 + i - 1
    BY <1>0, <1>2
  <2>4. Tail(u) = [i \in 1 .. n - 1 |-> u[i + 1]]
    <3> DEFINE S == {u[i] : i \in 1 .. n}
    <3>1. u \in Seq(S)
      <4>1. \A i \in 1 .. n : u[i] \in S
        OBVIOUS
      <4>2. u = [i \in 1 .. n |-> u[i]]
        BY <1>3
      <4> HIDE DEF S
      <4>3. u \in [1 .. n -> S]
        BY <4>1, <4>2
      <4> QED
        BY <1>2, <4>3
    <3>2. u # <<>>
      BY <1>6, <2>1
    <3> HIDE DEF S
    <3>3. /\ Tail(u) \in Seq(S) /\ Len(Tail(u)) = n - 1
          /\ \A i \in 1 .. n - 1 : Tail(u)[i] = u[i + 1]
      BY <1>6, <3>1, <3>2, HeadTailProperties
    <3> DEFINE v == Tail(u)
    <3>4. v \in Seq(S) /\ Len(v) = n - 1 /\ \A i \in 1 .. n - 1 : v[i] = u[i + 1]
      BY <3>3
    <3> HIDE DEF v
    <3>5. v = [i \in 1 .. n - 1 |-> v[i]]
      BY <3>4
    <3>6. v = [i \in 1 .. n - 1 |-> u[i + 1]]
      BY <3>4, <3>5
    <3> QED
      BY <3>6 DEF v
  <2>5. Tail(u) = [i \in 1 .. n - 1 |-> p[a + 1 + i - 1]]
    BY <2>2, <2>3, <2>4
  <2>6. rest = [i \in 1 .. n - 1 |-> p[a + 1 + i - 1]]
    <3>1. b - (a + 1) + 1 = n - 1
      BY <1>0 DEF n
    <3>2. a + 1 \in 1 .. Len(p) + 1 /\ b \in (a + 1) - 1 .. Len(p)
      BY <1>0, <2>1 DEF n
    <3>3. /\ rest \in Seq(STRING) /\ Len(rest) = n - 1
          /\ \A i \in 1 .. n - 1 : rest[i] = p[a + 1 + i - 1]
      BY <3>1, <3>2, WindowIs
    <3> HIDE DEF rest
    <3> QED
      BY <3>3
  <2> QED
    BY <2>5, <2>6
<1> QED
  BY <1>9, <1>10, <1>11, <1>12 DEF w, u

-----------------------------------------------------------------------------
(* The one way to read a piece of a line.                                      *)

\* p is a type at a, a size from c on, a number from e to f, and blanks.
Reads(p, t, z, a, c, e, f) ==
    /\ 1 <= a /\ a < c /\ c + Len(Spelling[z]) <= e /\ f <= Len(p)
    /\ Blanks(p, 1, a - 1) /\ Lower(p[a]) = t
    /\ Blanks(p, a + 1, c - 1) /\ Spelled(p, c, z)
    /\ Blanks(p, c + Len(Spelling[z]), e - 1) /\ NumberAt(p, e, f)
    /\ Blanks(p, f + 1, Len(p))

OrderOf(p, t, z, e, f) ==
    [type |-> Types[t], size |-> z, quantity |-> Value(SubSeq(p, e + 1, f))]

\* The first symbol, and the last, that is no blank.
LEMMA FirstIs ==
    ASSUME NEW p, NEW x \in Int, NEW a \in Int, NEW b \in Int, x <= a, x <= b,
           Blanks(p, x, a - 1), Blanks(p, x, b - 1), p[a] # Blank, p[b] # Blank
    PROVE  a = b
<1>1. ~(b \in x .. a - 1) /\ ~(a \in x .. b - 1)
  BY DEF Blanks
<1> QED
  BY <1>1

LEMMA LastIs ==
    ASSUME NEW p, NEW x \in Int, NEW a \in Int, NEW b \in Int, a <= x, b <= x,
           Blanks(p, a + 1, x), Blanks(p, b + 1, x), p[a] # Blank, p[b] # Blank
    PROVE  a = b
<1>1. ~(b \in a + 1 .. x) /\ ~(a \in b + 1 .. x)
  BY DEF Blanks
<1> QED
  BY <1>1

LEMMA ReadsText ==
    ASSUME NEW p \in Seq(STRING), NEW t \in DOMAIN Types, NEW z \in DOMAIN Spelling,
           NEW a \in Int, NEW c \in Int, NEW e \in Int, NEW f \in Int,
           Reads(p, t, z, a, c, e, f)
    PROVE  /\ 1 <= a /\ a < c /\ c + Len(Spelling[z]) <= e /\ e < f /\ f <= Len(p)
           /\ p[a] # Blank /\ p[c] # Blank /\ p[c + Len(Spelling[z]) - 1] # Blank
           /\ p[e] # Blank /\ p[f] # Blank
<1> DEFINE m == Len(Spelling[z])
<1>1. m \in 1 .. 3 /\ \A k \in 1 .. m : Spelling[z][k] \in {"s", "m", "l", "x"}
  BY SizesAre
<1> HIDE DEF m
<1>2. m \in Int /\ 1 <= m /\ 1 \in 1 .. m /\ m \in 1 .. m /\ c + 1 - 1 = c
  BY <1>1
<1>3. 1 <= a /\ a < c /\ c + m <= e /\ e < f /\ f <= Len(p)
  BY DEF Reads, NumberAt, m
<1>4. \A s : Lower(s) \in DOMAIN Types \cup {"s", "m", "l", "x"} => s # Blank
  BY LowerIs
<1>5. Lower(p[a]) = t /\ Lower(p[e]) = "x"
  BY DEF Reads, NumberAt
<1>6. \A k \in 1 .. m : Lower(p[c + k - 1]) = Spelling[z][k]
  BY DEF Reads, Spelled, m
<1>7. Lower(p[c]) \in {"s", "m", "l", "x"} /\ Lower(p[c + m - 1]) \in {"s", "m", "l", "x"}
  <2>1. Lower(p[c + 1 - 1]) \in {"s", "m", "l", "x"}
    BY <1>1, <1>2, <1>6
  <2> QED
    BY <1>1, <1>2, <1>6, <2>1
<1>8. p[f] \in Digit
  <2>1. f \in e + 1 .. f
    BY <1>3
  <2> QED
    BY <2>1 DEF Reads, NumberAt
<1>9. p[f] # Blank
  BY <1>8, DigitIs
<1>10. p[a] # Blank /\ p[e] # Blank /\ p[c] # Blank /\ p[c + m - 1] # Blank
  BY <1>4, <1>5, <1>7
<1> QED
  BY <1>3, <1>9, <1>10 DEF m

LEMMA ReadsOnce ==
    ASSUME NEW p \in Seq(STRING),
           NEW t \in DOMAIN Types, NEW z \in DOMAIN Spelling,
           NEW a \in Int, NEW c \in Int, NEW e \in Int, NEW f \in Int,
           Reads(p, t, z, a, c, e, f),
           NEW u \in DOMAIN Types, NEW y \in DOMAIN Spelling,
           NEW b \in Int, NEW d \in Int, NEW g \in Int, NEW h \in Int,
           Reads(p, u, y, b, d, g, h)
    PROVE  t = u /\ z = y /\ e = g /\ f = h
<1> DEFINE m == Len(Spelling[z])
           n == Len(Spelling[y])
<1>1. m \in Nat /\ n \in Nat /\ 1 <= m /\ 1 <= n /\ m <= 3 /\ n <= 3 /\ Len(p) \in Nat
  <2>1. m \in 1 .. 3 /\ n \in 1 .. 3
    BY SizesAre, Zenon
  <2>2. \A k \in 1 .. 3 : k \in Nat /\ 1 <= k /\ k <= 3
    OBVIOUS
  <2>3. Len(p) \in Nat
    OBVIOUS
  <2> QED
    BY <2>1, <2>2, <2>3, Zenon
<1>2. /\ 1 <= a /\ a < c /\ c + m <= e /\ e < f /\ f <= Len(p)
      /\ p[a] # Blank /\ p[c] # Blank /\ p[e] # Blank /\ p[f] # Blank
  BY ReadsText
<1>3. /\ 1 <= b /\ b < d /\ d + n <= g /\ g < h /\ h <= Len(p)
      /\ p[b] # Blank /\ p[d] # Blank /\ p[g] # Blank /\ p[h] # Blank
  BY ReadsText
<1>4. /\ Blanks(p, 1, a - 1) /\ Lower(p[a]) = t
      /\ Blanks(p, a + 1, c - 1) /\ \A k \in 1 .. m : Lower(p[c + k - 1]) = Spelling[z][k]
      /\ Blanks(p, c + m, e - 1) /\ Blanks(p, f + 1, Len(p))
  BY DEF Reads, Spelled
<1>5. /\ Blanks(p, 1, b - 1) /\ Lower(p[b]) = u
      /\ Blanks(p, b + 1, d - 1) /\ \A k \in 1 .. n : Lower(p[d + k - 1]) = Spelling[y][k]
      /\ Blanks(p, d + n, g - 1) /\ Blanks(p, h + 1, Len(p))
  BY DEF Reads, Spelled
<1> HIDE DEF m, n
<1>6. a = b
  <2>1. /\ 1 \in Int /\ 1 <= a /\ 1 <= b /\ p[a] # Blank /\ p[b] # Blank
        /\ Blanks(p, 1, a - 1) /\ Blanks(p, 1, b - 1)
    BY <1>2, <1>3, <1>4, <1>5
  <2> QED
    BY <2>1, FirstIs
<1>7. c = d
  <2>1. a + 1 \in Int /\ a + 1 <= c /\ a + 1 <= d
    BY <1>2, <1>3, <1>6
  <2>2. /\ p[c] # Blank /\ p[d] # Blank
        /\ Blanks(p, a + 1, c - 1) /\ Blanks(p, a + 1, d - 1)
    BY <1>2, <1>3, <1>4, <1>5, <1>6, Zenon
  <2> QED
    BY <2>1, <2>2, FirstIs
<1>8. z = y
  <2>1. ASSUME NEW k \in 1 .. 3, k <= m, k <= n
        PROVE  Spelling[z][k] = Spelling[y][k]
    <3>1. k \in 1 .. m /\ k \in 1 .. n
      BY <1>1, <2>1
    <3> QED
      BY <1>4, <1>5, <1>7, <3>1
  <2> QED
    BY <2>1, SizesDiffer DEF m, n
<1>9. e = g
  <2>1. m = n
    BY <1>8 DEF m, n
  <2>2. c + m \in Int /\ c + m <= e /\ c + m <= g
    BY <1>1, <1>2, <1>3, <1>7, <2>1
  <2>3. /\ p[e] # Blank /\ p[g] # Blank
        /\ Blanks(p, c + m, e - 1) /\ Blanks(p, c + m, g - 1)
    BY <1>2, <1>3, <1>4, <1>5, <1>7, <2>1, Zenon
  <2>4. c + m <= e /\ c + m <= g /\ c + m \in Int
    BY <2>2
  <2> QED
    BY <2>3, <2>4, FirstIs
<1>10. f = h
  <2>1. Len(p) \in Int /\ f <= Len(p) /\ h <= Len(p)
    BY <1>1, <1>2, <1>3
  <2>2. /\ p[f] # Blank /\ p[h] # Blank
        /\ Blanks(p, f + 1, Len(p)) /\ Blanks(p, h + 1, Len(p))
    BY <1>2, <1>3, <1>4, <1>5, Zenon
  <2> QED
    BY <2>1, <2>2, LastIs
<1> QED
  BY <1>4, <1>5, <1>6, <1>8, <1>9, <1>10

LEMMA WordIs ==
    ASSUME NEW p \in Seq(STRING), NEW a \in 1 .. Len(p) + 1, NEW b \in a - 1 .. Len(p), NEW t
    PROVE  InLower(SubSeq(p, a, b)) = <<t>> <=> b = a /\ Lower(p[a]) = t
<1> DEFINE w == SubSeq(p, a, b)
           n == b - a + 1
<1>0. /\ Len(p) \in Nat /\ a \in Int /\ b \in Int /\ 1 <= a /\ a <= b + 1 /\ b <= Len(p)
      /\ a \in Nat /\ b \in Nat
  BY WindowAt
<1>1. w \in Seq(STRING) /\ Len(w) = n /\ \A i \in 1 .. n : w[i] = p[a + i - 1]
  BY WindowIs
<1>2. DOMAIN w = 1 .. n /\ n \in Nat /\ (n = 1 <=> b = a) /\ a + 1 - 1 = a
  BY <1>0, <1>1
<1> HIDE DEF w, n
<1>3. InLower(w) = [i \in 1 .. n |-> Lower(p[a + i - 1])]
  BY <1>1, <1>2 DEF InLower
<1>4. Len(InLower(w)) = n
  BY <1>2, <1>3
<1>5. Len(<<t>>) = 1 /\ <<t>>[1] = t
  OBVIOUS
<1>6. ASSUME InLower(w) = <<t>>
      PROVE  n = 1 /\ Lower(p[a]) = t
  <2>1. n = 1
    BY <1>4, <1>5, <1>6
  <2>2. InLower(w)[1] = Lower(p[a + 1 - 1])
    BY <1>3, <2>1
  <2> QED
    BY <1>2, <1>5, <1>6, <2>1, <2>2
<1>7. ASSUME n = 1, Lower(p[a]) = t
      PROVE  InLower(w) = <<t>>
  <2>1. \A i \in 1 .. 1 : a + i - 1 = a
    BY <1>0
  <2>2. InLower(w) = [i \in 1 .. 1 |-> t]
    BY <1>3, <1>7, <2>1
  <2> QED
    BY <2>2
<1> QED
  BY <1>2, <1>6, <1>7 DEF w

\* What Trim leaves of a window, if it leaves anything.
LEMMA TextOf ==
    ASSUME NEW p \in Seq(STRING), NEW a \in 1 .. Len(p) + 1, NEW b \in a - 1 .. Len(p),
           Trim(SubSeq(p, a, b)) # <<>>
    PROVE  \E c, d \in a .. b : /\ Trimmed(p, a, b, c, d)
                                /\ Trim(SubSeq(p, a, b)) = SubSeq(p, c, d)
<1>0. a \in Int /\ b \in Int
  BY WindowAt
<1>1. ~Blanks(p, a, b)
  BY TrimBlank
<1>2. PICK i \in a .. b : p[i] # Blank
  BY <1>1 DEF Blanks
<1>3. PICK c \in a .. b, d \in a .. b : Trimmed(p, a, b, c, d)
  BY <1>2, TextExists
<1>4. c \in Int /\ d \in Int
  BY <1>0
<1>5. Trim(SubSeq(p, a, b)) = SubSeq(p, c, d)
  BY <1>3, <1>4, TrimIs
<1> QED
  BY <1>3, <1>5

LEMMA InLowerEmpty == InLower(<<>>) = <<>>
BY DEF InLower

\* o is what p reads as.
HasReading(p, o) ==
    \E t \in DOMAIN Types, z \in DOMAIN Spelling, a, c, e, f \in 1 .. Len(p) :
        Reads(p, t, z, a, c, e, f) /\ o = OrderOf(p, t, z, e, f)

\* What a piece can mean, in positions.
Means(p, o, i, j, t, z) ==
    /\ InLower(Trim(Upto(p, i))) = <<t>>
    /\ InLower(Trim(SubSeq(p, i + 1, j))) = Spelling[z]
    /\ IsNumber(InLower(Trim(After(p, j))))
    /\ o = [type |-> Types[t], size |-> z,
            quantity |-> Value(Tail(InLower(Trim(After(p, j)))))]

LEMMA MeaningsUnfolded ==
    ASSUME NEW p, NEW o
    PROVE  o \in Meanings(p) <=>
               \E i, j \in 0 .. Len(p), t \in DOMAIN Types, z \in DOMAIN Spelling :
                   Means(p, o, i, j, t, z)
<1> DEFINE type(i) == InLower(Trim(Upto(p, i)))
           size(i, j) == InLower(Trim(SubSeq(p, i + 1, j)))
           number(j) == InLower(Trim(After(p, j)))
           Read(i, j, t, z) ==
               [type |-> Types[t], size |-> z, quantity |-> Value(Tail(number(j)))]
           A(i, j) == {t \in DOMAIN Types : type(i) = <<t>> /\ IsNumber(number(j))}
           B(i, j) == {z \in DOMAIN Spelling : size(i, j) = Spelling[z]}
           Meant(i, j) == {Read(i, j, t, z) : t \in A(i, j), z \in B(i, j)}
<1>1. Meanings(p) = UNION {Meant(i, j) : i, j \in 0 .. Len(p)}
  BY DEF Meanings
<1>2. ASSUME NEW i, NEW j
      PROVE  o \in Meant(i, j) <=>
                 \E t \in DOMAIN Types, z \in DOMAIN Spelling : Means(p, o, i, j, t, z)
  <2>1. o \in Meant(i, j) <=> \E t \in A(i, j), z \in B(i, j) : o = Read(i, j, t, z)
    <3> HIDE DEF A, B, Read
    <3> QED
      OBVIOUS
  <2>2. \A t : t \in A(i, j) <=> t \in DOMAIN Types /\ type(i) = <<t>> /\ IsNumber(number(j))
    OBVIOUS
  <2>3. \A z : z \in B(i, j) <=> z \in DOMAIN Spelling /\ size(i, j) = Spelling[z]
    OBVIOUS
  <2>4. \A t, z : Means(p, o, i, j, t, z) <=>
            /\ type(i) = <<t>> /\ size(i, j) = Spelling[z]
            /\ IsNumber(number(j)) /\ o = Read(i, j, t, z)
    BY DEF Means
  <2> HIDE DEF A, B, Meant, Read, type, size, number
  <2> QED
    BY <2>1, <2>2, <2>3, <2>4
<1>3. o \in UNION {Meant(i, j) : i, j \in 0 .. Len(p)} <=>
          \E i, j \in 0 .. Len(p) : o \in Meant(i, j)
  <2> HIDE DEF Meant
  <2> QED
    OBVIOUS
<1> HIDE DEF Meant
<1> QED
  BY <1>1, <1>2, <1>3

LEMMA MeansReads ==
    ASSUME NEW p \in Seq(STRING), NEW o, NEW i \in 0 .. Len(p), NEW j \in 0 .. Len(p),
           NEW t \in DOMAIN Types, NEW z \in DOMAIN Spelling, Means(p, o, i, j, t, z)
    PROVE  HasReading(p, o)
<1> DEFINE m == Len(Spelling[z])
           n == Len(p)
<1>0. n \in Nat /\ i \in Int /\ j \in Int /\ 0 <= i /\ i <= n /\ 0 <= j /\ j <= n
  OBVIOUS
<1>1. m \in Nat /\ 1 <= m /\ Spelling[z] # <<>>
  <2>1. m \in 1 .. 3
    BY SizesAre
  <2>2. m \in Nat /\ 1 <= m
    <3> HIDE DEF m
    <3> QED
      BY <2>1
  <2>3. ASSUME Spelling[z] = <<>>
        PROVE  m = 0
    BY <2>3
  <2> QED
    BY <2>2, <2>3
<1> HIDE DEF m, n
<1>2. i <= j
  <2>1. SUFFICES ASSUME ~(i <= j) PROVE FALSE
    OBVIOUS
  <2>2. SubSeq(p, i + 1, j) = <<>> /\ SubSeq(p, 1, 0) = <<>>
    BY <1>0, <2>1, SubSeqEmpty
  <2>3. Trim(SubSeq(p, 1, 0)) = <<>>
    <3>1. 1 \in 1 .. Len(p) + 1 /\ 0 \in 1 - 1 .. Len(p)
      BY <1>0 DEF n
    <3>2. Blanks(p, 1, 0)
      BY DEF Blanks
    <3> QED
      BY <3>1, <3>2, TrimBlank
  <2>4. InLower(Trim(SubSeq(p, i + 1, j))) = <<>>
    BY <2>2, <2>3, InLowerEmpty
  <2> QED
    BY <1>1, <2>4 DEF Means
<1>3. PICK a \in 1 .. i : /\ Blanks(p, 1, a - 1) /\ Lower(p[a]) = t
                          /\ Blanks(p, a + 1, i)
  <2>1. 1 \in 1 .. Len(p) + 1 /\ i \in 1 - 1 .. Len(p)
    BY <1>0 DEF n
  <2>2. Trim(SubSeq(p, 1, i)) # <<>>
    <3>1. <<t>> # <<>>
      OBVIOUS
    <3> QED
      BY <3>1, InLowerEmpty DEF Means, Upto
  <2>3. PICK b \in 1 .. i, d \in 1 .. i : /\ Trimmed(p, 1, i, b, d)
                                          /\ Trim(SubSeq(p, 1, i)) = SubSeq(p, b, d)
    BY <2>1, <2>2, TextOf
  <2>4. b \in 1 .. Len(p) + 1 /\ d \in b - 1 .. Len(p)
    BY <1>0, <2>3 DEF n, Trimmed
  <2>5. InLower(SubSeq(p, b, d)) = <<t>>
    BY <2>3 DEF Means, Upto
  <2>6. d = b /\ Lower(p[b]) = t
    <3>1. InLower(SubSeq(p, b, d)) = <<t>> <=> d = b /\ Lower(p[b]) = t
      BY <2>4, WordIs
    <3> QED
      BY <2>5, <3>1, Zenon
  <2> QED
    BY <2>3, <2>6 DEF Trimmed
<1>4. PICK c \in i + 1 .. j : /\ Blanks(p, i + 1, c - 1) /\ Spelled(p, c, z)
                              /\ c + m - 1 <= j /\ Blanks(p, c + m, j)
  <2>1. i + 1 \in 1 .. Len(p) + 1 /\ j \in (i + 1) - 1 .. Len(p)
    BY <1>0, <1>2 DEF n
  <2>2. Trim(SubSeq(p, i + 1, j)) # <<>>
    BY <1>1, InLowerEmpty DEF Means
  <2>3. PICK b \in i + 1 .. j, d \in i + 1 .. j :
            /\ Trimmed(p, i + 1, j, b, d)
            /\ Trim(SubSeq(p, i + 1, j)) = SubSeq(p, b, d)
    BY <2>1, <2>2, TextOf
  <2>4. b \in 1 .. Len(p) + 1 /\ d \in b - 1 .. Len(p) /\ b \in Int /\ d \in Int
    BY <1>0, <2>3 DEF n, Trimmed
  <2>5. InLower(SubSeq(p, b, d)) = Spelling[z]
    BY <2>3 DEF Means
  <2>6. d = b + m - 1 /\ Spelled(p, b, z)
    BY <2>4, <2>5, SpelledIs DEF m
  <2>7. d + 1 = b + m
    BY <1>1, <2>4, <2>6
  <2> QED
    BY <2>3, <2>6, <2>7 DEF Trimmed
<1>5. PICK e \in j + 1 .. n, f \in j + 1 .. n :
          /\ Blanks(p, j + 1, e - 1) /\ NumberAt(p, e, f) /\ Blanks(p, f + 1, n)
          /\ Tail(InLower(Trim(After(p, j)))) = SubSeq(p, e + 1, f)
  <2>1. j + 1 \in 1 .. Len(p) + 1 /\ n \in (j + 1) - 1 .. Len(p)
    BY <1>0 DEF n
  <2>2. ~IsNumber(<<>>)
    <3>1. Len(<<>>) = 0
      OBVIOUS
    <3> QED
      BY <3>1 DEF IsNumber
  <2>3. After(p, j) = SubSeq(p, j + 1, n) /\ IsNumber(InLower(Trim(After(p, j))))
    BY DEF After, n, Means
  <2>4. Trim(SubSeq(p, j + 1, n)) # <<>>
    BY <2>2, <2>3, InLowerEmpty
  <2>5. PICK b \in j + 1 .. n, d \in j + 1 .. n :
            /\ Trimmed(p, j + 1, n, b, d)
            /\ Trim(SubSeq(p, j + 1, n)) = SubSeq(p, b, d)
    BY <2>1, <2>4, TextOf
  <2>6. b \in 1 .. Len(p) + 1 /\ d \in b - 1 .. Len(p)
    BY <1>0, <2>5 DEF n, Trimmed
  <2>7. NumberAt(p, b, d) /\ Tail(InLower(SubSeq(p, b, d))) = SubSeq(p, b + 1, d)
    BY <2>3, <2>5, <2>6, NumberIs
  <2> QED
    BY <2>3, <2>5, <2>7 DEF Trimmed
<1>6. /\ a \in Int /\ c \in Int /\ e \in Int /\ f \in Int
      /\ 1 <= a /\ a <= i /\ i < c /\ c + m - 1 <= j /\ j < e /\ j < f /\ f <= n /\ e <= n
  BY <1>0, <1>3, <1>4, <1>5
<1>7. a \in 1 .. n /\ c \in 1 .. n /\ e \in 1 .. n /\ f \in 1 .. n /\ a < c /\ c + m <= e
  BY <1>0, <1>1, <1>6
<1>8. Blanks(p, a + 1, c - 1)
  <2>1. \A k \in a + 1 .. c - 1 : k \in a + 1 .. i \/ k \in i + 1 .. c - 1
    BY <1>0, <1>6
  <2> QED
    BY <1>3, <1>4, <2>1 DEF Blanks
<1>9. Blanks(p, c + m, e - 1)
  <2>1. \A k \in c + m .. e - 1 : k \in c + m .. j \/ k \in j + 1 .. e - 1
    BY <1>0, <1>1, <1>6
  <2> QED
    BY <1>4, <1>5, <2>1 DEF Blanks
<1>10. Reads(p, t, z, a, c, e, f)
  BY <1>3, <1>4, <1>5, <1>6, <1>7, <1>8, <1>9 DEF Reads, m, n
<1>11. o = OrderOf(p, t, z, e, f)
  BY <1>5 DEF Means, OrderOf
<1> QED
  BY <1>7, <1>10, <1>11 DEF HasReading, n

LEMMA ReadsMeans ==
    ASSUME NEW p \in Seq(STRING),
           NEW t \in DOMAIN Types, NEW z \in DOMAIN Spelling,
           NEW a \in Int, NEW c \in Int, NEW e \in Int, NEW f \in Int,
           Reads(p, t, z, a, c, e, f)
    PROVE  OrderOf(p, t, z, e, f) \in Meanings(p)
<1> DEFINE m == Len(Spelling[z])
           n == Len(p)
           j == c + m - 1
<1>1. m \in Nat /\ 1 <= m /\ n \in Nat
  <2>1. m \in 1 .. 3
    BY SizesAre
  <2>2. n \in Nat
    OBVIOUS
  <2> HIDE DEF m, n
  <2> QED
    BY <2>1, <2>2
<1>2. /\ 1 <= a /\ a < c /\ c + m <= e /\ e < f /\ f <= n
      /\ p[a] # Blank /\ p[c] # Blank /\ p[c + m - 1] # Blank
      /\ p[e] # Blank /\ p[f] # Blank
  BY ReadsText
<1> HIDE DEF m, n
<1>3. /\ a \in 0 .. n /\ a \in 1 .. n + 1 /\ 1 \in 1 .. n + 1 /\ a \in a - 1 .. n
      /\ a \in 1 - 1 .. n
  BY <1>1, <1>2
<1>4. /\ j \in 0 .. n /\ a + 1 \in 1 .. n + 1 /\ j \in (a + 1) - 1 .. n
      /\ c \in 1 .. n + 1 /\ j \in c - 1 .. n /\ j \in Int
  BY <1>1, <1>2
<1>5. /\ j + 1 \in 1 .. n + 1 /\ n \in (j + 1) - 1 .. n
      /\ e \in 1 .. n + 1 /\ f \in e - 1 .. n /\ j + 1 = c + m
  BY <1>1, <1>2
<1>6. InLower(Trim(Upto(p, a))) = <<t>>
  <2>1. Blanks(p, a + 1, a)
    <3>1. \A k \in a + 1 .. a : FALSE
      OBVIOUS
    <3> QED
      BY <3>1 DEF Blanks
  <2>2. Trimmed(p, 1, a, a, a)
    BY <1>2, <2>1 DEF Trimmed, Reads
  <2>3. Trim(SubSeq(p, 1, a)) = SubSeq(p, a, a)
    <3>1. 1 \in 1 .. Len(p) + 1 /\ a \in 1 - 1 .. Len(p)
      BY <1>3 DEF n
    <3> QED
      BY <2>2, <3>1, TrimIs
  <2>4. Lower(p[a]) = t
    BY DEF Reads
  <2>5. InLower(SubSeq(p, a, a)) = <<t>>
    <3>1. a \in 1 .. Len(p) + 1 /\ a \in a - 1 .. Len(p)
      BY <1>3 DEF n
    <3> QED
      BY <2>4, <3>1, WordIs
  <2> QED
    BY <2>3, <2>5 DEF Upto
<1>7. InLower(Trim(SubSeq(p, a + 1, j))) = Spelling[z]
  <2>1. Blanks(p, j + 1, j)
    <3>1. \A k \in j + 1 .. j : FALSE
      BY <1>4
    <3> QED
      BY <3>1 DEF Blanks
  <2>2. a + 1 <= c /\ c <= j /\ j <= j
    BY <1>1, <1>2
  <2>3. Blanks(p, a + 1, c - 1) /\ Spelled(p, c, z)
    BY DEF Reads
  <2>4. Trimmed(p, a + 1, j, c, j)
    BY <1>2, <2>1, <2>2, <2>3 DEF Trimmed
  <2>5. Trim(SubSeq(p, a + 1, j)) = SubSeq(p, c, j)
    <3> HIDE DEF j
    <3> QED
      BY <1>4, <2>4, TrimIs DEF n
  <2>6. InLower(SubSeq(p, c, j)) = Spelling[z]
    BY <1>4, <2>3, SpelledIs DEF n, m
  <2> QED
    BY <2>5, <2>6
<1>8. /\ IsNumber(InLower(Trim(After(p, j))))
      /\ Tail(InLower(Trim(After(p, j)))) = SubSeq(p, e + 1, f)
  <2>1. Blanks(p, j + 1, e - 1) /\ NumberAt(p, e, f) /\ Blanks(p, f + 1, n)
    BY <1>5 DEF Reads, m, n
  <2>2. j + 1 <= e /\ e <= f
    BY <1>1, <1>2
  <2> HIDE DEF j
  <2>3. Trimmed(p, j + 1, n, e, f)
    BY <1>2, <2>1, <2>2 DEF Trimmed
  <2>4. Trim(SubSeq(p, j + 1, n)) = SubSeq(p, e, f)
    BY <1>5, <2>3, TrimIs DEF n
  <2>5. After(p, j) = SubSeq(p, j + 1, n)
    BY DEF After, n
  <2>6. e \in 1 .. Len(p) + 1 /\ f \in e - 1 .. Len(p)
    BY <1>5 DEF n
  <2>7. /\ IsNumber(InLower(SubSeq(p, e, f)))
        /\ Tail(InLower(SubSeq(p, e, f))) = SubSeq(p, e + 1, f)
    BY <2>1, <2>6, NumberIs
  <2> QED
    BY <2>4, <2>5, <2>7
<1>9. Means(p, OrderOf(p, t, z, e, f), a, j, t, z)
  BY <1>6, <1>7, <1>8 DEF Means, OrderOf
<1> QED
  <2> HIDE DEF j
  <2> QED
    BY <1>3, <1>4, <1>9, MeaningsUnfolded DEF n

-----------------------------------------------------------------------------
(* What the subject derives, the wider language means.                         *)

LEMMA CapitalsAre ==
    ASSUME NEW z \in DOMAIN Capitals
    PROVE  /\ z \in DOMAIN Spelling /\ Len(Capitals[z]) = Len(Spelling[z])
           /\ \A k \in 1 .. Len(Spelling[z]) : Lower(Capitals[z][k]) = Spelling[z][k]
<1>1. z \in {"S", "M", "L", "XL", "XXL"}
  BY DEF Capitals
<1>2. /\ Capitals["S"] = <<"S">> /\ Capitals["M"] = <<"M">> /\ Capitals["L"] = <<"L">>
      /\ Capitals["XL"] = <<"X", "L">> /\ Capitals["XXL"] = <<"X", "X", "L">>
  BY DEF Capitals
<1>3. /\ Spelling["S"] = <<"s">> /\ Spelling["M"] = <<"m">> /\ Spelling["L"] = <<"l">>
      /\ Spelling["XL"] = <<"x", "l">> /\ Spelling["XXL"] = <<"x", "x", "l">>
      /\ DOMAIN Spelling = {"S", "M", "L", "XL", "XXL"}
  BY DEF Spelling
<1>4. Lower("S") = "s" /\ Lower("M") = "m" /\ Lower("L") = "l" /\ Lower("X") = "x"
  BY SmallIs DEF Lower
<1>5. CASE z \in {"S", "M", "L"}
  BY <1>2, <1>3, <1>4, <1>5
<1>6. CASE z \in {"XL", "XXL"}
  BY <1>2, <1>3, <1>4, <1>6
<1> QED
  BY <1>1, <1>5, <1>6

LEMMA DerivedMeans ==
    ASSUME NEW p \in Seq(STRING), NEW o \in Derived(p)
    PROVE  o \in Meanings(p)
<1>1. PICK z \in DOMAIN Capitals :
          /\ Derives(p, z)
          /\ o = [type |-> Types[Lower(p[1])], size |-> z,
                  quantity |-> Value(After(p, Len(Capitals[z]) + 2))]
  BY DEF Derived
<1>2. PICK m \in Nat : m = Len(Capitals[z]) /\ m = Len(Spelling[z]) /\ 1 <= m
  <2>1. z \in DOMAIN Spelling /\ Len(Capitals[z]) = Len(Spelling[z])
    BY CapitalsAre
  <2>2. Len(Spelling[z]) \in 1 .. 3
    BY <2>1, SizesAre
  <2> QED
    BY <2>1, <2>2
<1>3. PICK n \in Nat : n = Len(p)
  OBVIOUS
<1>4. /\ z \in DOMAIN Spelling /\ \A k \in 1 .. m : Lower(Capitals[z][k]) = Spelling[z][k]
  BY <1>2, CapitalsAre
<1>5. /\ n > m + 1 /\ Lower(p[1]) \in DOMAIN Types
      /\ SubSeq(p, 2, m + 1) = Capitals[z]
      /\ IsNumber(After(p, m + 1))
  BY <1>1, <1>2, <1>3 DEF Derives
<1>6. Spelled(p, 2, z)
  <2>1. 2 \in 1 .. Len(p) + 1 /\ m + 1 \in 2 - 1 .. Len(p)
    BY <1>2, <1>3, <1>5
  <2>2. \A k \in 1 .. m : SubSeq(p, 2, m + 1)[k] = p[2 + k - 1]
    BY <1>3, <1>5
  <2>3. \A k \in 1 .. m : Lower(p[2 + k - 1]) = Spelling[z][k]
    BY <1>4, <1>5, <2>2
  <2> QED
    BY <1>2, <2>3 DEF Spelled
<1>7. NumberAt(p, m + 2, n)
  <2>1. m + 2 \in 1 .. Len(p) + 1 /\ n \in (m + 2) - 1 .. Len(p)
    BY <1>3, <1>5
  <2>2. After(p, m + 1) = SubSeq(p, m + 2, n)
    BY <1>3 DEF After
  <2> QED
    BY <1>5, <2>1, <2>2, NumberIs
<1>8. /\ Blanks(p, 1, 1 - 1) /\ Blanks(p, 1 + 1, 2 - 1)
      /\ Blanks(p, 2 + m, (m + 2) - 1) /\ Blanks(p, n + 1, n)
  BY DEF Blanks
<1>9. Reads(p, Lower(p[1]), z, 1, 2, m + 2, n)
  BY <1>2, <1>3, <1>6, <1>7, <1>8 DEF Reads
<1>10. OrderOf(p, Lower(p[1]), z, m + 2, n) \in Meanings(p)
  BY <1>4, <1>5, <1>9, ReadsMeans
<1>11. After(p, m + 2) = SubSeq(p, (m + 2) + 1, n)
  BY <1>3 DEF After
<1> QED
  BY <1>1, <1>2, <1>10, <1>11 DEF OrderOf

-----------------------------------------------------------------------------
(* parseLine reads a piece in this way.                                        *)

LEMMA CutIs ==
    ASSUME NEW p \in Seq(STRING), NEW a \in 1 .. Len(p) + 1, NEW b \in a - 1 .. Len(p),
           NEW m \in 0 .. b - a + 1
    PROVE  /\ Upto(SubSeq(p, a, b), m) = SubSeq(p, a, a + m - 1)
           /\ After(SubSeq(p, a, b), m) = SubSeq(p, a + m, b)
<1> DEFINE n == b - a + 1
<1>0. /\ Len(p) \in Nat /\ a \in Int /\ b \in Int /\ 1 <= a /\ a <= b + 1 /\ b <= Len(p)
      /\ a \in Nat /\ b \in Nat
  BY WindowAt
<1>1. Len(SubSeq(p, a, b)) = n /\ n \in Nat /\ m \in Int /\ 0 <= m /\ m <= n
  BY <1>0, WindowIs
<1>2. SubSeq(SubSeq(p, a, b), 1, m) = SubSeq(p, a + 1 - 1, a + m - 1)
  <2>1. 1 \in 1 .. b - a + 2 /\ m \in 1 - 1 .. b - a + 1
    BY <1>0, <1>1
  <2> QED
    BY <2>1, WindowInWindow
<1>3. SubSeq(SubSeq(p, a, b), m + 1, n) = SubSeq(p, a + (m + 1) - 1, a + n - 1)
  <2>1. m + 1 \in 1 .. b - a + 2 /\ n \in (m + 1) - 1 .. b - a + 1
    BY <1>0, <1>1
  <2> HIDE DEF n
  <2> QED
    BY <2>1, WindowInWindow
<1>4. a + 1 - 1 = a /\ a + (m + 1) - 1 = a + m /\ a + n - 1 = b
  BY <1>0, <1>1
<1> QED
  BY <1>1, <1>2, <1>3, <1>4 DEF Upto, After

\* Behind a, up to b, stand a size from c on and a number from e to b.
Follows(p, z, a, c, e, b) ==
    /\ a < c /\ c + Len(Spelling[z]) <= e
    /\ Blanks(p, a + 1, c - 1) /\ Spelled(p, c, z)
    /\ Blanks(p, c + Len(Spelling[z]), e - 1) /\ NumberAt(p, e, b)

LEMMA SizeLength ==
    ASSUME NEW z \in DOMAIN Spelling
    PROVE  Len(Spelling[z]) \in Nat /\ 1 <= Len(Spelling[z])
<1> DEFINE m == Len(Spelling[z])
<1>1. m \in 1 .. 3
  BY SizesAre
<1> HIDE DEF m
<1>2. m \in Nat /\ 1 <= m
  BY <1>1
<1> QED
  BY <1>2 DEF m

LEMMA SizeFollowsOnly ==
    ASSUME NEW p \in Seq(STRING), NEW a \in 1 .. Len(p), NEW b \in a .. Len(p),
           p[b] # Blank, NEW z \in DOMAIN Spelling, SizeFollows(SubSeq(p, a, b), 1, z)
    PROVE  \E c, e \in 1 .. Len(p) : Follows(p, z, a, c, e, b)
<1> DEFINE n == Len(p)
           m == Len(Spelling[z])
           s == SubSeq(p, a, b)
           r == Trim(After(s, 1))
<1>0. n \in Nat /\ a \in Int /\ b \in Int /\ 1 <= a /\ a <= b /\ b <= n
  <2>1. n \in Nat
    OBVIOUS
  <2> HIDE DEF n
  <2>2. a \in 1 .. n /\ b \in a .. n
    BY DEF n
  <2> QED
    BY <2>1, <2>2
<1>1. m \in Nat /\ 1 <= m
  BY SizeLength
<1> HIDE DEF m, n
<1>2. After(s, 1) = SubSeq(p, a + 1, b)
  <2>1. a \in 1 .. n + 1 /\ b \in a - 1 .. n /\ 1 \in 0 .. b - a + 1
    BY <1>0
  <2> QED
    BY <2>1, CutIs DEF n
<1>3. Len(r) > m /\ InLower(Upto(r, m)) = Spelling[z] /\ IsNumber(Trim(After(r, m)))
  BY DEF SizeFollows, m
<1> HIDE DEF s
<1>4. PICK c \in a + 1 .. b : /\ Blanks(p, a + 1, c - 1) /\ p[c] # Blank
                              /\ r = SubSeq(p, c, b)
  <2>1. a + 1 \in 1 .. n + 1 /\ b \in (a + 1) - 1 .. n
    BY <1>0
  <2>2. r # <<>>
    <3>1. Len(<<>>) = 0
      OBVIOUS
    <3> HIDE DEF r
    <3> QED
      BY <1>1, <1>3, <3>1
  <2>3. PICK c \in a + 1 .. b, d \in a + 1 .. b :
            Trimmed(p, a + 1, b, c, d) /\ r = SubSeq(p, c, d)
    BY <1>2, <2>1, <2>2, TextOf DEF n
  <2>4. d = b
    <3>1. ~(b \in d + 1 .. b)
      BY <2>3 DEF Trimmed, Blanks
    <3> QED
      BY <1>0, <3>1
  <2> QED
    BY <2>3, <2>4 DEF Trimmed
<1> HIDE DEF r
<1>5. c \in Int /\ a < c /\ c <= b /\ c \in 1 .. n /\ c \in 1 .. n + 1 /\ b \in c - 1 .. n
  BY <1>0
<1>6. Len(r) = b - c + 1 /\ m < b - c + 1
  BY <1>3, <1>4, <1>5, WindowIs DEF n
<1>7. Upto(r, m) = SubSeq(p, c, c + m - 1) /\ After(r, m) = SubSeq(p, c + m, b)
  <2>1. m \in 0 .. b - c + 1
    BY <1>0, <1>1, <1>5, <1>6
  <2> QED
    BY <1>4, <1>5, <2>1, CutIs DEF n
<1>8. Spelled(p, c, z)
  <2>1. c + m - 1 \in c - 1 .. n
    BY <1>0, <1>1, <1>5, <1>6
  <2>2. c \in 1 .. Len(p) + 1 /\ c + m - 1 \in c - 1 .. Len(p)
    BY <1>5, <2>1 DEF n
  <2>3. InLower(SubSeq(p, c, c + m - 1)) = Spelling[z]
    BY <1>3, <1>7
  <2> QED
    BY <2>2, <2>3, SpelledIs
<1>9. PICK e \in c + m .. b : Blanks(p, c + m, e - 1) /\ NumberAt(p, e, b)
  <2>1. c + m \in 1 .. n + 1 /\ b \in (c + m) - 1 .. n /\ c + m \in Int
    BY <1>0, <1>1, <1>5, <1>6
  <2>2. IsNumber(Trim(SubSeq(p, c + m, b)))
    BY <1>3, <1>7
  <2>3. Trim(SubSeq(p, c + m, b)) # <<>>
    <3>1. Len(<<>>) = 0
      OBVIOUS
    <3>2. ~IsNumber(<<>>)
      BY <3>1 DEF IsNumber
    <3> QED
      BY <2>2, <3>2
  <2>4. PICK e \in c + m .. b, d \in c + m .. b :
            Trimmed(p, c + m, b, e, d) /\ Trim(SubSeq(p, c + m, b)) = SubSeq(p, e, d)
    BY <2>1, <2>3, TextOf DEF n
  <2>5. e \in Int /\ d \in Int /\ c + m <= e /\ e <= b /\ d <= b
    BY <1>0, <2>1
  <2>6. d = b
    <3>1. ~(b \in d + 1 .. b)
      BY <2>4 DEF Trimmed, Blanks
    <3> QED
      BY <1>0, <2>5, <3>1
  <2>7. e \in 1 .. n + 1 /\ b \in e - 1 .. n
    BY <1>0, <1>1, <1>5, <2>5
  <2>8. NumberAt(p, e, b)
    BY <2>2, <2>4, <2>6, <2>7, NumberIs DEF n
  <2> QED
    BY <2>4, <2>8 DEF Trimmed
<1>10. e \in 1 .. n /\ c + m <= e
  BY <1>0, <1>1, <1>5
<1> QED
  BY <1>4, <1>5, <1>8, <1>9, <1>10 DEF Follows, m, n

LEMMA SizeFollowsIf ==
    ASSUME NEW p \in Seq(STRING), NEW a \in 1 .. Len(p), NEW b \in a .. Len(p),
           NEW z \in DOMAIN Spelling, NEW c \in Int, NEW e \in Int,
           p[c] # Blank, p[e] # Blank, p[b] # Blank, Follows(p, z, a, c, e, b)
    PROVE  /\ SizeFollows(SubSeq(p, a, b), 1, z)
           /\ After(Trim(After(Trim(After(SubSeq(p, a, b), 1)), Len(Spelling[z]))), 1)
                = SubSeq(p, e + 1, b)
<1> DEFINE n == Len(p)
           m == Len(Spelling[z])
           s == SubSeq(p, a, b)
           r == Trim(After(s, 1))
<1>0. n \in Nat /\ a \in Int /\ b \in Int /\ 1 <= a /\ a <= b /\ b <= n
  <2>1. n \in Nat
    OBVIOUS
  <2> HIDE DEF n
  <2>2. a \in 1 .. n /\ b \in a .. n
    BY DEF n
  <2> QED
    BY <2>1, <2>2
<1>1. m \in Nat /\ 1 <= m
  BY SizeLength
<1> HIDE DEF m, n
<1>2. After(s, 1) = SubSeq(p, a + 1, b)
  <2>1. a \in 1 .. n + 1 /\ b \in a - 1 .. n /\ 1 \in 0 .. b - a + 1
    BY <1>0
  <2> QED
    BY <2>1, CutIs DEF n
<1> HIDE DEF s
<1>3. /\ a < c /\ c + m <= e /\ e < b
      /\ Blanks(p, a + 1, c - 1) /\ Spelled(p, c, z)
      /\ Blanks(p, c + m, e - 1) /\ NumberAt(p, e, b)
  BY DEF Follows, NumberAt, m
<1>4. Blanks(p, b + 1, b)
  <2>1. \A k \in b + 1 .. b : FALSE
    BY <1>0
  <2> QED
    BY <2>1 DEF Blanks
<1>5. r = SubSeq(p, c, b)
  <2>1. a + 1 \in 1 .. n + 1 /\ b \in (a + 1) - 1 .. n
    BY <1>0
  <2>2. a + 1 <= c /\ c <= b /\ b <= b
    BY <1>0, <1>1, <1>3
  <2>3. Trimmed(p, a + 1, b, c, b)
    BY <1>3, <1>4, <2>2 DEF Trimmed
  <2>4. Trim(SubSeq(p, a + 1, b)) = SubSeq(p, c, b)
    BY <1>0, <2>1, <2>3, TrimIs DEF n
  <2> QED
    BY <1>2, <2>4
<1> HIDE DEF r
<1>6. c \in 1 .. n + 1 /\ b \in c - 1 .. n /\ m \in 0 .. b - c + 1 /\ b - c + 1 > m
  BY <1>0, <1>1, <1>3
<1>7. Len(r) > m
  BY <1>5, <1>6, WindowIs DEF n
<1>8. Upto(r, m) = SubSeq(p, c, c + m - 1) /\ After(r, m) = SubSeq(p, c + m, b)
  BY <1>5, <1>6, CutIs DEF n
<1>9. InLower(Upto(r, m)) = Spelling[z]
  <2>1. c + m - 1 \in c - 1 .. n
    BY <1>0, <1>1, <1>3
  <2>2. c \in 1 .. Len(p) + 1 /\ c + m - 1 \in c - 1 .. Len(p)
    BY <1>6, <2>1 DEF n
  <2>3. c + m - 1 = c + Len(Spelling[z]) - 1
    BY DEF m
  <2> QED
    BY <1>3, <1>8, <2>2, <2>3, SpelledIs
<1>10. Trim(After(r, m)) = SubSeq(p, e, b)
  <2>1. c + m \in 1 .. n + 1 /\ b \in (c + m) - 1 .. n
    BY <1>0, <1>1, <1>3
  <2>2. c + m <= e /\ e <= b /\ b <= b
    BY <1>0, <1>3
  <2>3. Trimmed(p, c + m, b, e, b)
    BY <1>3, <1>4, <2>2 DEF Trimmed
  <2> QED
    BY <1>0, <1>8, <2>1, <2>3, TrimIs DEF n
<1>11. e \in 1 .. n + 1 /\ b \in e - 1 .. n
  BY <1>0, <1>1, <1>3
<1>12. IsNumber(Trim(After(r, m))) /\ After(Trim(After(r, m)), 1) = SubSeq(p, e + 1, b)
  BY <1>3, <1>10, <1>11, NumberIs DEF n
<1> QED
  BY <1>7, <1>9, <1>12 DEF SizeFollows, m, r, s

LEMMA OrderIs ==
    ASSUME NEW p \in Seq(STRING), NEW t \in DOMAIN Types, NEW z \in DOMAIN Spelling,
           NEW a \in Int, NEW c \in Int, NEW e \in Int, NEW f \in Int,
           Reads(p, t, z, a, c, e, f)
    PROVE  OrderOf(p, t, z, e, f) \in Order
<1> DEFINE d == SubSeq(p, e + 1, f)
           n == Len(p)
           k == f - e
<1>1. 1 <= a /\ a < c /\ c + Len(Spelling[z]) <= e /\ e < f /\ f <= n
  BY ReadsText
<1>2. Len(Spelling[z]) \in Nat
  BY SizeLength
<1>3. n \in Nat
  OBVIOUS
<1> HIDE DEF n, k, d
<1>4. e + 1 \in 1 .. n + 1 /\ f \in (e + 1) - 1 .. n
  BY <1>1, <1>2, <1>3
<1>5. f - (e + 1) + 1 = k /\ k \in Nat /\ k >= 1
  BY <1>1 DEF k
<1>6. d \in Seq(STRING) /\ Len(d) = k /\ \A i \in 1 .. k : d[i] = p[e + 1 + i - 1]
  BY <1>4, <1>5, WindowIs DEF n, d
<1>7. DOMAIN d = 1 .. k
  BY <1>5, <1>6
<1>8. \A i \in 1 .. k : e + 1 + i - 1 \in e + 1 .. f
  BY <1>1 DEF k
<1>9. p[e + 1] # "0" /\ \A i \in e + 1 .. f : p[i] \in Digit
  BY DEF Reads, NumberAt
<1>10. d[1] # "0"
  <2>1. 1 \in 1 .. k /\ e + 1 + 1 - 1 = e + 1
    BY <1>5
  <2> QED
    BY <1>6, <1>9, <2>1
<1>11. \A i \in 1 .. k : d[i] \in Digit
  BY <1>6, <1>8, <1>9
<1>12. Value(d) \in Nat /\ Value(d) >= 1
  BY <1>5, <1>6, <1>7, <1>10, <1>11, ValueIs
<1>13. Value(d) \in Nat \ {0}
  BY <1>12
<1>14. Types[t] \in DOMAIN Recipe
  BY TypesAre
<1> QED
  BY <1>13, <1>14 DEF OrderOf, Order, d

LEMMA TrimWhole ==
    ASSUME NEW p \in Seq(STRING)
    PROVE  /\ Len(p) \in Nat /\ 1 \in 1 .. Len(p) + 1 /\ Len(p) \in 1 - 1 .. Len(p)
           /\ Trim(p) = Trim(SubSeq(p, 1, Len(p)))
<1>1. Len(p) \in Nat
  OBVIOUS
<1>2. SubSeq(p, 1, Len(p)) = p
  BY SubSeqFull
<1>3. Trim(p) = Trim(SubSeq(p, 1, Len(p)))
  BY <1>2, Zenon
<1>4. 1 \in 1 .. Len(p) + 1 /\ Len(p) \in 1 - 1 .. Len(p)
  BY <1>1
<1> QED
  BY <1>1, <1>3, <1>4, Zenon

LEMMA NoOrderIs ==
    ASSUME NEW o \in Order
    PROVE  o # NoOrder
<1>1. o.quantity # 0
  BY DEF Order
<1>2. NoOrder.quantity = 0
  BY DEF NoOrder
<1> QED
  BY <1>1, <1>2

LEMMA TypeEndsAre ==
    ASSUME NEW p \in Seq(STRING), NEW a \in 1 .. Len(p), NEW b \in a .. Len(p)
    PROVE  LET s == SubSeq(p, a, b)
           IN  /\ TypeEnds(s) \subseteq Nat /\ \A i \in TypeEnds(s) : 1 <= i /\ i <= b - a + 1
               /\ 1 \in TypeEnds(s) <=>
                      p[a] \in Letter /\ \E z \in DOMAIN Spelling : SizeFollows(s, 1, z)
<1> DEFINE s == SubSeq(p, a, b)
           n == b - a + 1
<1>1. a \in 1 .. Len(p) + 1 /\ b \in a - 1 .. Len(p) /\ a \in Int /\ b \in Int /\ a <= b
  <2>1. Len(p) \in Nat
    OBVIOUS
  <2> QED
    BY <2>1
<1>2. s \in Seq(STRING) /\ Len(s) = n /\ \A i \in 1 .. n : s[i] = p[a + i - 1]
  BY <1>1, WindowIs
<1>3. DOMAIN s = 1 .. n /\ n \in Nat /\ 1 \in 1 .. n /\ a + 1 - 1 = a
  BY <1>1, <1>2
<1> HIDE DEF s, n
<1>4. TypeEnds(s) \subseteq 1 .. n
  BY <1>3 DEF TypeEnds
<1>5. \A i \in 1 .. n : i \in Nat /\ 1 <= i /\ i <= n
  BY <1>3
<1>6. s[1] = p[a]
  BY <1>2, <1>3
<1>7. (\A j \in 1 .. 1 : s[j] \in Letter) <=> p[a] \in Letter
  BY <1>6
<1>8. 1 \in TypeEnds(s) <=>
          p[a] \in Letter /\ \E z \in DOMAIN Spelling : SizeFollows(s, 1, z)
  BY <1>3, <1>7 DEF TypeEnds
<1> QED
  BY <1>4, <1>5, <1>8 DEF s, n

\* Where the shortest type ends, and what it is.
LEMMA ShortestType ==
    ASSUME NEW p \in Seq(STRING), NEW a \in 1 .. Len(p), NEW b \in a .. Len(p),
           TypeEnds(SubSeq(p, a, b)) # {}
    PROVE  LET s == SubSeq(p, a, b)
               end == Min(TypeEnds(s))
               word == InLower(Upto(s, end))
           IN  /\ end \in TypeEnds(s) /\ Len(word) = end /\ word[1] = Lower(p[a])
               /\ 1 \in TypeEnds(s) => end = 1
<1> DEFINE s == SubSeq(p, a, b)
           end == Min(TypeEnds(s))
           u == Upto(s, end)
           word == InLower(u)
<1>1. /\ TypeEnds(s) \subseteq Nat
      /\ \A i \in TypeEnds(s) : 1 <= i /\ i <= b - a + 1
  BY TypeEndsAre
<1>2. PICK m \in TypeEnds(s) : \A i \in TypeEnds(s) : m <= i
  <2> HIDE DEF s
  <2> QED
    BY <1>1, LeastExists DEF s
<1> HIDE DEF s
<1>3. end \in TypeEnds(s) /\ \A i \in TypeEnds(s) : end <= i
  BY <1>2 DEF Min
<1>4. 1 \in TypeEnds(s) => end = 1
  <2> HIDE DEF end
  <2> QED
    BY <1>1, <1>3
<1> HIDE DEF end
<1>5. end \in Nat /\ 1 <= end /\ end <= b - a + 1
  BY <1>1, <1>3
<1>6. a \in 1 .. Len(p) + 1 /\ b \in a - 1 .. Len(p) /\ a \in Int /\ b \in Int
      /\ 1 <= a /\ a <= b /\ b <= Len(p) /\ Len(p) \in Nat
  <2>1. Len(p) \in Nat
    OBVIOUS
  <2> QED
    BY <2>1
<1>7. u = SubSeq(p, a, a + end - 1)
  <2>1. end \in 0 .. b - a + 1
    BY <1>5, <1>6
  <2> QED
    BY <1>6, <2>1, CutIs DEF s
<1> DEFINE v == SubSeq(p, a, a + end - 1)
<1>8. v \in Seq(STRING) /\ Len(v) = end /\ \A i \in 1 .. end : v[i] = p[a + i - 1]
  <2> DEFINE q == a + end - 1
  <2>1. q \in a - 1 .. Len(p) /\ q - a + 1 = end
    BY <1>5, <1>6
  <2> HIDE DEF q
  <2>2. /\ SubSeq(p, a, q) \in Seq(STRING) /\ Len(SubSeq(p, a, q)) = end
        /\ \A i \in 1 .. end : SubSeq(p, a, q)[i] = p[a + i - 1]
    BY <1>6, <2>1, WindowIs
  <2> QED
    BY <2>2 DEF q
<1> HIDE DEF u, v
<1>9. word = [i \in 1 .. end |-> Lower(p[a + i - 1])]
  <2>1. DOMAIN u = 1 .. end /\ \A i \in 1 .. end : u[i] = p[a + i - 1]
    BY <1>5, <1>7, <1>8 DEF v
  <2> QED
    BY <2>1 DEF InLower
<1>10. Len(word) = end /\ word[1] = Lower(p[a])
  <2>1. 1 \in 1 .. end /\ a + 1 - 1 = a
    BY <1>5, <1>6
  <2> HIDE DEF word
  <2>2. Len(word) = end
    BY <1>5, <1>9
  <2>3. word[1] = Lower(p[a + 1 - 1])
    BY <1>9, <2>1
  <2> QED
    BY <2>1, <2>2, <2>3
<1> QED
  BY <1>3, <1>4, <1>10 DEF word, u, end, s

LEMMA ReadingFollows ==
    ASSUME NEW p \in Seq(STRING), NEW t \in DOMAIN Types, NEW z \in DOMAIN Spelling,
           NEW a \in Int, NEW c \in Int, NEW e \in Int, NEW f \in Int,
           Reads(p, t, z, a, c, e, f)
    PROVE  /\ a \in 1 .. Len(p) /\ f \in a .. Len(p)
           /\ Trim(p) = SubSeq(p, a, f) /\ Follows(p, z, a, c, e, f)
           /\ SizeFollows(SubSeq(p, a, f), 1, z)
           /\ After(Trim(After(Trim(After(SubSeq(p, a, f), 1)), Len(Spelling[z]))), 1)
                = SubSeq(p, e + 1, f)
<1>1. /\ 1 <= a /\ a < c /\ c + Len(Spelling[z]) <= e /\ e < f /\ f <= Len(p)
      /\ p[a] # Blank /\ p[c] # Blank /\ p[e] # Blank /\ p[f] # Blank
  BY ReadsText
<1>2. /\ Len(p) \in Nat /\ 1 \in 1 .. Len(p) + 1 /\ Len(p) \in 1 - 1 .. Len(p)
      /\ Trim(p) = Trim(SubSeq(p, 1, Len(p)))
  BY TrimWhole
<1>3. Len(Spelling[z]) \in Nat
  BY SizeLength
<1>4. a \in 1 .. Len(p) /\ f \in a .. Len(p) /\ 1 <= a /\ a <= f /\ f <= Len(p)
  BY <1>1, <1>2, <1>3
<1>5. Follows(p, z, a, c, e, f)
  BY DEF Reads, Follows
<1>6. Trimmed(p, 1, Len(p), a, f)
  BY <1>1, <1>4 DEF Reads, Trimmed
<1>7. Trim(SubSeq(p, 1, Len(p))) = SubSeq(p, a, f)
  BY <1>2, <1>6, TrimIs
<1>8. /\ SizeFollows(SubSeq(p, a, f), 1, z)
      /\ After(Trim(After(Trim(After(SubSeq(p, a, f), 1)), Len(Spelling[z]))), 1)
                = SubSeq(p, e + 1, f)
  BY <1>1, <1>4, <1>5, SizeFollowsIf
<1> QED
  BY <1>2, <1>4, <1>5, <1>7, <1>8

\* With a type at its first symbol, and a size and a number behind it, p is read.
LEMMA FollowsReads ==
    ASSUME NEW p \in Seq(STRING), NEW a \in 1 .. Len(p), NEW b \in a .. Len(p),
           Trimmed(p, 1, Len(p), a, b), Lower(p[a]) \in DOMAIN Types,
           NEW z \in DOMAIN Spelling, SizeFollows(SubSeq(p, a, b), 1, z)
    PROVE  \E c, e \in 1 .. Len(p) : Reads(p, Lower(p[a]), z, a, c, e, b)
<1>1. p[b] # Blank
  BY DEF Trimmed
<1>2. PICK c \in 1 .. Len(p), e \in 1 .. Len(p) : Follows(p, z, a, c, e, b)
  BY <1>1, SizeFollowsOnly
<1>3. 1 <= a /\ b <= Len(p)
  <2>1. Len(p) \in Nat
    OBVIOUS
  <2> QED
    BY <2>1
<1>4. Reads(p, Lower(p[a]), z, a, c, e, b)
  BY <1>2, <1>3 DEF Follows, Trimmed, Reads
<1> QED
  BY <1>4

\* parseLine on what is left of p, its end, word, size and number named.
LEMMA ParseLineIs ==
    ASSUME NEW p, NEW s, s = Trim(p), TypeEnds(s) # {}
    PROVE  LET end == Min(TypeEnds(s))
               word == InLower(Upto(s, end))
               size == CHOOSE z \in DOMAIN Spelling : SizeFollows(s, end, z)
               n == Value(After(Trim(After(Trim(After(s, end)), Len(Spelling[size]))), 1))
           IN  ParseLine(p) =
                   IF Len(word) = 1 /\ word[1] \in DOMAIN Types /\ n <= MaxSizeT
                   THEN [type |-> Types[word[1]], size |-> size, quantity |-> n]
                   ELSE NoOrder
BY Zenon DEF ParseLine

LEMMA ParseLineReads ==
    ASSUME NEW p \in Seq(STRING), NEW t \in DOMAIN Types, NEW z \in DOMAIN Spelling,
           NEW a \in Int, NEW c \in Int, NEW e \in Int, NEW f \in Int,
           Reads(p, t, z, a, c, e, f)
    PROVE  ParseLine(p) = IF OrderOf(p, t, z, e, f).quantity <= MaxSizeT
                          THEN OrderOf(p, t, z, e, f) ELSE NoOrder
<1> DEFINE s == SubSeq(p, a, f)
           end == Min(TypeEnds(s))
           word == InLower(Upto(s, end))
           size == CHOOSE y \in DOMAIN Spelling : SizeFollows(s, end, y)
           n == Value(After(Trim(After(Trim(After(s, end)), Len(Spelling[size]))), 1))
<1>1. /\ a \in 1 .. Len(p) /\ f \in a .. Len(p)
      /\ Trim(p) = s /\ SizeFollows(s, 1, z)
      /\ After(Trim(After(Trim(After(s, 1)), Len(Spelling[z]))), 1) = SubSeq(p, e + 1, f)
  BY ReadingFollows
<1>2. Lower(p[a]) = t /\ p[a] \in Letter
  <2>1. Lower(p[a]) = t
    BY DEF Reads
  <2> QED
    BY <2>1, LowerIs
<1>3. 1 \in TypeEnds(s)
  BY <1>1, <1>2, TypeEndsAre
<1>4. end = 1 /\ Len(word) = 1 /\ word[1] = t
  BY <1>1, <1>2, <1>3, ShortestType
<1>5. \A y \in DOMAIN Spelling : SizeFollows(s, 1, y) => y = z
  <2> SUFFICES ASSUME NEW y \in DOMAIN Spelling, SizeFollows(s, 1, y)
               PROVE  y = z
    OBVIOUS
  <2>1. p[f] # Blank
    BY ReadsText
  <2>2. PICK d \in 1 .. Len(p), g \in 1 .. Len(p) : Follows(p, y, a, d, g, f)
    BY <1>1, <2>1, SizeFollowsOnly
  <2>3. Reads(p, t, y, a, d, g, f)
    BY <2>2 DEF Follows, Reads
  <2>4. d \in Int /\ g \in Int
    <3>1. Len(p) \in Nat
      OBVIOUS
    <3> QED
      BY <3>1
  <2> QED
    BY <2>3, <2>4, ReadsOnce
<1>6. size = z
  <2> HIDE DEF s, end
  <2> QED
    BY <1>1, <1>4, <1>5
<1> HIDE DEF s, end, word, size
<1>7. n = Value(SubSeq(p, e + 1, f))
  BY <1>1, <1>4, <1>6
<1>8. ParseLine(p) = IF Len(word) = 1 /\ word[1] \in DOMAIN Types /\ n <= MaxSizeT
                     THEN [type |-> Types[word[1]], size |-> size, quantity |-> n]
                     ELSE NoOrder
  <2> HIDE DEF n
  <2>1. TypeEnds(s) # {}
    BY <1>3
  <2> QED
    BY <1>1, <2>1, ParseLineIs, Zenon DEF n, size, word, end
<1> HIDE DEF n
<1> QED
  BY <1>4, <1>6, <1>7, <1>8 DEF OrderOf

LEMMA ParseLineRejects ==
    ASSUME NEW p \in Seq(STRING),
           \A t \in DOMAIN Types, z \in DOMAIN Spelling, a, c, e, f \in 1 .. Len(p) :
               ~Reads(p, t, z, a, c, e, f)
    PROVE  ParseLine(p) = NoOrder
<1>1. /\ Len(p) \in Nat /\ 1 \in 1 .. Len(p) + 1 /\ Len(p) \in 1 - 1 .. Len(p)
      /\ Trim(p) = Trim(SubSeq(p, 1, Len(p)))
  BY TrimWhole
<1>2. CASE Blanks(p, 1, Len(p))
  <2>1. Trim(p) = <<>>
    BY <1>1, <1>2, TrimBlank
  <2>2. TypeEnds(<<>>) = {}
    BY DEF TypeEnds
  <2> QED
    BY <2>1, <2>2 DEF ParseLine
<1>3. CASE ~Blanks(p, 1, Len(p))
  <2>1. PICK i \in 1 .. Len(p) : p[i] # Blank
    BY <1>3 DEF Blanks
  <2>2. PICK a \in 1 .. Len(p), b \in 1 .. Len(p) : Trimmed(p, 1, Len(p), a, b)
    BY <1>1, <2>1, TextExists
  <2> DEFINE s == SubSeq(p, a, b)
  <2>3. a \in Int /\ b \in Int /\ b \in a .. Len(p)
    BY <1>1, <2>2 DEF Trimmed
  <2>4. Trim(p) = s
    BY <1>1, <2>2, <2>3, TrimIs
  <2>5. CASE TypeEnds(s) = {}
    BY <2>4, <2>5 DEF ParseLine
  <2>6. CASE TypeEnds(s) # {}
    <3> DEFINE end == Min(TypeEnds(s))
               word == InLower(Upto(s, end))
    <3>1. /\ end \in TypeEnds(s) /\ Len(word) = end /\ word[1] = Lower(p[a])
      BY <2>3, <2>6, ShortestType
    <3>2. ~(Len(word) = 1 /\ word[1] \in DOMAIN Types)
      <4>1. SUFFICES ASSUME Len(word) = 1, word[1] \in DOMAIN Types
                     PROVE  FALSE
        OBVIOUS
      <4>2. 1 \in TypeEnds(s) /\ Lower(p[a]) \in DOMAIN Types
        BY <3>1, <4>1
      <4>3. PICK z \in DOMAIN Spelling : SizeFollows(s, 1, z)
        BY <2>3, <4>2, TypeEndsAre
      <4>4. PICK c \in 1 .. Len(p), e \in 1 .. Len(p) : Reads(p, Lower(p[a]), z, a, c, e, b)
        BY <2>2, <2>3, <4>2, <4>3, FollowsReads
      <4> QED
        BY <4>2, <4>4
    <3> QED
      BY <2>4, <2>6, <3>2, ParseLineIs
  <2> QED
    BY <2>5, <2>6
<1> QED
  BY <1>2, <1>3

\* A piece means one order or none, and parseLine returns it if its number fits.
LEMMA PieceIs ==
    ASSUME NEW p \in Seq(STRING)
    PROVE  \/ Meanings(p) = {} /\ ParseLine(p) = NoOrder
           \/ \E o \in Order :
                /\ Meanings(p) = {o}
                /\ ParseLine(p) = IF o.quantity <= MaxSizeT THEN o ELSE NoOrder
<1>1. \A o \in Meanings(p) : HasReading(p, o)
  BY MeaningsUnfolded, MeansReads
<1>2. \A i \in 1 .. Len(p) : i \in Int
  OBVIOUS
<1>3. CASE \A t \in DOMAIN Types, z \in DOMAIN Spelling, a, c, e, f \in 1 .. Len(p) :
               ~Reads(p, t, z, a, c, e, f)
  BY <1>1, <1>3, ParseLineRejects DEF HasReading
<1>4. ASSUME NEW t \in DOMAIN Types, NEW z \in DOMAIN Spelling,
             NEW a \in 1 .. Len(p), NEW c \in 1 .. Len(p),
             NEW e \in 1 .. Len(p), NEW f \in 1 .. Len(p), Reads(p, t, z, a, c, e, f)
      PROVE  \E o \in Order :
                /\ Meanings(p) = {o}
                /\ ParseLine(p) = IF o.quantity <= MaxSizeT THEN o ELSE NoOrder
  <2> DEFINE o == OrderOf(p, t, z, e, f)
  <2>1. a \in Int /\ c \in Int /\ e \in Int /\ f \in Int
    BY <1>2
  <2>2. o \in Order
    BY <1>4, <2>1, OrderIs
  <2>3. o \in Meanings(p)
    BY <1>4, <2>1, ReadsMeans
  <2>4. \A x \in Meanings(p) : x = o
    <3> SUFFICES ASSUME NEW x \in Meanings(p)
                 PROVE  x = o
      OBVIOUS
    <3>1. PICK u \in DOMAIN Types, y \in DOMAIN Spelling, b \in 1 .. Len(p),
               d \in 1 .. Len(p), g \in 1 .. Len(p), h \in 1 .. Len(p) :
                   Reads(p, u, y, b, d, g, h) /\ x = OrderOf(p, u, y, g, h)
      BY <1>1 DEF HasReading
    <3>2. b \in Int /\ d \in Int /\ g \in Int /\ h \in Int
      BY <1>2
    <3>3. t = u /\ z = y /\ e = g /\ f = h
      BY <1>4, <2>1, <3>1, <3>2, ReadsOnce
    <3> QED
      BY <3>1, <3>3
  <2>5. ParseLine(p) = IF o.quantity <= MaxSizeT THEN o ELSE NoOrder
    BY <1>4, <2>1, ParseLineReads
  <2> HIDE DEF o
  <2>6. Meanings(p) = {o}
    BY <2>3, <2>4
  <2> QED
    BY <2>2, <2>5, <2>6
<1> QED
  BY <1>3, <1>4

-----------------------------------------------------------------------------
(* The pieces of a line, and parse.                                            *)

\* Semicolons stand between the pieces, and none in the last one.
LEMMA PiecesAre ==
    ASSUME NEW l \in Seq(STRING)
    PROVE  \E n \in Nat, q \in 0 .. Len(l) :
               /\ n >= 1 /\ Len(Pieces(l)) = n /\ DOMAIN Pieces(l) = 1 .. n
               /\ Pieces(l) \in Seq(Seq(STRING))
               /\ Pieces(l)[n] = SubSeq(l, q + 1, Len(l))
               /\ \A i \in q + 1 .. Len(l) : l[i] # Semicolon
               /\ q = 0 => n = 1
               /\ q > 0 => l[q] = Semicolon
<1> DEFINE m == Len(l)
           ends == {i \in DOMAIN l : l[i] = Semicolon} \cup {Len(l) + 1}
           n == Cardinality(ends)
           Place == 1 .. Cardinality(ends)
           end == CHOOSE s \in [Place -> ends] : \A i, j \in Place : i < j => s[i] < s[j]
           from(k) == IF k = 1 THEN 0 ELSE end[k - 1]
<1>1. m \in Nat /\ DOMAIN l = 1 .. m
  OBVIOUS
<1>2. /\ ends \subseteq Nat /\ m + 1 \in ends
      /\ \A i \in ends : 1 <= i /\ i <= m + 1 /\ (i # m + 1 => i \in 1 .. m /\ l[i] = Semicolon)
      /\ \A i \in 1 .. m : l[i] = Semicolon => i \in ends
  BY <1>1
<1>3. Pieces(l) = [k \in Place |-> SubSeq(l, (IF k = 1 THEN 0 ELSE end[k - 1]) + 1, end[k] - 1)]
  BY DEF Pieces
<1> HIDE DEF m, ends
<1>4. IsFiniteSet(ends) /\ n \in Nat /\ n >= 1
  <2>1. IsFiniteSet(ends)
    <3>1. m + 1 \in Nat /\ \A i \in ends : i <= m + 1
      BY <1>1, <1>2
    <3> QED
      BY <1>2, <3>1, FS_BoundedSetOfNaturals
  <2>2. n \in Nat
    BY <2>1, FS_CardinalityType
  <2>3. n # 0
    BY <1>2, <2>1, FS_EmptySet
  <2> QED
    BY <2>1, <2>2, <2>3
<1>5. end \in [Place -> ends] /\ \A i, j \in Place : i < j => end[i] < end[j]
  <2>1. \E s \in [Place -> ends] : \A i, j \in Place : i < j => s[i] < s[j]
    BY <1>2, <1>4, SortedExists DEF Sorted
  <2> QED
    BY <2>1
<1> HIDE DEF end
<1>6. \A k \in Place : /\ k \in Nat /\ 1 <= k /\ k <= n
                       /\ end[k] \in ends /\ end[k] \in Nat /\ 1 <= end[k] /\ end[k] <= m + 1
  <2>1. \A k \in Place : k \in Nat /\ 1 <= k /\ k <= n
    <3> HIDE DEF n
    <3> QED
      BY <1>4 DEF n
  <2> HIDE DEF Place
  <2>2. \A k \in Place : end[k] \in ends
    BY <1>5
  <2> QED
    BY <1>2, <2>1, <2>2
<1>7. \A i \in ends : \E k \in Place : end[k] = i
  <2>1. end \in Injection(Place, ends)
    <3>1. \A i, j \in Place : end[i] = end[j] => i = j
      <4> SUFFICES ASSUME NEW i \in Place, NEW j \in Place, end[i] = end[j]
                   PROVE  i = j
        OBVIOUS
      <4>1. i \in Int /\ j \in Int /\ end[i] \in Nat /\ end[j] \in Nat
        BY <1>6
      <4>2. ~(i < j) /\ ~(j < i)
        BY <1>5, <4>1
      <4> QED
        BY <4>1, <4>2
    <3> QED
      BY <1>5, <3>1 DEF Injection, IsInjective
  <2>2. Cardinality(Place) = n
    BY <1>4, FS_Interval
  <2>3. end \in Surjection(Place, ends)
    BY <1>4, <2>1, <2>2, FS_Injection
  <2> QED
    BY <2>3 DEF Surjection
<1>8. Place = 1 .. n /\ n \in Place /\ 1 \in Place /\ \A k \in Place : k # 1 => k - 1 \in Place
  BY <1>4
<1> HIDE DEF n, Place
<1>9. end[n] = m + 1
  <2>1. PICK k \in Place : end[k] = m + 1
    BY <1>2, <1>7
  <2>2. k = n \/ k < n
    BY <1>4, <1>6
  <2>3. ~(k < n)
    <3>1. SUFFICES ASSUME k < n PROVE FALSE
      OBVIOUS
    <3>2. end[k] < end[n]
      BY <1>5, <1>8, <3>1
    <3> QED
      BY <1>1, <1>6, <1>8, <2>1, <3>2
  <2> QED
    BY <2>1, <2>2, <2>3
<1>10. \A k \in Place : /\ from(k) \in Nat /\ from(k) <= m /\ from(k) < end[k]
                        /\ k # 1 => from(k) \in ends
  <2> SUFFICES ASSUME NEW k \in Place
               PROVE  /\ from(k) \in Nat /\ from(k) <= m /\ from(k) < end[k]
                      /\ k # 1 => from(k) \in ends
    OBVIOUS
  <2>1. CASE k = 1
    BY <1>1, <1>6, <2>1
  <2>2. CASE k # 1
    <3>1. k - 1 \in Place /\ k - 1 < k
      BY <1>6, <1>8, <2>2
    <3>2. end[k - 1] < end[k]
      BY <1>5, <3>1
    <3>3. from(k) = end[k - 1]
      BY <2>2
    <3> HIDE DEF from
    <3> QED
      BY <1>1, <1>6, <3>1, <3>2, <3>3
  <2> QED
    BY <2>1, <2>2
<1>11. Pieces(l) = [k \in 1 .. n |-> SubSeq(l, from(k) + 1, end[k] - 1)]
  BY <1>3, <1>8
<1> HIDE DEF from
<1>12. \A k \in 1 .. n : SubSeq(l, from(k) + 1, end[k] - 1) \in Seq(STRING)
  <2> SUFFICES ASSUME NEW k \in Place
               PROVE  SubSeq(l, from(k) + 1, end[k] - 1) \in Seq(STRING)
    BY <1>8
  <2> DEFINE a == from(k) + 1
             b == end[k] - 1
  <2>1. a \in 1 .. m + 1 /\ b \in a - 1 .. m
    BY <1>1, <1>6, <1>10
  <2> HIDE DEF a, b
  <2>2. SubSeq(l, a, b) \in Seq(STRING)
    BY <2>1, WindowIs DEF m
  <2> QED
    BY <2>2 DEF a, b
<1> DEFINE q == from(n)
<1>13. Len(Pieces(l)) = n /\ DOMAIN Pieces(l) = 1 .. n /\ Pieces(l) \in Seq(Seq(STRING))
  <2> DEFINE S == Seq(STRING)
             e(k) == SubSeq(l, from(k) + 1, end[k] - 1)
  <2>1. \A k \in 1 .. n : e(k) \in S
    BY <1>12
  <2> HIDE DEF S, e
  <2>2. [k \in 1 .. n |-> e(k)] \in Seq(S)
    BY <1>4, <2>1
  <2>3. Len([k \in 1 .. n |-> e(k)]) = n /\ DOMAIN [k \in 1 .. n |-> e(k)] = 1 .. n
    BY <1>4
  <2> QED
    BY <1>11, <2>2, <2>3 DEF e, S
<1>14. Pieces(l)[n] = SubSeq(l, q + 1, m)
  <2>1. n \in 1 .. n /\ end[n] - 1 = m
    BY <1>1, <1>4, <1>9
  <2> QED
    BY <1>11, <2>1
<1>15. q \in 0 .. m /\ q \in Nat
  BY <1>1, <1>8, <1>10
<1>16. ASSUME NEW i \in q + 1 .. m, l[i] = Semicolon
       PROVE  FALSE
  <2>1. i \in 1 .. m /\ q < i /\ i < m + 1
    BY <1>1, <1>15
  <2>2. PICK k \in Place : end[k] = i
    BY <1>2, <1>7, <1>16, <2>1
  <2>3. k # n
    BY <1>1, <1>9, <2>1, <2>2
  <2>4. n # 1 /\ k <= n - 1
    BY <1>4, <1>6, <2>3
  <2>5. q = end[n - 1] /\ n - 1 \in Place
    BY <1>8, <2>4 DEF from
  <2>6. end[k] <= end[n - 1]
    <3>1. CASE k = n - 1
      BY <1>6, <2>5, <3>1
    <3>2. CASE k < n - 1
      BY <1>5, <1>6, <2>5, <3>2
    <3> QED
      BY <1>4, <1>6, <2>4, <3>1, <3>2
  <2> QED
    BY <1>6, <1>15, <2>1, <2>2, <2>5, <2>6
<1>17. q = 0 => n = 1
  <2>1. n # 1 => q \in ends
    BY <1>8, <1>10
  <2> QED
    BY <1>2, <1>15, <2>1
<1>18. q > 0 => l[q] = Semicolon
  <2>1. n = 1 => q = 0
    BY DEF from
  <2>2. n # 1 => q \in ends
    BY <1>8, <1>10
  <2> QED
    BY <1>1, <1>2, <1>15, <2>1, <2>2
<1> HIDE DEF q
<1> QED
  BY <1>4, <1>13, <1>14, <1>15, <1>16, <1>17, <1>18 DEF m

\* Each piece of l has a meaning whose number fits.
Meant(l) ==
    \A k \in DOMAIN Pieces(l) : \E o \in Meanings(Pieces(l)[k]) : o.quantity <= MaxSizeT

\* A piece that is meant is parsed for the one order it means.
LEMMA PieceMeant ==
    ASSUME NEW p \in Seq(STRING), \E o \in Meanings(p) : o.quantity <= MaxSizeT
    PROVE  ParseLine(p) \in Order /\ Meanings(p) = {ParseLine(p)}
BY PieceIs

LEMMA PieceNotMeant ==
    ASSUME NEW p \in Seq(STRING), ~ \E o \in Meanings(p) : o.quantity <= MaxSizeT
    PROVE  ParseLine(p) = NoOrder
BY PieceIs

\* Blanks mean nothing.
LEMMA BlanksMeanNothing ==
    ASSUME NEW p \in Seq(STRING), Blanks(p, 1, Len(p)), NEW o \in Meanings(p)
    PROVE  FALSE
<1>1. HasReading(p, o)
  BY MeaningsUnfolded, MeansReads
<1>2. PICK t \in DOMAIN Types, z \in DOMAIN Spelling, a \in 1 .. Len(p), c \in 1 .. Len(p),
           e \in 1 .. Len(p), f \in 1 .. Len(p) : Reads(p, t, z, a, c, e, f)
  BY <1>1 DEF HasReading
<1>3. \A i \in 1 .. Len(p) : i \in Int
  OBVIOUS
<1>4. p[a] # Blank
  BY <1>2, <1>3, ReadsText
<1> QED
  BY <1>4 DEF Blanks

LEMMA ParseUnfolded ==
    ASSUME NEW l
    PROVE  LET text == Trim(l)
               segments == Segments(l)
           IN  Parse(l) =
                   IF \/ text # <<>> /\ Last(text) = Semicolon
                      \/ \E k \in DOMAIN segments : ParseLine(segments[k]) = NoOrder
                   THEN <<>>
                   ELSE [k \in DOMAIN segments |-> ParseLine(segments[k])]
BY Zenon DEF Parse

LEMMA SegmentsUnfolded ==
    ASSUME NEW l
    PROVE  Segments(l) =
               IF Pieces(l)[Len(Pieces(l))] = <<>>
               THEN SubSeq(Pieces(l), 1, Len(Pieces(l)) - 1) ELSE Pieces(l)
BY Zenon DEF Segments, Last, Front

\* The last symbol of a text that is not all blanks.
LEMMA LastOfText ==
    ASSUME NEW l \in Seq(STRING), NEW i \in 1 .. Len(l), l[i] # Blank
    PROVE  \E d \in i .. Len(l) : /\ Trim(l) # <<>> /\ Last(Trim(l)) = l[d]
                                  /\ l[d] # Blank /\ Blanks(l, d + 1, Len(l))
<1>1. /\ Len(l) \in Nat /\ 1 \in 1 .. Len(l) + 1 /\ Len(l) \in 1 - 1 .. Len(l)
      /\ Trim(l) = Trim(SubSeq(l, 1, Len(l)))
  BY TrimWhole
<1>2. PICK c \in 1 .. Len(l), d \in 1 .. Len(l) : Trimmed(l, 1, Len(l), c, d)
  BY <1>1, TextExists
<1>3. c \in Int /\ d \in Int /\ i \in Int /\ 1 <= c /\ c <= d /\ d <= Len(l)
  BY <1>1, <1>2 DEF Trimmed
<1>4. Trim(l) = SubSeq(l, c, d)
  BY <1>1, <1>2, <1>3, TrimIs
<1>5. i <= d
  <2>1. ~(i \in d + 1 .. Len(l))
    BY <1>2 DEF Trimmed, Blanks
  <2> QED
    BY <1>1, <1>3, <2>1
<1> DEFINE w == SubSeq(l, c, d)
           n == d - c + 1
<1>6. w \in Seq(STRING) /\ Len(w) = n /\ w[n] = l[d] /\ n >= 1
  <2>1. c \in 1 .. Len(l) + 1 /\ d \in c - 1 .. Len(l) /\ n \in 1 .. d - c + 1 /\ c + n - 1 = d
    BY <1>1, <1>3
  <2>2. /\ w \in Seq(STRING) /\ Len(w) = d - c + 1
        /\ \A k \in 1 .. d - c + 1 : w[k] = l[c + k - 1]
    BY <2>1, WindowIs
  <2> HIDE DEF w
  <2>3. w[n] = l[c + n - 1]
    BY <2>1, <2>2
  <2> QED
    BY <2>1, <2>2, <2>3
<1>7. w # <<>> /\ Last(w) = l[d]
  <2> HIDE DEF w, n
  <2>1. Len(<<>>) = 0
    OBVIOUS
  <2> QED
    BY <1>6, <2>1 DEF Last
<1>8. d \in i .. Len(l)
  BY <1>1, <1>3, <1>5
<1> QED
  BY <1>2, <1>4, <1>7, <1>8 DEF Trimmed

\* parse accepts what is meant, for the orders that are meant, and nothing else.
LEMMA ParseIs ==
    ASSUME NEW l \in Seq(STRING)
    PROVE  /\ Parse(l) \in Seq(Order)
           /\ Parse(l) = <<>> <=> ~Meant(l)
           /\ Meant(l) => /\ Len(Parse(l)) = Len(Pieces(l))
                          /\ \A k \in DOMAIN Pieces(l) : Meanings(Pieces(l)[k]) = {Parse(l)[k]}
<1> DEFINE m == Len(l)
           ps == Pieces(l)
           segments == Segments(l)
           text == Trim(l)
<1>1. PICK n \in Nat, q \in 0 .. m :
          /\ n >= 1 /\ Len(ps) = n /\ DOMAIN ps = 1 .. n /\ ps \in Seq(Seq(STRING))
          /\ ps[n] = SubSeq(l, q + 1, m) /\ \A i \in q + 1 .. m : l[i] # Semicolon
          /\ q = 0 => n = 1
          /\ q > 0 => l[q] = Semicolon
  BY PiecesAre
<1>2. m \in Nat
  OBVIOUS
<1> HIDE DEF m, ps
<1>3. \A k \in 1 .. n : ps[k] \in Seq(STRING)
  BY <1>1
<1>4. q \in Int /\ 0 <= q /\ q <= m /\ q + 1 \in 1 .. m + 1 /\ m \in (q + 1) - 1 .. m
  BY <1>1, <1>2
<1>5. Len(ps[n]) = m - q
  <2>1. Len(SubSeq(l, q + 1, m)) = m - (q + 1) + 1
    BY <1>4, WindowIs DEF m
  <2> QED
    BY <1>1, <1>2, <1>4, <2>1
<1>6. segments = IF ps[n] = <<>> THEN SubSeq(ps, 1, n - 1) ELSE ps
  BY <1>1, SegmentsUnfolded DEF ps
<1>7. Parse(l) = IF \/ text # <<>> /\ Last(text) = Semicolon
                    \/ \E k \in DOMAIN segments : ParseLine(segments[k]) = NoOrder
                 THEN <<>>
                 ELSE [k \in DOMAIN segments |-> ParseLine(segments[k])]
  BY ParseUnfolded
<1> HIDE DEF segments, text
<1>8. CASE Meant(l)
  <2>1. \A k \in 1 .. n : /\ ParseLine(ps[k]) \in Order
                          /\ Meanings(ps[k]) = {ParseLine(ps[k])}
    BY <1>1, <1>3, <1>8, PieceMeant DEF Meant, ps
  <2>2. PICK i \in q + 1 .. m : l[i] # Blank
    <3>1. SUFFICES ASSUME Blanks(l, q + 1, m) PROVE FALSE
      BY DEF Blanks
    <3> DEFINE p == SubSeq(l, q + 1, m)
               k == m - (q + 1) + 1
    <3>2. /\ p \in Seq(STRING) /\ Len(p) = k /\ \A j \in 1 .. k : p[j] = l[q + 1 + j - 1]
      BY <1>4, WindowIs DEF m
    <3>3. \A j \in 1 .. k : q + 1 + j - 1 \in q + 1 .. m
      BY <1>2, <1>4
    <3> HIDE DEF p, k
    <3>4. Blanks(p, 1, Len(p))
      BY <3>1, <3>2, <3>3 DEF Blanks
    <3>5. n \in 1 .. n /\ p = ps[n]
      BY <1>1 DEF p
    <3>6. ParseLine(p) \in Meanings(p)
      BY <2>1, <3>5
    <3> QED
      BY <3>2, <3>4, <3>6, BlanksMeanNothing
  <2>3. ~(text # <<>> /\ Last(text) = Semicolon)
    <3>1. i \in 1 .. m
      BY <1>2, <1>4
    <3>2. PICK d \in i .. m : Last(text) = l[d]
      BY <2>2, <3>1, LastOfText DEF m, text
    <3>3. d \in q + 1 .. m
      BY <1>2, <1>4
    <3> QED
      BY <1>1, <3>2, <3>3
  <2>4. segments = ps
    <3>1. m - q # 0
      BY <1>2, <1>4, <2>2
    <3>2. Len(<<>>) = 0
      OBVIOUS
    <3> QED
      BY <1>5, <1>6, <3>1, <3>2
  <2>5. \A k \in 1 .. n : ParseLine(ps[k]) # NoOrder
    BY <2>1, NoOrderIs
  <2>6. Parse(l) = [k \in 1 .. n |-> ParseLine(ps[k])]
    BY <1>1, <1>7, <2>3, <2>4, <2>5
  <2>7. Parse(l) \in Seq(Order) /\ Len(Parse(l)) = n /\ Parse(l) # <<>>
    <3> DEFINE e(k) == ParseLine(ps[k])
               s == [k \in 1 .. n |-> e(k)]
    <3>1. \A k \in 1 .. n : e(k) \in Order
      BY <2>1
    <3> HIDE DEF e
    <3>2. s \in Seq(Order) /\ Len(s) = n
      BY <1>1, <3>1
    <3>3. Len(<<>>) = 0
      OBVIOUS
    <3>4. s # <<>>
      BY <1>1, <3>2, <3>3
    <3> QED
      BY <2>6, <3>2, <3>4 DEF e
  <2>8. \A k \in 1 .. n : Meanings(ps[k]) = {Parse(l)[k]}
    BY <2>1, <2>6
  <2> QED
    BY <1>1, <1>8, <2>7, <2>8 DEF ps
<1>9. CASE ~Meant(l)
  <2>1. PICK k \in 1 .. n : ParseLine(ps[k]) = NoOrder
    BY <1>1, <1>3, <1>9, PieceNotMeant DEF Meant, ps
  <2>2. Parse(l) = <<>>
    <3>1. CASE ps[n] # <<>>
      BY <1>1, <1>6, <1>7, <2>1, <3>1
    <3>2. CASE ps[n] = <<>>
      <4>1. q = m
        <5>1. Len(<<>>) = 0
          OBVIOUS
        <5> QED
          BY <1>2, <1>4, <1>5, <3>2, <5>1
      <4>2. CASE q = 0
        <5>1. segments = SubSeq(ps, 1, 0)
          <6>1. n = 1 /\ 1 - 1 = 0
            BY <1>1, <4>2
          <6>2. segments = SubSeq(ps, 1, 1 - 1)
            BY <1>6, <3>2, <6>1, Zenon
          <6> QED
            BY <6>1, <6>2, Zenon
        <5>2. segments = <<>>
          BY <5>1, SubSeqEmpty
        <5>3. DOMAIN segments = {}
          BY <5>2
        <5>4. [j \in {} |-> ParseLine(segments[j])] = <<>>
          OBVIOUS
        <5> QED
          BY <1>7, <5>3, <5>4
      <4>3. CASE q > 0
        <5>1. m \in 1 .. m /\ l[m] = Semicolon
          BY <1>1, <1>2, <4>1, <4>3
        <5>2. l[m] # Blank
          BY <5>1, Zenon DEF Blank, Semicolon
        <5>3. PICK d \in m .. m : text # <<>> /\ Last(text) = l[d]
          BY <5>1, <5>2, LastOfText DEF m, text
        <5>4. d = m
          BY <1>2
        <5> QED
          BY <1>7, <5>1, <5>3, <5>4
      <4> QED
        BY <1>4, <4>2, <4>3
    <3> QED
      BY <3>1, <3>2
  <2>3. <<>> \in Seq(Order)
    OBVIOUS
  <2> QED
    BY <1>9, <2>2, <2>3
<1> QED
  BY <1>8, <1>9

-----------------------------------------------------------------------------
(* The pizzas of all orders, one after the other.                              *)

PizzaOf(o) == [type |-> o.type, size |-> o.size, needs |-> Recipe[o.type]]
Pizza == {[type |-> t, size |-> z, needs |-> Recipe[t]] :
              t \in DOMAIN Recipe, z \in DOMAIN Spelling}

\* The pizzas before an order.
Before(os) == CHOOSE s : Sums(os, s)

LEMMA BeforeIs ==
    ASSUME NEW os \in Seq(Order)
    PROVE  Sums(os, Before(os))
BY SumsExist DEF Before

LEMMA PizzaOfIs ==
    ASSUME NEW o \in Order
    PROVE  PizzaOf(o) \in Pizza
<1>1. o.type \in DOMAIN Recipe /\ o.size \in DOMAIN Spelling
  BY DEF Order
<1> QED
  BY <1>1 DEF PizzaOf, Pizza

LEMMA AllPizzasAre ==
    ASSUME orders \in Seq(Order)
    PROVE  LET n == Len(orders)
               B == Before(orders)
           IN  /\ AllPizzas \in Seq(Pizza) /\ Len(AllPizzas) = B[n]
               /\ \A k \in 1 .. n : \A i \in 1 .. orders[k].quantity :
                    /\ B[k - 1] + i \in 1 .. B[n]
                    /\ AllPizzas[B[k - 1] + i] = PizzaOf(orders[k])
<1> DEFINE n == Len(orders)
           B == Before(orders)
           part(k) == [i \in 1 .. orders[k].quantity |-> PizzaOf(orders[k])]
           all == [k \in DOMAIN orders |->
                     [i \in 1 .. orders[k].quantity |->
                        [type |-> orders[k].type, size |-> orders[k].size,
                         needs |-> Recipe[orders[k].type]]]]
           flatten[i \in 1 .. Len(all)] == IF i = 1 THEN all[i] ELSE flatten[i - 1] \o all[i]
           S == Seq(Pizza)
           step == [x \in (1 .. n) \X S |-> x[2] \o part(x[1])]
<1> HIDE DEF n, flatten, step, S
<1>1. /\ n \in Nat /\ DOMAIN orders = 1 .. n
      /\ \A k \in 1 .. n : orders[k] \in Order /\ orders[k].quantity \in Nat
                           /\ orders[k].quantity >= 1
  BY OrdersAre DEF n
<1>2. \A k \in 1 .. n : PizzaOf(orders[k]) \in Pizza
  BY <1>1, PizzaOfIs
<1>3. \A k \in 1 .. n : /\ part(k) \in S /\ Len(part(k)) = orders[k].quantity
                        /\ \A i \in 1 .. orders[k].quantity : part(k)[i] = PizzaOf(orders[k])
  <2> SUFFICES ASSUME NEW k \in 1 .. n
               PROVE  /\ part(k) \in S /\ Len(part(k)) = orders[k].quantity
                      /\ \A i \in 1 .. orders[k].quantity : part(k)[i] = PizzaOf(orders[k])
    OBVIOUS
  <2> DEFINE q == orders[k].quantity
             o == PizzaOf(orders[k])
             s == [i \in 1 .. q |-> o]
  <2>1. q \in Nat /\ o \in Pizza
    BY <1>1, <1>2
  <2> HIDE DEF q, o
  <2>2. s \in Seq(Pizza) /\ Len(s) = q /\ \A i \in 1 .. q : s[i] = o
    BY <2>1
  <2> QED
    BY <2>2 DEF q, o, S
<1>4. all = [k \in 1 .. n |-> part(k)]
  BY <1>1 DEF PizzaOf
<1> HIDE DEF all, part
<1>5. Len(all) = n
  BY <1>1, <1>4
<1>6. AllPizzas = IF n = 0 THEN all ELSE flatten[n]
  <2>1. AllPizzas = IF Len(all) = 0 THEN all ELSE flatten[Len(all)]
    BY DEF AllPizzas, FlattenSeq, all, flatten
  <2> QED
    BY <1>5, <2>1
<1>7. \E f \in [0 .. n -> S] : Recurs(f, <<>>, n, step)
  <2>1. \A s \in S, t \in S : s \o t \in S
    BY DEF S
  <2>2. step \in [(1 .. n) \X S -> S]
    BY <1>3, <2>1 DEF step
  <2>3. <<>> \in S
    BY DEF S
  <2> QED
    BY <1>1, <2>2, <2>3, RecursionExists, Zenon
<1>8. PICK f \in [0 .. n -> S] : f[0] = <<>> /\ \A i \in 1 .. n : f[i] = f[i - 1] \o part(i)
  <2>1. \A i \in 1 .. n, x \in S : step[<<i, x>>] = x \o part(i)
    BY DEF step
  <2>2. PICK f \in [0 .. n -> S] : Recurs(f, <<>>, n, step)
    BY <1>7
  <2>3. \A i \in 1 .. n : f[i - 1] \in S
    <3>1. \A i \in 1 .. n : i - 1 \in 0 .. n
      BY <1>1
    <3> QED
      BY <2>2, <3>1
  <2> QED
    BY <2>1, <2>2, <2>3 DEF Recurs
<1>9. \A i \in 1 .. n : i \in 0 .. n /\ i - 1 \in 0 .. n /\ (i # 1 => i - 1 \in 1 .. n)
  BY <1>1
<1>10. \A i \in 0 .. n : f[i] \in S
  BY <1>8
<1>11. f[1 - 1] = <<>> /\ \A k \in 1 .. n : <<>> \o part(k) = part(k)
  <2>1. f[1 - 1] = <<>>
    BY <1>8
  <2>2. \A s \in S : <<>> \o s = s
    BY DEF S
  <2> QED
    BY <1>3, <2>1, <2>2
<1>12. \A k \in 1 .. n : all[k] = part(k)
  BY <1>4
<1>13. flatten = [i \in 1 .. n |-> IF i = 1 THEN all[i] ELSE flatten[i - 1] \o all[i]]
  <2> DEFINE g == [i \in 1 .. n |-> f[i]]
  <2>1. ASSUME NEW i \in 1 .. n
        PROVE  g[i] = IF i = 1 THEN all[i] ELSE g[i - 1] \o all[i]
    <3>1. CASE i = 1
      <4>1. f[i] = f[1 - 1] \o part(i)
        BY <1>8, <3>1
      <4> QED
        BY <1>11, <1>12, <3>1, <4>1
    <3>2. CASE i # 1
      <4>1. g[i - 1] = f[i - 1] /\ f[i] = f[i - 1] \o part(i)
        BY <1>8, <1>9, <3>2
      <4> QED
        BY <1>12, <3>2, <4>1
    <3> QED
      BY <3>1, <3>2
  <2>2. g = [i \in 1 .. n |-> IF i = 1 THEN all[i] ELSE g[i - 1] \o all[i]]
    <3>1. g = [i \in 1 .. n |-> g[i]]
      OBVIOUS
    <3> HIDE DEF g
    <3> QED
      BY <2>1, <3>1
  <2>3. \E h : h = [i \in 1 .. Len(all) |-> IF i = 1 THEN all[i] ELSE h[i - 1] \o all[i]]
    <3> HIDE DEF g
    <3> QED
      BY <1>5, <2>2
  <2>4. flatten = CHOOSE h :
            h = [i \in 1 .. Len(all) |-> IF i = 1 THEN all[i] ELSE h[i - 1] \o all[i]]
    BY DEF flatten
  <2>5. flatten = [i \in 1 .. Len(all) |-> IF i = 1 THEN all[i] ELSE flatten[i - 1] \o all[i]]
    <3> HIDE DEF g
    <3> QED
      BY <2>3, <2>4, Zenon
  <2> QED
    BY <1>5, <2>5
<1>14. \A i \in 1 .. n : flatten[i] = f[i]
  <2> DEFINE T == {i \in 0 .. n : i # 0 => flatten[i] = f[i]}
  <2>1. 0 \in T
    BY <1>1
  <2>2. ASSUME NEW i \in 1 .. n, i - 1 \in T
        PROVE  i \in T
    <3>1. flatten[i] = IF i = 1 THEN all[i] ELSE flatten[i - 1] \o all[i]
      BY <1>13
    <3>2. CASE i = 1
      <4>1. f[i] = f[1 - 1] \o part(i)
        BY <1>8, <3>2
      <4> QED
        BY <1>9, <1>11, <1>12, <3>1, <3>2, <4>1
    <3>3. CASE i # 1
      <4>1. i - 1 # 0
        BY <1>1, <3>3
      <4>2. flatten[i - 1] = f[i - 1]
        BY <2>2, <4>1
      <4> QED
        BY <1>8, <1>9, <1>12, <3>1, <3>3, <4>2
    <3> QED
      BY <3>2, <3>3
  <2> HIDE DEF T
  <2>3. \A i \in 0 .. n : i \in T
    BY <1>1, <2>1, <2>2, CountUp
  <2>4. \A i \in 1 .. n : i # 0
    BY <1>1
  <2> QED
    BY <1>9, <2>3, <2>4 DEF T
<1>15. /\ B \in [0 .. n -> Nat] /\ B[0] = 0
       /\ \A i \in 1 .. n : B[i] = B[i - 1] + orders[i].quantity
  BY BeforeIs DEF Sums, n
<1> HIDE DEF B
<1> DEFINE Good(j) == /\ Len(f[j]) = B[j]
                      /\ \A k \in 1 .. j : \A i \in 1 .. orders[k].quantity :
                            /\ B[k - 1] + i \in 1 .. B[j]
                            /\ f[j][B[k - 1] + i] = PizzaOf(orders[k])
           T == {j \in 0 .. n : Good(j)}
<1>16. 0 \in T
  <2>1. Len(<<>>) = 0 /\ \A k \in 1 .. 0 : FALSE
    OBVIOUS
  <2> QED
    BY <1>1, <1>8, <1>15, <2>1
<1>17. ASSUME NEW j \in 1 .. n, j - 1 \in T
       PROVE  j \in T
  <2> DEFINE a == f[j - 1]
             b == part(j)
             q == orders[j].quantity
  <2>1. /\ j \in Int /\ 1 <= j /\ j <= n
        /\ a \in S /\ b \in S /\ f[j] = a \o b /\ B[j - 1] \in Nat /\ B[j] = B[j - 1] + q
        /\ q \in Nat /\ Len(b) = q /\ \A i \in 1 .. q : b[i] = PizzaOf(orders[j])
    <3>1. j - 1 \in 0 .. n /\ j \in Int /\ 1 <= j /\ j <= n
      BY <1>1, <1>9
    <3>2. a \in S /\ f[j] = a \o b
      BY <1>8, <1>10, <3>1
    <3>3. B[j - 1] \in Nat /\ B[j] = B[j - 1] + q
      BY <1>15, <3>1
    <3>4. b \in S /\ Len(b) = q /\ \A i \in 1 .. q : b[i] = PizzaOf(orders[j])
      BY <1>3
    <3>5. q \in Nat
      BY <1>1
    <3> HIDE DEF a, b, q
    <3> QED
      BY <3>1, <3>2, <3>3, <3>4, <3>5
  <2>2. /\ Len(a) = B[j - 1]
        /\ \A k \in 1 .. j - 1 : \A i \in 1 .. orders[k].quantity :
                            /\ B[k - 1] + i \in 1 .. B[j - 1]
                            /\ a[B[k - 1] + i] = PizzaOf(orders[k])
    BY <1>17
  <2> HIDE DEF a, b, q
  <2> DEFINE c == a \o b
  <2>3. /\ Len(c) = B[j - 1] + q
        /\ \A i \in 1 .. B[j - 1] : c[i] = a[i]
        /\ \A i \in 1 .. q : c[B[j - 1] + i] = b[i]
    <3>1. /\ Len(c) = Len(a) + Len(b)
          /\ \A i \in 1 .. Len(a) : c[i] = a[i]
          /\ \A i \in 1 .. Len(b) : c[Len(a) + i] = b[i]
      <4>1. a \in Seq(Pizza) /\ b \in Seq(Pizza)
        BY <2>1 DEF S
      <4> QED
        BY <4>1, ConcatProperties
    <3> HIDE DEF c
    <3> QED
      BY <2>1, <2>2, <3>1
  <2> HIDE DEF c
  <2>4. Len(f[j]) = B[j]
    BY <2>1, <2>3 DEF c
  <2>5. ASSUME NEW k \in 1 .. j, NEW i \in 1 .. orders[k].quantity
        PROVE  /\ B[k - 1] + i \in 1 .. B[j]
               /\ f[j][B[k - 1] + i] = PizzaOf(orders[k])
    <3>1. CASE k = j
      <4>1. i \in 1 .. q /\ i \in Int /\ 1 <= i /\ i <= q
        BY <2>1, <2>5, <3>1 DEF q
      <4>2. B[j - 1] + i \in 1 .. B[j]
        BY <2>1, <4>1
      <4>3. f[j][B[j - 1] + i] = PizzaOf(orders[j])
        BY <2>1, <2>3, <4>1 DEF c
      <4> QED
        BY <3>1, <4>2, <4>3
    <3>2. CASE k # j
      <4>1. k \in 1 .. j - 1
        BY <2>1, <3>2
      <4>2. /\ B[k - 1] + i \in 1 .. B[j - 1]
            /\ a[B[k - 1] + i] = PizzaOf(orders[k])
        BY <2>2, <4>1
      <4> DEFINE x == B[k - 1] + i
      <4> HIDE DEF x
      <4>3. x \in 1 .. B[j - 1] /\ x \in 1 .. B[j]
        BY <2>1, <4>2 DEF x
      <4>4. f[j][x] = a[x]
        BY <2>1, <2>3, <4>3 DEF c
      <4> QED
        BY <4>2, <4>3, <4>4 DEF x
    <3> QED
      BY <3>1, <3>2
  <2>6. Good(j)
    BY <2>4, <2>5
  <2> HIDE DEF Good
  <2> QED
    BY <1>9, <2>6
<1> HIDE DEF T
<1>18. \A j \in 0 .. n : j \in T
  BY <1>1, <1>16, <1>17, CountUp
<1>19. Good(n)
  <2>1. n \in 0 .. n
    BY <1>1
  <2> QED
    BY <1>18, <2>1 DEF T
<1>20. AllPizzas = f[n]
  <2>1. CASE n = 0
    <3>1. all = <<>>
      BY <1>4, <2>1
    <3> QED
      BY <1>6, <1>8, <2>1, <3>1
  <2>2. CASE n # 0
    <3>1. n \in 1 .. n
      BY <1>1, <2>2
    <3> QED
      BY <1>6, <1>14, <2>2, <3>1
  <2> QED
    BY <2>1, <2>2
<1>21. f[n] \in S
  <2>1. n \in 0 .. n
    BY <1>1
  <2> QED
    BY <1>10, <2>1
<1> QED
  BY <1>19, <1>20, <1>21 DEF n, B, S

\* A pizza is the same behind the queue and the factory.
LEMMA PackedIs ==
    ASSUME NEW t \in DOMAIN Recipe, NEW z \in DOMAIN Spelling
    PROVE  Create(Unpack(Pack(t, z))) = {[type |-> t, size |-> z, needs |-> Recipe[t]]}
<1>1. DOMAIN Recipe = {"Margarita", "Regina", "Americana", "Fantasia"}
  BY Zenon DEF Recipe
<1>2. DOMAIN TypeCode = {"Regina", "Margarita", "Americana", "Fantasia"}
      /\ TypeCode["Regina"] = 1 /\ TypeCode["Margarita"] = 2
      /\ TypeCode["Americana"] = 4 /\ TypeCode["Fantasia"] = 8
  BY DEF TypeCode
<1>3. DOMAIN SizeCode = {"S", "M", "L", "XL", "XXL"}
      /\ SizeCode["S"] = 1 /\ SizeCode["M"] = 2 /\ SizeCode["L"] = 4
      /\ SizeCode["XL"] = 8 /\ SizeCode["XXL"] = 16
  BY DEF SizeCode
<1>4. z \in {"S", "M", "L", "XL", "XXL"}
  BY DEF Spelling
<1>5. \A u \in DOMAIN TypeCode : TypeCode[u] = TypeCode[t] <=> u = t
  BY <1>1, <1>2
<1>6. \A y \in DOMAIN SizeCode : SizeCode[y] = SizeCode[z] <=> y = z
  BY <1>3, <1>4
<1>7. t \in DOMAIN TypeCode /\ z \in DOMAIN SizeCode
  BY <1>1, <1>2, <1>3, <1>4
<1> DEFINE u == Unpack(Pack(t, z))
<1>8. /\ u.type = {x \in DOMAIN TypeCode : TypeCode[x] = TypeCode[t]}
      /\ u.size = {x \in DOMAIN SizeCode : SizeCode[x] = SizeCode[z]}
  BY DEF Unpack, Pack
<1> HIDE DEF u
<1>9. u.type = {t} /\ u.size = {z}
  BY <1>5, <1>6, <1>7, <1>8
<1>10. u.type \cap DOMAIN Recipe = {t}
  BY <1>9
<1> DEFINE A == u.type \cap DOMAIN Recipe
           C == u.size
<1>11. Create(u) = {[type |-> x, size |-> y, needs |-> Recipe[x]] : x \in A, y \in C}
  BY DEF Create
<1> HIDE DEF A, C
<1>12. A = {t} /\ C = {z}
  BY <1>9, <1>10 DEF A, C
<1> QED
  BY <1>11, <1>12 DEF u

-----------------------------------------------------------------------------
(* The inductive invariant.                                                    *)

LineInvariant ==
    /\ line \in Seq(STRING)
    /\ pc \in {"typed", "rejected", "parsed", "dispatch", "sent"}
    /\ pc \in {"typed", "rejected"} => orders = <<>>
    /\ pc = "rejected" => Parse(line) = <<>>
    /\ pc \notin {"typed", "rejected"} => orders = Parse(line) /\ orders # <<>>

\* Nothing is noted, sent or made before the orders are.
StartInvariant ==
    pc \in {"typed", "rejected", "parsed"} =>
        noted = 0 /\ at = <<1, 1>> /\ wire = <<>> /\ made = <<>>

NotedInvariant ==
    pc \in {"dispatch", "sent"} => noted = IF Total > 0 THEN Total ELSE 0

\* The pizza that dispatch sends next.
AtInvariant ==
    pc \in {"dispatch", "sent"} =>
        /\ at[1] \in 1 .. Len(orders) + 1 /\ at[2] \in Nat /\ at[2] >= 1
        /\ at[1] = Len(orders) + 1 => at[2] = 1
        /\ at[1] # Len(orders) + 1 => at[2] <= orders[at[1]].quantity
        /\ pc = "sent" => at[1] = Len(orders) + 1

Sent == Before(orders)[at[1] - 1] + at[2] - 1

\* What is made, and behind it what is on the wire, are the first of all pizzas.
WireInvariant ==
    pc \in {"dispatch", "sent"} =>
        /\ wire \in Seq(Nat \X Nat) /\ made \in Seq(SUBSET Pizza)
        /\ Len(made) + Len(wire) = Sent
        /\ \A i \in 1 .. Len(made) : made[i] = {AllPizzas[i]}
        /\ \A i \in 1 .. Len(wire) :
              wire[i] = Pack(AllPizzas[Len(made) + i].type, AllPizzas[Len(made) + i].size)

OrdersInvariant ==
    LineInvariant /\ StartInvariant /\ NotedInvariant /\ AtInvariant /\ WireInvariant

LEMMA OrdersTyped ==
    ASSUME LineInvariant
    PROVE  orders \in Seq(Order)
<1>1. Parse(line) \in Seq(Order)
  BY ParseIs DEF LineInvariant
<1>2. <<>> \in Seq(Order)
  OBVIOUS
<1> QED
  BY <1>1, <1>2 DEF LineInvariant

\* The pizza that is next, by its place among all of them.
LEMMA SentIs ==
    ASSUME orders \in Seq(Order), at[1] \in 1 .. Len(orders) + 1, at[2] \in Nat, at[2] >= 1,
           at[1] = Len(orders) + 1 => at[2] = 1,
           at[1] # Len(orders) + 1 => at[2] <= orders[at[1]].quantity
    PROVE  /\ Sent \in Nat /\ Sent <= Len(AllPizzas) /\ Len(AllPizzas) \in Nat
           /\ AllPizzas \in Seq(Pizza)
           /\ at[1] = Len(orders) + 1 => Sent = Len(AllPizzas)
           /\ at[1] # Len(orders) + 1 =>
                /\ Sent + 1 \in 1 .. Len(AllPizzas)
                /\ AllPizzas[Sent + 1] = PizzaOf(orders[at[1]])
<1> DEFINE n == Len(orders)
           B == Before(orders)
           k == at[1]
           i == at[2]
<1>1. /\ AllPizzas \in Seq(Pizza) /\ Len(AllPizzas) = B[n]
      /\ \A j \in 1 .. n : \A h \in 1 .. orders[j].quantity :
            B[j - 1] + h \in 1 .. B[n] /\ AllPizzas[B[j - 1] + h] = PizzaOf(orders[j])
  BY AllPizzasAre
<1>2. B \in [0 .. n -> Nat]
  BY BeforeIs DEF Sums
<1>3. n \in Nat /\ \A j \in 1 .. n : orders[j].quantity \in Nat
  BY OrdersAre
<1> HIDE DEF n, B
<1>4. k \in 1 .. n + 1 /\ i \in Nat /\ i >= 1 /\ (k = n + 1 => i = 1)
      /\ (k # n + 1 => i <= orders[k].quantity) /\ Sent = B[k - 1] + i - 1
  BY DEF n, B, Sent
<1> HIDE DEF k, i
<1>5. k - 1 \in 0 .. n /\ n \in 0 .. n /\ B[k - 1] \in Nat /\ B[n] \in Nat
  <2>1. k - 1 \in 0 .. n /\ n \in 0 .. n
    BY <1>3, <1>4
  <2> QED
    BY <1>2, <2>1
<1>6. CASE k = n + 1
  <2>1. k - 1 = n
    BY <1>3, <1>6
  <2>2. Sent = B[n]
    BY <1>4, <1>5, <1>6, <2>1
  <2> QED
    BY <1>1, <1>5, <1>6, <2>2 DEF n, k
<1>7. CASE k # n + 1
  <2>1. k \in 1 .. n
    BY <1>3, <1>4, <1>7
  <2>2. i \in 1 .. orders[k].quantity
    BY <1>3, <1>4, <1>7, <2>1
  <2>3. B[k - 1] + i \in 1 .. B[n] /\ AllPizzas[B[k - 1] + i] = PizzaOf(orders[k])
    BY <1>1, <2>1, <2>2
  <2>4. Sent + 1 = B[k - 1] + i /\ Sent \in Nat
    <3> DEFINE b == B[k - 1]
    <3>1. b \in Nat /\ i \in Nat /\ i >= 1 /\ Sent = b + i - 1
      BY <1>4, <1>5
    <3> HIDE DEF b
    <3>2. Sent + 1 = b + i /\ Sent \in Nat
      BY <3>1
    <3> QED
      BY <3>2 DEF b
  <2>5. Sent <= B[n]
    BY <1>5, <2>3, <2>4
  <2> QED
    BY <1>1, <1>5, <1>7, <2>3, <2>4, <2>5 DEF n, k
<1> QED
  BY <1>6, <1>7

\* Each turn of dispatch moves on by one pizza.
LEMMA SentMoves ==
    ASSUME orders \in Seq(Order), at[1] \in 1 .. Len(orders), at[2] \in Nat, at[2] >= 1,
           at[2] <= orders[at[1]].quantity, orders' = orders,
           at' = IF at[2] < orders[at[1]].quantity THEN <<at[1], at[2] + 1>> ELSE <<at[1] + 1, 1>>
    PROVE  /\ Sent' = Sent + 1
           /\ at'[1] \in 1 .. Len(orders) + 1 /\ at'[2] \in Nat /\ at'[2] >= 1
           /\ at'[1] = Len(orders) + 1 => at'[2] = 1
           /\ at'[1] # Len(orders) + 1 => at'[2] <= orders[at'[1]].quantity
<1> DEFINE n == Len(orders)
           B == Before(orders)
           k == at[1]
           i == at[2]
           q == orders[at[1]].quantity
<1>1. n \in Nat /\ \A j \in 1 .. n : orders[j].quantity \in Nat /\ orders[j].quantity >= 1
  BY OrdersAre
<1>2. B \in [0 .. n -> Nat] /\ \A j \in 1 .. n : B[j] = B[j - 1] + orders[j].quantity
  BY BeforeIs DEF Sums
<1>3. Before(orders') = B /\ Len(orders') = n
  OBVIOUS
<1>4. Sent = B[k - 1] + i - 1 /\ Sent' = B[at'[1] - 1] + at'[2] - 1
  BY <1>3 DEF Sent
<1> HIDE DEF n, B
<1>5. /\ k \in Int /\ 1 <= k /\ k <= n /\ k \in 1 .. n /\ k - 1 \in 0 .. n
      /\ i \in Nat /\ i >= 1 /\ i <= q /\ q \in Nat
      /\ at' = IF i < q THEN <<k, i + 1>> ELSE <<k + 1, 1>>
  BY <1>1 DEF n
<1>6. B[k - 1] \in Nat /\ B[k] = B[k - 1] + q
  BY <1>2, <1>5
<1>7. CASE i < q
  <2>1. at'[1] = k /\ at'[2] = i + 1
    BY <1>5, <1>7
  <2> HIDE DEF k, i, q
  <2>2. B[at'[1] - 1] + at'[2] - 1 = B[k - 1] + i - 1 + 1
    <3> DEFINE b == B[k - 1]
    <3>1. b \in Nat /\ i \in Nat /\ B[at'[1] - 1] = b
      BY <1>5, <1>6, <2>1
    <3> HIDE DEF b
    <3>2. B[at'[1] - 1] + at'[2] - 1 = b + (i + 1) - 1
      BY <2>1, <3>1, Zenon
    <3>3. b + (i + 1) - 1 = b + i - 1 + 1
      BY <3>1
    <3> QED
      BY <3>2, <3>3, Zenon DEF b
  <2>3. k # n + 1 /\ i + 1 <= q /\ k \in 1 .. n + 1
    BY <1>1, <1>5, <1>7
  <2>4. orders[at'[1]].quantity = q
    BY <2>1 DEF q, k
  <2> QED
    <3>1. at'[2] \in Nat /\ at'[2] >= 1 /\ at'[2] <= q
      BY <1>5, <2>1, <2>3
    <3>2. Sent' = Sent + 1
      BY <1>4, <2>2
    <3> QED
      BY <2>1, <2>3, <2>4, <3>1, <3>2 DEF n
<1>8. CASE ~(i < q)
  <2>1. at'[1] = k + 1 /\ at'[2] = 1
    BY <1>5, <1>8
  <2> HIDE DEF k, i, q
  <2>2. i = q /\ k + 1 - 1 = k
    BY <1>5, <1>8
  <2>3. B[at'[1] - 1] + at'[2] - 1 = B[k - 1] + i - 1 + 1
    <3> DEFINE b == B[k - 1]
    <3>1. b \in Nat /\ i \in Nat /\ q = i /\ B[k] = b + q /\ at'[1] - 1 = k
      BY <1>5, <1>6, <2>1, <2>2
    <3> HIDE DEF b
    <3>2. B[at'[1] - 1] + at'[2] - 1 = b + i + 1 - 1
      BY <2>1, <3>1, Zenon
    <3>3. b + i + 1 - 1 = b + i - 1 + 1
      BY <3>1
    <3> QED
      BY <3>2, <3>3, Zenon DEF b
  <2>4. k + 1 \in 1 .. n + 1 /\ (k + 1 # n + 1 => k + 1 \in 1 .. n)
    BY <1>1, <1>5
  <2>5. k + 1 # n + 1 => 1 <= orders[k + 1].quantity
    BY <1>1, <2>4
  <2> QED
    BY <1>4, <2>1, <2>3, <2>4, <2>5 DEF n
<1> QED
  BY <1>7, <1>8

-----------------------------------------------------------------------------
LEMMA InvariantInit == OrdersInit => OrdersInvariant
<1> SUFFICES ASSUME OrdersInit
             PROVE  OrdersInvariant
  OBVIOUS
<1>1. line \in Seq(STRING)
  BY OrdersAssumption DEF OrdersInit
<1> QED
  BY <1>1 DEF OrdersInit, OrdersInvariant, LineInvariant, StartInvariant, NotedInvariant,
              AtInvariant, WireInvariant

\* The invariants of dispatch stay as they are while it waits.
LEMMA UnchangedKeeps ==
    ASSUME OrdersInvariant, UNCHANGED vars
    PROVE  OrdersInvariant'
<1>1. AllPizzas' = AllPizzas
  BY DEF AllPizzas, vars
<1>2. Sent' = Sent
  BY DEF Sent, vars
<1>3. Total' = Total
  BY DEF Total, vars
<1> QED
  BY <1>1, <1>2, <1>3
     DEF vars, OrdersInvariant, LineInvariant, StartInvariant, NotedInvariant,
         AtInvariant, WireInvariant

LEMMA AcceptLineKeeps ==
    ASSUME OrdersInvariant, AcceptLine
    PROVE  OrdersInvariant'
<1>1. LineInvariant'
  BY DEF OrdersInvariant, LineInvariant, AcceptLine
<1>2. StartInvariant'
  BY DEF OrdersInvariant, StartInvariant, AcceptLine
<1>3. pc' = "parsed"
  BY DEF AcceptLine
<1> QED
  BY <1>1, <1>2, <1>3 DEF OrdersInvariant, NotedInvariant, AtInvariant, WireInvariant

LEMMA RejectLineKeeps ==
    ASSUME OrdersInvariant, RejectLine
    PROVE  OrdersInvariant'
<1>1. LineInvariant'
  BY DEF OrdersInvariant, LineInvariant, RejectLine
<1>2. StartInvariant'
  BY DEF OrdersInvariant, StartInvariant, RejectLine
<1>3. pc' = "rejected"
  BY DEF RejectLine
<1> QED
  BY <1>1, <1>2, <1>3 DEF OrdersInvariant, NotedInvariant, AtInvariant, WireInvariant

LEMMA NoteOrderKeeps ==
    ASSUME OrdersInvariant, NoteOrder
    PROVE  OrdersInvariant'
<1> DEFINE n == Len(orders)
<1>1. /\ pc = "parsed" /\ pc' = "dispatch" /\ noted' = IF Total > 0 THEN Total ELSE 0
      /\ line' = line /\ orders' = orders /\ at' = <<1, 1>> /\ wire' = <<>> /\ made' = <<>>
      /\ orders # <<>>
  BY DEF NoteOrder, OrdersInvariant, LineInvariant, StartInvariant
<1>2. LineInvariant'
  BY <1>1 DEF OrdersInvariant, LineInvariant
<1>3. StartInvariant'
  BY <1>1 DEF StartInvariant
<1>4. NotedInvariant'
  <2>1. Total' = Total
    BY <1>1 DEF Total
  <2> QED
    BY <1>1, <2>1 DEF NotedInvariant
<1>5. orders \in Seq(Order)
  BY OrdersTyped DEF OrdersInvariant
<1>6. n \in Nat /\ n >= 1 /\ \A k \in 1 .. n : orders[k].quantity \in Nat /\ orders[k].quantity >= 1
  <2>1. n \in Nat /\ \A k \in 1 .. n : orders[k].quantity \in Nat /\ orders[k].quantity >= 1
    BY <1>5, OrdersAre
  <2>2. n # 0
    BY <1>1, <1>5
  <2> QED
    BY <2>1, <2>2
<1>7. at'[1] = 1 /\ at'[2] = 1 /\ Len(orders') = n
  BY <1>1
<1> HIDE DEF n
<1>8. AtInvariant'
  <2>1. 1 \in 1 .. n /\ 1 \in 1 .. n + 1 /\ 1 # n + 1
    BY <1>6
  <2>2. orders'[at'[1]].quantity >= 1 /\ 1 <= orders'[at'[1]].quantity
    BY <1>1, <1>6, <1>7, <2>1
  <2> QED
    BY <1>1, <1>7, <2>1, <2>2 DEF AtInvariant
<1>9. WireInvariant'
  <2>1. Before(orders)[0] = 0
    BY <1>5, BeforeIs DEF Sums
  <2>2. Sent' = 0
    BY <1>1, <1>7, <2>1 DEF Sent
  <2>3. Len(wire') = 0 /\ Len(made') = 0
    BY <1>1
  <2>4. <<>> \in Seq(Nat \X Nat) /\ <<>> \in Seq(SUBSET Pizza)
    OBVIOUS
  <2> QED
    BY <1>1, <2>2, <2>3, <2>4 DEF WireInvariant
<1> QED
  BY <1>2, <1>3, <1>4, <1>8, <1>9 DEF OrdersInvariant

\* What dispatch puts on the wire, and what the factory makes of it.
LEMMA PackIs ==
    ASSUME NEW x \in Pizza
    PROVE  Pack(x.type, x.size) \in Nat \X Nat /\ Create(Unpack(Pack(x.type, x.size))) = {x}
<1>1. PICK t \in DOMAIN Recipe, z \in DOMAIN Spelling :
          x = [type |-> t, size |-> z, needs |-> Recipe[t]]
  BY DEF Pizza
<1>2. Create(Unpack(Pack(t, z))) = {x}
  BY <1>1, PackedIs
<1>3. TypeCode[t] \in Nat /\ SizeCode[z] \in Nat
  <2>1. DOMAIN Recipe = {"Margarita", "Regina", "Americana", "Fantasia"}
    BY Zenon DEF Recipe
  <2>2. z \in {"S", "M", "L", "XL", "XXL"}
    BY DEF Spelling
  <2>3. TypeCode[t] \in Nat
    BY <2>1 DEF TypeCode
  <2>4. SizeCode[z] \in Nat
    BY <2>2 DEF SizeCode
  <2> QED
    BY <2>3, <2>4
<1>4. Pack(t, z) \in Nat \X Nat
  BY <1>3 DEF Pack
<1> QED
  BY <1>1, <1>2, <1>4

LEMMA SendPizzaKeeps ==
    ASSUME OrdersInvariant, SendPizza
    PROVE  OrdersInvariant'
<1> DEFINE n == Len(orders)
           o == orders[at[1]]
<1>1. /\ pc = "dispatch" /\ pc' = pc /\ at[1] \in DOMAIN orders
      /\ line' = line /\ orders' = orders /\ noted' = noted /\ made' = made
      /\ wire' = Append(wire, Pack(o.type, o.size))
      /\ at' = IF at[2] < o.quantity THEN <<at[1], at[2] + 1>> ELSE <<at[1] + 1, 1>>
  BY DEF SendPizza
<1>2. LineInvariant' /\ StartInvariant'
  BY <1>1 DEF OrdersInvariant, LineInvariant, StartInvariant
<1>3. NotedInvariant'
  <2>1. Total' = Total
    BY <1>1 DEF Total
  <2> QED
    BY <1>1, <2>1 DEF OrdersInvariant, NotedInvariant
<1>4. orders \in Seq(Order)
  BY OrdersTyped DEF OrdersInvariant
<1>5. n \in Nat /\ DOMAIN orders = 1 .. n
  BY <1>4
<1>6. /\ at[1] \in 1 .. n /\ at[1] \in 1 .. n + 1 /\ at[1] # n + 1
      /\ at[2] \in Nat /\ at[2] >= 1 /\ at[2] <= o.quantity
  <2>1. at[1] \in 1 .. n /\ at[1] \in 1 .. n + 1 /\ at[1] # n + 1
    BY <1>1, <1>5
  <2> QED
    BY <1>1, <2>1 DEF OrdersInvariant, AtInvariant
<1>7. /\ Sent' = Sent + 1
      /\ at'[1] \in 1 .. n + 1 /\ at'[2] \in Nat /\ at'[2] >= 1
      /\ at'[1] = n + 1 => at'[2] = 1
      /\ at'[1] # n + 1 => at'[2] <= orders[at'[1]].quantity
  BY <1>1, <1>4, <1>6, SentMoves
<1>8. AtInvariant'
  BY <1>1, <1>7 DEF AtInvariant
<1>9. /\ Sent \in Nat /\ Sent + 1 \in 1 .. Len(AllPizzas) /\ AllPizzas \in Seq(Pizza)
      /\ AllPizzas[Sent + 1] = PizzaOf(o)
  BY <1>4, <1>6, SentIs
<1> DEFINE e == Pack(o.type, o.size)
<1>10. e = Pack(AllPizzas[Sent + 1].type, AllPizzas[Sent + 1].size) /\ e \in Nat \X Nat
  <2>1. PizzaOf(o).type = o.type /\ PizzaOf(o).size = o.size
    BY DEF PizzaOf
  <2>2. AllPizzas[Sent + 1] \in Pizza
    BY <1>9
  <2> QED
    BY <1>9, <2>1, <2>2, PackIs
<1> HIDE DEF e, o, n
<1>11. WireInvariant'
  <2>1. /\ wire \in Seq(Nat \X Nat) /\ made \in Seq(SUBSET Pizza)
        /\ Len(made) + Len(wire) = Sent
        /\ \A i \in 1 .. Len(made) : made[i] = {AllPizzas[i]}
        /\ \A i \in 1 .. Len(wire) :
              wire[i] = Pack(AllPizzas[Len(made) + i].type, AllPizzas[Len(made) + i].size)
    BY <1>1 DEF OrdersInvariant, WireInvariant
  <2>2. AllPizzas' = AllPizzas
    BY <1>1 DEF AllPizzas
  <2>3. /\ wire' \in Seq(Nat \X Nat) /\ Len(wire') = Len(wire) + 1
        /\ \A i \in 1 .. Len(wire) : wire'[i] = wire[i]
        /\ wire'[Len(wire) + 1] = e
    <3>1. wire' = Append(wire, e)
      BY <1>1 DEF e
    <3> QED
      BY <1>10, <2>1, <3>1, AppendProperties
  <2>4. Len(wire) \in Nat /\ Len(made) \in Nat
    BY <2>1
  <2>5. Len(made) + (Len(wire) + 1) = Sent + 1
    BY <1>9, <2>1, <2>4
  <2>6. ASSUME NEW i \in 1 .. Len(wire')
        PROVE  wire'[i] = Pack(AllPizzas[Len(made) + i].type, AllPizzas[Len(made) + i].size)
    <3>1. i \in 1 .. Len(wire) \/ i = Len(wire) + 1
      BY <2>3, <2>4
    <3>2. CASE i \in 1 .. Len(wire)
      BY <2>1, <2>3, <3>2
    <3>3. CASE i = Len(wire) + 1
      BY <1>10, <2>3, <2>5, <3>3
    <3> QED
      BY <3>1, <3>2, <3>3
  <2> QED
    BY <1>1, <1>7, <2>1, <2>2, <2>3, <2>5, <2>6 DEF WireInvariant
<1> QED
  BY <1>2, <1>3, <1>8, <1>11 DEF OrdersInvariant

LEMMA FinishDispatchKeeps ==
    ASSUME OrdersInvariant, FinishDispatch
    PROVE  OrdersInvariant'
<1> DEFINE n == Len(orders)
<1>1. /\ pc = "dispatch" /\ pc' = "sent" /\ at[1] \notin DOMAIN orders
      /\ line' = line /\ orders' = orders /\ noted' = noted /\ made' = made
      /\ wire' = wire /\ at' = at
  BY DEF FinishDispatch
<1>2. LineInvariant' /\ StartInvariant'
  BY <1>1 DEF OrdersInvariant, LineInvariant, StartInvariant
<1>3. NotedInvariant'
  <2>1. Total' = Total
    BY <1>1 DEF Total
  <2> QED
    BY <1>1, <2>1 DEF OrdersInvariant, NotedInvariant
<1>4. n \in Nat /\ DOMAIN orders = 1 .. n
  BY OrdersTyped DEF OrdersInvariant
<1>5. AtInvariant'
  <2>1. at[1] \in 1 .. n + 1
    BY <1>1 DEF OrdersInvariant, AtInvariant
  <2>2. at[1] = n + 1
    BY <1>1, <1>4, <2>1
  <2> QED
    BY <1>1, <2>2 DEF OrdersInvariant, AtInvariant
<1>6. WireInvariant'
  <2>1. AllPizzas' = AllPizzas /\ Sent' = Sent
    BY <1>1 DEF AllPizzas, Sent
  <2> QED
    BY <1>1, <2>1 DEF OrdersInvariant, WireInvariant
<1> QED
  BY <1>2, <1>3, <1>5, <1>6 DEF OrdersInvariant

LEMMA TakePizzaKeeps ==
    ASSUME OrdersInvariant, TakePizza
    PROVE  OrdersInvariant'
<1>1. /\ wire # <<>> /\ wire' = Tail(wire)
      /\ made' = Append(made, Create(Unpack(Head(wire))))
      /\ line' = line /\ pc' = pc /\ orders' = orders /\ noted' = noted /\ at' = at
  BY DEF TakePizza
<1>2. pc \in {"dispatch", "sent"}
  BY <1>1 DEF OrdersInvariant, LineInvariant, StartInvariant
<1>3. LineInvariant' /\ StartInvariant'
  BY <1>1, <1>2 DEF OrdersInvariant, LineInvariant, StartInvariant
<1>4. NotedInvariant'
  <2>1. Total' = Total
    BY <1>1 DEF Total
  <2> QED
    BY <1>1, <2>1 DEF OrdersInvariant, NotedInvariant
<1>5. AtInvariant'
  BY <1>1 DEF OrdersInvariant, AtInvariant
<1>6. WireInvariant'
  <2>1. /\ wire \in Seq(Nat \X Nat) /\ made \in Seq(SUBSET Pizza)
        /\ Len(made) + Len(wire) = Sent
        /\ \A i \in 1 .. Len(made) : made[i] = {AllPizzas[i]}
        /\ \A i \in 1 .. Len(wire) :
              wire[i] = Pack(AllPizzas[Len(made) + i].type, AllPizzas[Len(made) + i].size)
    BY <1>2 DEF OrdersInvariant, WireInvariant
  <2>2. AllPizzas' = AllPizzas /\ Sent' = Sent
    BY <1>1 DEF AllPizzas, Sent
  <2>3. orders \in Seq(Order)
    BY OrdersTyped DEF OrdersInvariant
  <2>4. /\ Sent \in Nat /\ Sent <= Len(AllPizzas) /\ Len(AllPizzas) \in Nat
        /\ AllPizzas \in Seq(Pizza)
    BY <1>2, <2>3, SentIs DEF OrdersInvariant, AtInvariant
  <2> DEFINE next == Len(made) + 1
             x == AllPizzas[next]
  <2>5. Len(wire) \in Nat /\ Len(wire) >= 1 /\ Len(made) \in Nat /\ 1 \in 1 .. Len(wire)
    BY <1>1, <2>1
  <2>6. next \in 1 .. Len(AllPizzas)
    <3>1. next <= Sent
      BY <2>1, <2>5
    <3> QED
      BY <2>4, <2>5, <3>1
  <2>7. x \in Pizza
    <3> HIDE DEF next
    <3> QED
      BY <2>4, <2>6
  <2>8. Head(wire) = Pack(x.type, x.size)
    <3>1. Head(wire) = wire[1]
      BY <1>1, <2>1
    <3> QED
      BY <2>1, <2>5, <3>1
  <2> HIDE DEF x
  <2>9. Create(Unpack(Head(wire))) = {x}
    BY <2>7, <2>8, PackIs
  <2>10. made' = Append(made, {x}) /\ {x} \in SUBSET Pizza
    BY <1>1, <2>7, <2>9
  <2>11. /\ made' \in Seq(SUBSET Pizza) /\ Len(made') = next
         /\ \A i \in 1 .. Len(made) : made'[i] = made[i]
         /\ made'[next] = {x}
    BY <2>1, <2>10, AppendProperties
  <2>12. /\ wire' \in Seq(Nat \X Nat) /\ Len(wire') = Len(wire) - 1
         /\ \A i \in 1 .. Len(wire') : wire'[i] = wire[i + 1]
    BY <1>1, <2>1, HeadTailProperties
  <2>13. Len(made') + Len(wire') = Sent
    BY <2>1, <2>5, <2>11, <2>12
  <2>14. ASSUME NEW i \in 1 .. Len(made')
         PROVE  made'[i] = {AllPizzas[i]}
    <3>1. i \in 1 .. Len(made) \/ i = next
      BY <2>5, <2>11
    <3> HIDE DEF next
    <3>2. CASE i \in 1 .. Len(made)
      BY <2>1, <2>11, <3>2
    <3>3. CASE i = next
      BY <2>11, <3>3 DEF x
    <3> QED
      BY <3>1, <3>2, <3>3
  <2>15. ASSUME NEW i \in 1 .. Len(wire')
         PROVE  wire'[i] = Pack(AllPizzas[Len(made') + i].type, AllPizzas[Len(made') + i].size)
    <3>1. i + 1 \in 1 .. Len(wire) /\ Len(made) + (i + 1) = Len(made') + i
      BY <2>5, <2>11, <2>12
    <3>2. wire'[i] = wire[i + 1]
      BY <2>12
    <3> QED
      BY <2>1, <3>1, <3>2
  <2> QED
    BY <2>2, <2>11, <2>12, <2>13, <2>14, <2>15 DEF WireInvariant
<1> QED
  BY <1>3, <1>4, <1>5, <1>6 DEF OrdersInvariant

\* OrdersInvariant is inductive.
THEOREM OrdersInvariantHolds == OrdersSpec => []OrdersInvariant
<1>1. OrdersInit => OrdersInvariant
  BY InvariantInit
<1>2. OrdersInvariant /\ [OrdersNext]_vars => OrdersInvariant'
  <2> SUFFICES ASSUME OrdersInvariant, [OrdersNext]_vars
               PROVE  OrdersInvariant'
    OBVIOUS
  <2>1. CASE AcceptLine
    BY <2>1, AcceptLineKeeps
  <2>2. CASE RejectLine
    BY <2>2, RejectLineKeeps
  <2>3. CASE NoteOrder
    BY <2>3, NoteOrderKeeps
  <2>4. CASE SendPizza
    BY <2>4, SendPizzaKeeps
  <2>5. CASE FinishDispatch
    BY <2>5, FinishDispatchKeeps
  <2>6. CASE TakePizza
    BY <2>6, TakePizzaKeeps
  <2>7. CASE Finished \/ UNCHANGED vars
    BY <2>7, UnchangedKeeps DEF Finished
  <2> QED
    BY <2>1, <2>2, <2>3, <2>4, <2>5, <2>6, <2>7 DEF OrdersNext
<1> QED
  BY <1>1, <1>2, PTL DEF OrdersSpec

\* Whatever the customer types: a line is accepted when each of its pieces has a
\* meaning and a number that fits, the meaning is the only one, and the orders are
\* these meanings, in this order (Parser::parse).  The language is the one of the
\* pattern in parseLine, any case and blanks between tokens, so wider than the
\* subject's; every line that the subject's grammar derives, with numbers that fit,
\* is accepted for the orders it derives.
THEOREM OrdersAreParsed == OrdersSpec => []ParsedAsMeant
<1>1. OrdersInvariant => ParsedAsMeant
  <2> SUFFICES ASSUME OrdersInvariant, pc # "typed"
               PROVE  LET pieces == Pieces(line)
                          fits(o) == o.quantity <= MaxSizeT
                          meant == \A k \in DOMAIN pieces :
                                      \E o \in Meanings(pieces[k]) : fits(o)
                          derived == \A k \in DOMAIN pieces :
                                        \E o \in Derived(pieces[k]) : fits(o)
                      IN  /\ pc = "rejected" <=> ~meant
                          /\ meant => /\ Len(orders) = Len(pieces)
                                      /\ \A k \in DOMAIN pieces : Meanings(pieces[k]) = {orders[k]}
                          /\ derived => /\ pc # "rejected"
                                        /\ \A k \in DOMAIN pieces :
                                              Derived(pieces[k]) = {orders[k]}
    BY DEF ParsedAsMeant
  <2>1. /\ Parse(line) = <<>> <=> ~Meant(line)
        /\ Meant(line) => /\ Len(Parse(line)) = Len(Pieces(line))
                          /\ \A k \in DOMAIN Pieces(line) :
                                Meanings(Pieces(line)[k]) = {Parse(line)[k]}
    BY ParseIs DEF OrdersInvariant, LineInvariant
  <2>2. /\ pc = "rejected" => Parse(line) = <<>>
        /\ pc # "rejected" => orders = Parse(line) /\ orders # <<>>
    BY DEF OrdersInvariant, LineInvariant
  <2>3. Meant(line) <=> \A k \in DOMAIN Pieces(line) :
                            \E o \in Meanings(Pieces(line)[k]) : o.quantity <= MaxSizeT
    BY DEF Meant
  <2>4. ASSUME \A k \in DOMAIN Pieces(line) :
                   \E o \in Derived(Pieces(line)[k]) : o.quantity <= MaxSizeT
        PROVE  /\ Meant(line)
               /\ \A k \in DOMAIN Pieces(line) : Derived(Pieces(line)[k]) = {Parse(line)[k]}
    <3>1. ASSUME NEW k \in DOMAIN Pieces(line)
          PROVE  /\ \E o \in Derived(Pieces(line)[k]) : o.quantity <= MaxSizeT
                 /\ Derived(Pieces(line)[k]) \subseteq Meanings(Pieces(line)[k])
      <4>1. Pieces(line)[k] \in Seq(STRING)
        BY PiecesAre DEF OrdersInvariant, LineInvariant
      <4> QED
        BY <2>4, <4>1, DerivedMeans
    <3>2. Meant(line)
      BY <2>3, <3>1
    <3> QED
      BY <2>1, <3>1, <3>2
  <2> QED
    BY <2>1, <2>2, <2>3, <2>4
<1> QED
  BY <1>1, OrdersInvariantHolds, PTL

\* Whatever the widths of int and size_t: the pizzas that main notes are the pizzas
\* dispatched if their sum fits into an int, and never more than were dispatched.
THEOREM OrdersAreNoted == OrdersSpec => []NotedIsSent
<1>1. OrdersInvariant => NotedIsSent
  <2> SUFFICES ASSUME OrdersInvariant, pc \in {"dispatch", "sent"}
               PROVE  (Ordered <= MaxInt => noted = Ordered) /\ noted \in 0 .. Ordered
    BY DEF NotedIsSent
  <2>1. noted = IF Total > 0 THEN Total ELSE 0
    BY DEF OrdersInvariant, NotedInvariant
  <2>2. /\ Ordered \in Nat /\ Total \in Int
        /\ Total <= Ordered /\ (Ordered <= MaxInt => Total = Ordered)
    BY OrdersTyped, TotalFits DEF OrdersInvariant
  <2> QED
    BY <2>1, <2>2
<1> QED
  BY <1>1, OrdersInvariantHolds, PTL

\* However many pizzas there are: what the factory makes are the first of the pizzas
\* ordered, each of its type and size with the recipe of the type, and at the end all.
THEOREM OrdersAreMade == OrdersSpec => []MadeIsOrdered
<1>1. OrdersInvariant => MadeIsOrdered
  <2> SUFFICES ASSUME OrdersInvariant
               PROVE  MadeIsOrdered
    OBVIOUS
  <2>1. orders \in Seq(Order)
    BY OrdersTyped DEF OrdersInvariant
  <2>2. CASE pc \in {"typed", "rejected", "parsed"}
    <3>1. made = <<>> /\ Len(made) = 0 /\ DOMAIN made = {}
      BY <2>2 DEF OrdersInvariant, StartInvariant
    <3>2. Len(AllPizzas) \in Nat
      <4>1. AllPizzas \in Seq(Pizza)
        BY <2>1, AllPizzasAre
      <4> QED
        BY <4>1
    <3>3. Len(made) <= Len(AllPizzas)
      BY <3>1, <3>2
    <3> QED
      BY <2>2, <3>1, <3>3 DEF MadeIsOrdered
  <2>3. CASE pc \in {"dispatch", "sent"}
    <3>1. /\ wire \in Seq(Nat \X Nat) /\ made \in Seq(SUBSET Pizza)
          /\ Len(made) + Len(wire) = Sent
          /\ \A i \in 1 .. Len(made) : made[i] = {AllPizzas[i]}
      BY <2>3 DEF OrdersInvariant, WireInvariant
    <3>2. /\ Sent \in Nat /\ Sent <= Len(AllPizzas) /\ Len(AllPizzas) \in Nat
          /\ at[1] = Len(orders) + 1 => Sent = Len(AllPizzas)
      BY <2>1, <2>3, SentIs DEF OrdersInvariant, AtInvariant
    <3>3. pc = "sent" => at[1] = Len(orders) + 1
      BY <2>3 DEF OrdersInvariant, AtInvariant
    <3>4. Len(made) \in Nat /\ Len(wire) \in Nat /\ DOMAIN made = 1 .. Len(made)
      BY <3>1
    <3>5. Len(made) <= Len(AllPizzas)
      BY <3>1, <3>2, <3>4
    <3>6. ASSUME pc = "sent", wire = <<>>
          PROVE  Len(made) = Len(AllPizzas)
      <4>1. Len(wire) = 0
        BY <3>6
      <4> QED
        BY <3>1, <3>2, <3>3, <3>4, <3>6, <4>1
    <3> QED
      BY <3>1, <3>4, <3>5, <3>6 DEF MadeIsOrdered
  <2> QED
    BY <2>2, <2>3 DEF OrdersInvariant, LineInvariant
<1> QED
  BY <1>1, OrdersInvariantHolds, PTL
=============================================================================
