--------------------------- MODULE VersionProofs ---------------------------
(***************************************************************************)
(* Theorems about OvpnVersion: that a version which tunsmith writes, or a   *)
(* host prints between other text, is read as that version, for any         *)
(* version; and that the gate of Connect lets a build through exactly when  *)
(* the host's OpenVPN can run it.                                          *)
(***************************************************************************)
EXTENDS MCConnect, ConnectProofs, WellFoundedInduction

-----------------------------------------------------------------------------
(* Induction.  The numbers below are the sets of those with a property, so  *)
(* that no theorem with an operator for a parameter is needed.             *)

LEMMA Induction ==
  ASSUME NEW T, T \subseteq Nat, 0 \in T, \A n \in T : n + 1 \in T
  PROVE  T = Nat
<1> SUFFICES ASSUME Nat \ T # {} PROVE FALSE
  OBVIOUS
<1>2. PICK x \in Nat \ T : \A y \in Nat \ T : x <= y
  BY Least
<1>3. \A y \in Nat \ T : ~(y < x)
  BY <1>2
<1>4. x - 1 \in Nat /\ x - 1 < x /\ (x - 1) + 1 = x
  <2>1. x # 0
    OBVIOUS
  <2>2. QED
    BY <2>1
<1>5. x - 1 \in T
  BY <1>3, <1>4
<1>6. QED
  BY <1>4, <1>5

\* The same, where every smaller number may be used.
LEMMA StrongInduction ==
  ASSUME NEW T, T \subseteq Nat,
         \A n \in Nat : (\A m \in Nat : m < n => m \in T) => n \in T
  PROVE  T = Nat
<1> DEFINE Below == {n \in Nat : \A m \in Nat : m < n => m \in T}
<1>1. 0 \in Below
  OBVIOUS
<1>2. ASSUME NEW n \in Below
      PROVE  n + 1 \in Below
  <2>1. n \in T
    OBVIOUS
  <2>2. \A m \in Nat : m < n + 1 => m < n \/ m = n
    OBVIOUS
  <2>3. QED
    BY <2>1, <2>2
<1>3. Below = Nat
  <2> HIDE DEF Below
  <2>1. Below \subseteq Nat
    BY DEF Below
  <2>2. QED
    BY <1>1, <1>2, <2>1, Induction
<1>4. QED
  BY <1>3

-----------------------------------------------------------------------------
(* Numbers.                                                                *)

\* g gives the value of the digits of s from i to each position before e.
IsValue(g, s, i, e) ==
  g = [j \in i - 1 .. e - 1 |-> IF j = i - 1 THEN 0 ELSE 10 * g[j - 1] + s[j]]

LEMMA ValueExists ==
  ASSUME NEW s, NEW i \in Nat \ {0}, NEW m \in Nat
  PROVE  \E g : IsValue(g, s, i, i + m)
<1> DEFINE T == {n \in Nat : \E g : IsValue(g, s, i, i + n)}
<1>1. 0 \in T
  <2> DEFINE g == [j \in {i - 1} |-> 0]
  <2>1. i - 1 .. (i + 0) - 1 = {i - 1}
    OBVIOUS
  <2>2. g = [j \in {i - 1} |-> IF j = i - 1 THEN 0 ELSE 10 * g[j - 1] + s[j]]
    OBVIOUS
  <2>3. IsValue(g, s, i, i + 0)
    BY <2>1, <2>2 DEF IsValue
  <2>4. QED
    BY <2>3
<1>2. ASSUME NEW n \in T
      PROVE  n + 1 \in T
  <2>1. PICK g : IsValue(g, s, i, i + n)
    OBVIOUS
  <2> DEFINE h == [j \in i - 1 .. (i + (n + 1)) - 1 |->
                     IF j = i - 1 THEN 0 ELSE 10 * g[j - 1] + s[j]]
  <2>2. \A j \in i - 1 .. (i + n) - 1 : h[j] = g[j]
    BY <2>1 DEF IsValue
  <2>3. \A j \in i - 1 .. (i + (n + 1)) - 1 : j # i - 1 => j - 1 \in i - 1 .. (i + n) - 1
    OBVIOUS
  <2>4. h = [j \in i - 1 .. (i + (n + 1)) - 1 |->
               IF j = i - 1 THEN 0 ELSE 10 * h[j - 1] + s[j]]
    BY <2>2, <2>3
  <2>5. IsValue(h, s, i, i + (n + 1))
    BY <2>4 DEF IsValue
  <2>6. QED
    BY <2>5
<1>3. T = Nat
  <2> HIDE DEF T
  <2>1. T \subseteq Nat
    BY DEF T
  <2>2. QED
    BY <1>1, <1>2, <2>1, Induction
<1>4. QED
  BY <1>3

\* It does not depend on where the digits end.
Agree(g, h, i, m) == \A k \in 0 .. m : g[i - 1 + k] = h[i - 1 + k]

LEMMA ValueUnique ==
  ASSUME NEW s, NEW i \in Nat \ {0}, NEW m \in Nat, NEW n \in Nat, m <= n,
         NEW g, IsValue(g, s, i, i + m), NEW h, IsValue(h, s, i, i + n)
  PROVE  Agree(g, h, i, m)
<1> DEFINE T == {l \in Nat : l <= m => g[i - 1 + l] = h[i - 1 + l]}
<1>1. 0 \in T
  BY DEF IsValue
<1>2. ASSUME NEW l \in T
      PROVE  l + 1 \in T
  <2> SUFFICES ASSUME l + 1 <= m PROVE g[i + l] = h[i + l]
    OBVIOUS
  <2>1. g[i - 1 + l] = h[i - 1 + l]
    OBVIOUS
  <2>2. g[i + l] = 10 * g[i - 1 + l] + s[i + l] /\ h[i + l] = 10 * h[i - 1 + l] + s[i + l]
    BY DEF IsValue
  <2>3. QED
    BY <2>1, <2>2
<1>3. T = Nat
  <2> HIDE DEF T
  <2>1. T \subseteq Nat
    BY DEF T
  <2>2. QED
    BY <1>1, <1>2, <2>1, Induction
<1>4. QED
  <2>1. 0 .. m \subseteq T
    <3> HIDE DEF T
    <3>1. QED
      BY <1>3
  <2>2. QED
    BY <2>1 DEF Agree

LEMMA NumberIsValue ==
  ASSUME NEW s, NEW i, NEW e, \E g : IsValue(g, s, i, e)
  PROVE  \E g : IsValue(g, s, i, e) /\ Number(s, i, e) = g[e - 1]
BY Zenon DEF Number, IsValue

\* No digits write 0, and each further one is a step to the left for those
\* before it.
LEMMA NumberStep ==
  ASSUME NEW s, NEW i \in Nat \ {0}, NEW e \in Nat, e >= i
  PROVE  /\ Number(s, i, i) = 0
         /\ Number(s, i, e + 1) = 10 * Number(s, i, e) + s[e]
<1>1. PICK m \in Nat : e = i + m
  <2>1. e - i \in Nat /\ e = i + (e - i)
    OBVIOUS
  <2>2. QED
    BY <2>1
<1>2. PICK n \in Nat : e + 1 = i + n /\ m <= n
  <2>1. m + 1 \in Nat /\ e + 1 = i + (m + 1) /\ m <= m + 1
    BY <1>1
  <2>2. QED
    BY <2>1
<1>3. PICK f : IsValue(f, s, i, i) /\ Number(s, i, i) = f[i - 1]
  <2>1. \E f : IsValue(f, s, i, i + 0)
    BY ValueExists
  <2>2. QED
    BY <2>1, NumberIsValue
<1>4. PICK g : IsValue(g, s, i, i + m) /\ Number(s, i, e) = g[e - 1]
  BY <1>1, ValueExists, NumberIsValue
<1>5. PICK h : IsValue(h, s, i, i + n) /\ Number(s, i, e + 1) = h[(e + 1) - 1]
  BY <1>2, ValueExists, NumberIsValue
<1>6. f[i - 1] = 0
  BY <1>3 DEF IsValue
<1>7. h[e] = 10 * h[e - 1] + s[e]
  BY <1>1, <1>2, <1>5 DEF IsValue
<1>8. g[i - 1 + m] = h[i - 1 + m]
  <2>1. Agree(g, h, i, m)
    BY <1>2, <1>4, <1>5, ValueUnique, Zenon
  <2>2. QED
    BY <2>1 DEF Agree
<1>9. QED
  BY <1>1, <1>3, <1>4, <1>5, <1>6, <1>7, <1>8

LEMMA NumberType ==
  ASSUME NEW s, NEW i \in Nat \ {0}, NEW m \in Nat,
         \A j \in i .. i + m - 1 : IsDigit(s[j])
  PROVE  Number(s, i, i + m) \in Nat
<1> DEFINE T == {n \in Nat : n <= m => Number(s, i, i + n) \in Nat}
<1>1. 0 \in T
  BY NumberStep
<1>2. ASSUME NEW n \in T
      PROVE  n + 1 \in T
  <2> SUFFICES ASSUME n + 1 <= m PROVE Number(s, i, (i + n) + 1) \in Nat
    OBVIOUS
  <2>1. Number(s, i, i + n) \in Nat /\ s[i + n] \in 0 .. 9
    BY DEF IsDigit, Digits
  <2>2. i + n \in Nat /\ i + n >= i
    OBVIOUS
  <2>3. Number(s, i, (i + n) + 1) = 10 * Number(s, i, i + n) + s[i + n]
    BY <2>2, NumberStep
  <2>4. QED
    BY <2>1, <2>3
<1>3. m \in T
  <2> HIDE DEF T
  <2>1. T \subseteq Nat
    BY DEF T
  <2>2. QED
    BY <1>1, <1>2, <2>1, Induction
<1>4. QED
  BY <1>3

-----------------------------------------------------------------------------
(* Decimals.                                                               *)

LEMMA DivideByTen ==
  ASSUME NEW n \in Nat
  PROVE  /\ n \div 10 \in Nat /\ n % 10 \in Digits /\ n = 10 * (n \div 10) + (n % 10)
         /\ n >= 10 => n \div 10 < n
BY DEF Digits

\* g gives the text of each number up to n.
TextFrom(g, m) == IF m < 10 THEN <<m>> ELSE Append(g[m \div 10], m % 10)
IsText(g, n) == g = [m \in 0 .. n |-> TextFrom(g, m)]

\* A text depends on that of the number without its last digit alone.
LEMMA TextFromSame ==
  ASSUME NEW k, NEW g, NEW h, k >= 10 => g[k \div 10] = h[k \div 10], k \in Nat
  PROVE  TextFrom(g, k) = TextFrom(h, k)
BY DEF TextFrom

LEMMA TextExists == ASSUME NEW n \in Nat PROVE \E g : IsText(g, n)
<1> DEFINE T == {m \in Nat : \E g : IsText(g, m)}
<1>1. 0 \in T
  <2> DEFINE g == [m \in 0 .. 0 |-> <<m>>]
  <2>1. IsText(g, 0)
    <3>1. \A m \in 0 .. 0 : TextFrom(g, m) = <<m>>
      BY DEF TextFrom
    <3>2. QED
      BY <3>1 DEF IsText
  <2>2. QED
    BY <2>1
<1>2. ASSUME NEW m \in T
      PROVE  m + 1 \in T
  <2>1. PICK g : IsText(g, m)
    OBVIOUS
  <2> DEFINE h == [k \in 0 .. m + 1 |-> TextFrom(g, k)]
  <2>2. \A k \in 0 .. m : h[k] = g[k]
    BY <2>1 DEF IsText
  <2>3. \A k \in 0 .. m + 1 : k >= 10 => k \div 10 \in 0 .. m
    BY DivideByTen
  <2>4. \A k \in 0 .. m + 1 : TextFrom(g, k) = TextFrom(h, k)
    <3> HIDE DEF h
    <3>1. QED
      BY <2>2, <2>3, TextFromSame
  <2>5. IsText(h, m + 1)
    BY <2>4 DEF IsText
  <2>6. QED
    BY <2>5
<1>3. n \in T
  <2> HIDE DEF T
  <2>1. T \subseteq Nat
    BY DEF T
  <2>2. QED
    BY <1>1, <1>2, <2>1, Induction
<1>4. QED
  BY <1>3

\* It does not depend on n.
Same(g, h, n) == \A k \in 0 .. n : g[k] = h[k]

LEMMA TextUnique ==
  ASSUME NEW m \in Nat, NEW n \in Nat, m <= n,
         NEW g, IsText(g, m), NEW h, IsText(h, n)
  PROVE  Same(g, h, m)
<1> DEFINE T == {k \in Nat : k <= m => g[k] = h[k]}
<1>1. ASSUME NEW k \in Nat, \A l \in Nat : l < k => l \in T
      PROVE  k \in T
  <2> SUFFICES ASSUME k <= m PROVE g[k] = h[k]
    OBVIOUS
  <2>1. g[k] = TextFrom(g, k) /\ h[k] = TextFrom(h, k)
    <3>1. k \in 0 .. m /\ k \in 0 .. n
      OBVIOUS
    <3>2. QED
      BY <3>1, Zenon DEF IsText
  <2>2. k >= 10 => g[k \div 10] = h[k \div 10]
    BY <1>1, DivideByTen
  <2>3. QED
    BY <2>1, <2>2, TextFromSame
<1>2. 0 .. m \subseteq T
  <2> HIDE DEF T
  <2>1. T \subseteq Nat
    BY DEF T
  <2>2. T = Nat
    BY <1>1, <2>1, StrongInduction
  <2>3. QED
    BY <2>2
<1>3. QED
  BY <1>2 DEF Same

LEMMA DecimalIsText ==
  ASSUME NEW n, \E g : IsText(g, n)
  PROVE  \E g : IsText(g, n) /\ Decimal(n) = g[n]
BY Zenon DEF Decimal, IsText, TextFrom

LEMMA DecimalStep ==
  ASSUME NEW n \in Nat
  PROVE  Decimal(n) = IF n < 10 THEN <<n>> ELSE Append(Decimal(n \div 10), n % 10)
<1> DEFINE m == n \div 10
<1>1. PICK g : IsText(g, n) /\ Decimal(n) = g[n]
  BY TextExists, DecimalIsText
<1>2. m \in Nat /\ (n >= 10 => m <= n)
  BY DivideByTen
<1>3. Decimal(n) = TextFrom(g, n)
  BY <1>1 DEF IsText
<1> HIDE DEF m
<1>4. PICK h : IsText(h, m) /\ Decimal(m) = h[m]
  BY <1>2, TextExists, DecimalIsText
<1>5. ASSUME n >= 10 PROVE g[m] = h[m]
  <2>1. Same(h, g, m)
    BY <1>1, <1>2, <1>4, <1>5, TextUnique, Zenon
  <2>2. QED
    BY <1>2, <2>1 DEF Same
<1>6. QED
  BY <1>3, <1>4, <1>5 DEF m, TextFrom

LEMMA DecimalType ==
  ASSUME NEW n \in Nat
  PROVE  /\ Decimal(n) \in Seq(Digits)
         /\ Len(Decimal(n)) \in Nat /\ Len(Decimal(n)) >= 1
<1> DEFINE T == {m \in Nat : Decimal(m) \in Seq(Digits) /\ Len(Decimal(m)) >= 1}
<1>1. ASSUME NEW m \in Nat, \A l \in Nat : l < m => l \in T
      PROVE  m \in T
  <2>1. CASE m < 10
    <3>1. Decimal(m) = <<m>>
      BY <2>1, DecimalStep
    <3> HIDE DEF T
    <3>2. m \in Digits
      BY <2>1 DEF Digits
    <3>3. <<m>> \in Seq(Digits) /\ Len(<<m>>) = 1
      BY <3>2
    <3>4. Decimal(m) \in Seq(Digits) /\ Len(Decimal(m)) = 1
      BY <3>1, <3>3, Zenon
    <3>5. QED
      BY <3>4 DEF T
  <2>2. CASE m >= 10
    <3>1. Decimal(m) = Append(Decimal(m \div 10), m % 10)
      BY <2>2, DecimalStep
    <3>2. m \div 10 \in T /\ m % 10 \in Digits
      BY <1>1, <2>2, DivideByTen
    <3>3. QED
      BY <3>1, <3>2
  <2>3. QED
    BY <2>1, <2>2
<1>2. n \in T
  <2> HIDE DEF T
  <2>1. T \subseteq Nat
    BY DEF T
  <2>2. QED
    BY <1>1, <2>1, StrongInduction
<1>3. QED
  BY <1>2

\* s has the text d from position i on.
Spells(s, i, d) == \A k \in 1 .. Len(d) : s[i + k - 1] = d[k]

\* A number that was written is read back.
LEMMA DecimalIsRead ==
  ASSUME NEW n \in Nat, NEW s, NEW i \in Nat \ {0}, Spells(s, i, Decimal(n))
  PROVE  Number(s, i, i + Len(Decimal(n))) = n
<1> DEFINE T == {m \in Nat : Spells(s, i, Decimal(m)) => Number(s, i, i + Len(Decimal(m))) = m}
<1>1. ASSUME NEW m \in Nat, \A l \in Nat : l < m => l \in T
      PROVE  m \in T
  <2> SUFFICES ASSUME Spells(s, i, Decimal(m)) PROVE Number(s, i, i + Len(Decimal(m))) = m
    OBVIOUS
  <2>1. CASE m < 10
    <3>1. Decimal(m) = <<m>>
      BY <2>1, DecimalStep
    <3>2. s[i] = m /\ Len(Decimal(m)) = 1
      BY <3>1 DEF Spells
    <3>3. Number(s, i, i) = 0 /\ Number(s, i, i + 1) = 10 * Number(s, i, i) + s[i]
      BY NumberStep
    <3>4. QED
      BY <3>2, <3>3
  <2>2. CASE m >= 10
    <3> DEFINE p == Decimal(m \div 10)
    <3>1. Decimal(m) = Append(p, m % 10)
      BY <2>2, DecimalStep
    <3>2. m \div 10 \in T /\ p \in Seq(Digits) /\ m = 10 * (m \div 10) + (m % 10)
      BY <1>1, <2>2, DivideByTen, DecimalType
    <3> DEFINE e == i + Len(p)
    <3>3. e \in Nat /\ e >= i /\ Len(Decimal(m)) = Len(p) + 1
      BY <3>1, <3>2
    <3>4. Spells(s, i, p) /\ s[e] = m % 10
      <4>1. Len(p) \in Nat /\ \A k \in 1 .. Len(p) : Decimal(m)[k] = p[k]
        BY <3>1, <3>2
      <4>2. Decimal(m)[Len(p) + 1] = m % 10
        BY <3>1, <3>2
      <4>3. \A k \in 1 .. Len(p) + 1 : s[i + k - 1] = Decimal(m)[k]
        BY <3>3 DEF Spells
      <4>4. Spells(s, i, p)
        BY <4>1, <4>3 DEF Spells
      <4>5. s[i + (Len(p) + 1) - 1] = Decimal(m)[Len(p) + 1]
        BY <4>1, <4>3
      <4>6. i + (Len(p) + 1) - 1 = e
        BY <4>1
      <4>7. QED
        BY <4>2, <4>4, <4>5, <4>6
    <3>5. Number(s, i, e) = m \div 10
      BY <3>2, <3>4
    <3> HIDE DEF p, e
    <3>6. Number(s, i, e + 1) = 10 * Number(s, i, e) + s[e]
      BY <3>3, NumberStep
    <3>7. i + Len(Decimal(m)) = e + 1
      BY <3>2, <3>3 DEF e
    <3>8. QED
      BY <3>2, <3>4, <3>5, <3>6, <3>7
  <2>3. QED
    BY <2>1, <2>2
<1>2. n \in T
  <2> HIDE DEF T
  <2>1. T \subseteq Nat
    BY DEF T
  <2>2. QED
    BY <1>1, <2>1, StrongInduction
<1>3. QED
  BY <1>2

-----------------------------------------------------------------------------
(* Versions.                                                               *)

LEMMA RunEndIs ==
  ASSUME NEW s, Len(s) \in Nat, NEW i \in Nat \ {0}, NEW e \in i .. Len(s) + 1,
         \A j \in i .. e - 1 : IsDigit(s[j]), e = Len(s) + 1 \/ ~IsDigit(s[e])
  PROVE  RunEnd(s, i) = e
<1> DEFINE Ends(x) == /\ \A j \in i .. x - 1 : IsDigit(s[j])
                      /\ x = Len(s) + 1 \/ ~IsDigit(s[x])
<1>1. ASSUME NEW x \in i .. Len(s) + 1, Ends(x)
      PROVE  x = e
  <2>1. ~(x < e)
    <3> SUFFICES ASSUME x < e PROVE FALSE
      OBVIOUS
    <3>1. x \in i .. e - 1 /\ x # Len(s) + 1
      OBVIOUS
    <3>2. QED
      BY <1>1, <3>1
  <2>2. ~(e < x)
    <3> SUFFICES ASSUME e < x PROVE FALSE
      OBVIOUS
    <3>1. e \in i .. x - 1 /\ e # Len(s) + 1
      OBVIOUS
    <3>2. QED
      BY <1>1, <3>1
  <2>3. QED
    BY <2>1, <2>2
<1>2. Ends(e)
  OBVIOUS
<1> HIDE DEF Ends
<1>3. RunEnd(s, i) = CHOOSE x \in i .. Len(s) + 1 : Ends(x)
  BY DEF RunEnd, Ends
<1>4. QED
  BY <1>1, <1>2, <1>3

\* s has the digits of n at i, and then its end or no further digit.
HasPart(s, i, n) ==
  LET e == i + Len(Decimal(n)) IN
  /\ Spells(s, i, Decimal(n)) /\ e <= Len(s) + 1
  /\ e = Len(s) + 1 \/ s[e] \notin Digits

LEMMA PartIsRead ==
  ASSUME NEW s, Len(s) \in Nat, NEW i \in Nat \ {0}, NEW n \in Parts, HasPart(s, i, n)
  PROVE  /\ RunEnd(s, i) = i + Len(Decimal(n))
         /\ PartAt(s, i) /\ Number(s, i, RunEnd(s, i)) = n
<1> DEFINE d == Decimal(n)
           e == i + Len(d)
<1>1. n \in Nat
  BY PartAssumption DEF Parts
<1>2. d \in Seq(Digits) /\ Len(d) >= 1 /\ Len(d) \in Nat
  BY <1>1, DecimalType
<1>3. Spells(s, i, d) /\ e <= Len(s) + 1 /\ (e = Len(s) + 1 \/ s[e] \notin Digits)
  BY DEF HasPart
<1>4. Number(s, i, e) = n
  BY <1>1, <1>3, DecimalIsRead
<1> HIDE DEF d
<1>5. ASSUME NEW j \in i .. e - 1
      PROVE  IsDigit(s[j])
  <2>1. j - i + 1 \in 1 .. Len(d) /\ i + (j - i + 1) - 1 = j
    BY <1>2
  <2>2. s[j] = d[j - i + 1]
    BY <1>3, <2>1 DEF Spells
  <2>3. d[j - i + 1] \in Digits
    BY <1>2, <2>1
  <2>4. QED
    BY <2>2, <2>3 DEF IsDigit
<1>6. e \in i .. Len(s) + 1 /\ e > i
  BY <1>2, <1>3
<1>7. RunEnd(s, i) = e
  <2> HIDE DEF e
  <2>1. QED
    BY <1>3, <1>5, <1>6, RunEndIs DEF IsDigit
<1>8. QED
  BY <1>4, <1>6, <1>7 DEF PartAt, d

\* s has two numbers with a dot between them at i.
HasTwo(s, i, a, b) ==
  LET j == i + Len(Decimal(a)) IN
  HasPart(s, i, a) /\ j <= Len(s) /\ s[j] = Dot /\ HasPart(s, j + 1, b)

AfterTwo(i, a, b) == i + Len(Decimal(a)) + 1 + Len(Decimal(b))

LEMMA TwoAreRead ==
  ASSUME NEW s, Len(s) \in Nat, NEW i \in Nat \ {0}, NEW a \in Parts, NEW b \in Parts,
         HasTwo(s, i, a, b)
  PROVE  LET k == AfterTwo(i, a, b) IN
         /\ k \in Nat \ {0}
         /\ ParseDottedAt(s, i) =
              IF ~DotAt(s, k) THEN <<a, b, 0>>
              ELSE IF PartAt(s, k + 1)
                     THEN <<a, b, Number(s, k + 1, RunEnd(s, k + 1))>>
              ELSE NoVersion
<1> DEFINE j == i + Len(Decimal(a))
           k == j + 1 + Len(Decimal(b))
<1>1. a \in Nat /\ b \in Nat
  BY PartAssumption DEF Parts
<1>2. Len(Decimal(a)) \in Nat /\ Len(Decimal(b)) \in Nat
  BY <1>1, DecimalType
<1>3. j \in Nat \ {0} /\ j + 1 \in Nat \ {0} /\ k \in Nat \ {0} /\ k = AfterTwo(i, a, b)
  BY <1>2 DEF AfterTwo
<1>4. HasPart(s, i, a) /\ j <= Len(s) /\ s[j] = Dot /\ HasPart(s, j + 1, b)
  BY DEF HasTwo
<1>5. RunEnd(s, i) = j /\ PartAt(s, i) /\ Number(s, i, j) = a
  BY <1>4, PartIsRead
<1> HIDE DEF j
<1>6. RunEnd(s, j + 1) = k /\ PartAt(s, j + 1) /\ Number(s, j + 1, k) = b
  BY <1>3, <1>4, PartIsRead
<1>7. DotAt(s, j)
  BY <1>4 DEF DotAt
<1> HIDE DEF k
<1>8. QED
  BY <1>3, <1>5, <1>6, <1>7 DEF ParseDottedAt

LEMMA ShortIsRead ==
  ASSUME NEW s, Len(s) \in Nat, NEW i \in Nat \ {0}, NEW a \in Parts, NEW b \in Parts,
         HasTwo(s, i, a, b), ~DotAt(s, AfterTwo(i, a, b))
  PROVE  ParseDottedAt(s, i) = <<a, b, 0>>
BY TwoAreRead

LEMMA LongIsRead ==
  ASSUME NEW s, Len(s) \in Nat, NEW i \in Nat \ {0},
         NEW a \in Parts, NEW b \in Parts, NEW c \in Parts,
         HasTwo(s, i, a, b), DotAt(s, AfterTwo(i, a, b)), HasPart(s, AfterTwo(i, a, b) + 1, c)
  PROVE  ParseDottedAt(s, i) = <<a, b, c>>
<1> DEFINE k == AfterTwo(i, a, b) + 1
<1>1. k \in Nat \ {0}
  BY TwoAreRead
<1>2. PartAt(s, k) /\ Number(s, k, RunEnd(s, k)) = c
  BY <1>1, PartIsRead
<1>3. QED
  BY <1>2, TwoAreRead

\* The leftmost digit decides if a version can be read from it.
LEMMA FirstIsRead ==
  ASSUME NEW s, Len(s) \in Nat, DOMAIN s = 1 .. Len(s), NEW i \in 1 .. Len(s),
         \A j \in 1 .. i - 1 : s[j] \notin Digits,
         s[i] \in Digits, ParseDottedAt(s, i) # NoVersion
  PROVE  ParseVersion(s) = ParseDottedAt(s, i)
<1> DEFINE hits == {j \in DOMAIN s : IsDigit(s[j]) /\ ParseDottedAt(s, j) # NoVersion}
<1>1. i \in hits /\ hits \subseteq 1 .. Len(s)
  BY DEF IsDigit
<1>2. \A j \in hits : i <= j
  BY DEF IsDigit
<1>3. ParseVersion(s) = ParseDottedAt(s, CHOOSE j \in hits : \A l \in hits : j <= l)
  BY <1>1 DEF ParseVersion
<1> HIDE DEF hits
<1>4. \A j \in hits : (\A l \in hits : j <= l) => j = i
  BY <1>1, <1>2
<1>5. QED
  BY <1>1, <1>2, <1>3, <1>4

-----------------------------------------------------------------------------
(* Written and read.                                                       *)

Texts == Seq(Digits \union {Dot})

LEMMA Concatenation ==
  ASSUME NEW S, NEW x \in Seq(S), NEW y \in Seq(S)
  PROVE  /\ x \o y \in Seq(S) /\ Len(x) \in Nat /\ Len(y) \in Nat
         /\ Len(x \o y) = Len(x) + Len(y)
         /\ \A k \in 1 .. Len(x) : (x \o y)[k] = x[k]
         /\ \A k \in 1 .. Len(y) : (x \o y)[Len(x) + k] = y[k]
OBVIOUS

\* z is x and then y.
IsConcat(z, x, y) ==
  /\ Len(x) \in Nat /\ Len(y) \in Nat /\ Len(z) = Len(x) + Len(y)
  /\ \A k \in 1 .. Len(x) : z[k] = x[k]
  /\ \A k \in 1 .. Len(y) : z[Len(x) + k] = y[k]

LEMMA ConcatIs ==
  ASSUME NEW S, NEW x \in Seq(S), NEW y \in Seq(S)
  PROVE  x \o y \in Seq(S) /\ IsConcat(x \o y, x, y)
BY Concatenation DEF IsConcat

\* s has x, and behind it y.
LEMMA SpellsBoth ==
  ASSUME NEW S, NEW x \in Seq(S), NEW y \in Seq(S), NEW s, NEW i \in Nat,
         Spells(s, i, x \o y)
  PROVE  Spells(s, i, x) /\ Spells(s, i + Len(x), y)
<1>1. \A k \in 1 .. Len(x) + Len(y) : s[i + k - 1] = (x \o y)[k]
  BY Concatenation DEF Spells
<1>2. Spells(s, i, x)
  BY <1>1, Concatenation DEF Spells
<1>3. ASSUME NEW k \in 1 .. Len(y)
      PROVE  s[(i + Len(x)) + k - 1] = y[k]
  <2>1. Len(x) + k \in 1 .. Len(x) + Len(y) /\ i + (Len(x) + k) - 1 = (i + Len(x)) + k - 1
    BY Concatenation
  <2>2. s[i + (Len(x) + k) - 1] = (x \o y)[Len(x) + k]
    BY <1>1, <2>1
  <2>3. QED
    BY <2>1, <2>2, Concatenation
<1>4. QED
  BY <1>2, <1>3 DEF Spells

Dotted(x, y) == x \o <<Dot>> \o y

\* The facts about a text x, a dot and a text y that the proofs use.
LEMMA DottedParts ==
  ASSUME NEW S, NEW x \in Seq(S), NEW y \in Seq(S), NEW d \in Seq(S), Len(d) = 1
  PROVE  /\ x \o d \in Seq(S) /\ Len(x) \in Nat /\ Len(x \o d) = Len(x) + 1
         /\ (x \o d) \o y \in Seq(S) /\ Len(y) \in Nat
         /\ Len((x \o d) \o y) = Len(x) + 1 + Len(y)
<1>1. x \o d \in Seq(S) /\ Len(x) \in Nat /\ Len(x \o d) = Len(x) + 1
  <2>1. x \o d \in Seq(S) /\ Len(x) \in Nat /\ Len(x \o d) = Len(x) + Len(d)
    BY Concatenation, Zenon
  <2>2. QED
    BY <2>1
<1> DEFINE z == x \o d
<1> HIDE DEF z
<1>2. z \in Seq(S) /\ Len(z) = Len(x) + 1
  BY <1>1 DEF z
<1>3. z \o y \in Seq(S) /\ Len(y) \in Nat /\ Len(z \o y) = Len(x) + 1 + Len(y)
  <2>1. z \o y \in Seq(S) /\ Len(y) \in Nat /\ Len(z \o y) = Len(z) + Len(y)
    BY <1>2, Concatenation, Zenon
  <2>2. QED
    BY <1>2, <2>1
<1>4. QED
  BY <1>1, <1>3 DEF z

\* The text of a dot.
LEMMA DotText == <<Dot>> \in Texts /\ Len(<<Dot>>) = 1 /\ <<Dot>>[1] = Dot
BY DEF Texts

LEMMA DottedText ==
  ASSUME NEW x \in Texts, NEW y \in Texts
  PROVE  /\ Dotted(x, y) \in Texts /\ Len(x) \in Nat /\ Len(y) \in Nat
         /\ Len(Dotted(x, y)) = Len(x) + 1 + Len(y)
BY DotText, DottedParts, Zenon DEF Dotted, Texts

LEMMA DottedLayout ==
  ASSUME NEW x \in Texts, NEW y \in Texts, NEW s, NEW i \in Nat, Spells(s, i, Dotted(x, y))
  PROVE  Spells(s, i, x) /\ s[i + Len(x)] = Dot /\ Spells(s, i + Len(x) + 1, y)
<1> DEFINE dot == <<Dot>>
<1>1. dot \in Texts /\ Len(dot) = 1 /\ dot[1] = Dot
  BY DotText
<1>2. Spells(s, i, (x \o dot) \o y)
  BY DEF Dotted
<1> HIDE DEF dot
<1>3. x \o dot \in Texts /\ Len(x \o dot) = Len(x) + 1 /\ Len(x) \in Nat
  <2>1. x \in Seq(Digits \union {Dot}) /\ y \in Seq(Digits \union {Dot})
        /\ dot \in Seq(Digits \union {Dot})
    BY <1>1 DEF Texts
  <2>2. x \o dot \in Seq(Digits \union {Dot}) /\ Len(x) \in Nat
        /\ Len(x \o dot) = Len(x) + Len(dot)
    BY <2>1, Concatenation, Zenon
  <2>3. x \o dot \in Texts
    BY <2>2 DEF Texts
  <2>4. QED
    BY <1>1, <2>2, <2>3
<1>4. Spells(s, i, x \o dot) /\ Spells(s, i + Len(x \o dot), y)
  BY <1>2, <1>3, SpellsBoth, Zenon DEF Texts
<1>5. Spells(s, i, x) /\ Spells(s, i + Len(x), dot)
  BY <1>1, <1>4, SpellsBoth, Zenon DEF Texts
<1>6. s[(i + Len(x)) + 1 - 1] = dot[1]
  BY <1>1, <1>5 DEF Spells
<1>7. (i + Len(x)) + 1 - 1 = i + Len(x) /\ i + Len(x \o dot) = i + Len(x) + 1
  BY <1>3
<1>8. QED
  BY <1>1, <1>4, <1>5, <1>6, <1>7

LEMMA DecimalText ==
  ASSUME NEW n \in Parts
  PROVE  Decimal(n) \in Texts /\ Len(Decimal(n)) \in Nat /\ Len(Decimal(n)) >= 1
<1>1. n \in Nat
  BY PartAssumption DEF Parts
<1>2. Decimal(n) \in Seq(Digits) /\ Len(Decimal(n)) \in Nat /\ Len(Decimal(n)) >= 1
  BY <1>1, DecimalType
<1>3. Seq(Digits) \subseteq Texts
  BY DEF Texts
<1>4. QED
  BY <1>2, <1>3

LEMMA ShortText ==
  ASSUME NEW v \in Versions
  PROVE  /\ v[1] \in Parts /\ v[2] \in Parts /\ v[3] \in Parts /\ v = <<v[1], v[2], v[3]>>
         /\ Short(v) = Dotted(Decimal(v[1]), Decimal(v[2])) /\ Short(v) \in Texts
         /\ Len(Short(v)) = Len(Decimal(v[1])) + 1 + Len(Decimal(v[2]))
<1>1. v[1] \in Parts /\ v[2] \in Parts /\ v[3] \in Parts /\ v = <<v[1], v[2], v[3]>>
  BY DEF Versions
<1>2. Short(v) = Dotted(Decimal(v[1]), Decimal(v[2]))
  BY DEF Short, Dotted
<1>3. Decimal(v[1]) \in Texts /\ Decimal(v[2]) \in Texts
  BY <1>1, DecimalText
<1>4. QED
  BY <1>1, <1>2, <1>3, DottedText, Zenon

LEMMA LongText ==
  ASSUME NEW v \in Versions
  PROVE  /\ Long(v) = Dotted(Short(v), Decimal(v[3])) /\ Long(v) \in Texts
         /\ Len(Long(v)) = Len(Short(v)) + 1 + Len(Decimal(v[3]))
<1>1. Long(v) = Dotted(Short(v), Decimal(v[3]))
  BY DEF Long, Dotted
<1>2. Short(v) \in Texts /\ Decimal(v[3]) \in Texts
  BY ShortText, DecimalText
<1>3. QED
  BY <1>1, <1>2, DottedText, Zenon

\* Position e is behind the last character of s, or it is not c's.
EndsAt(s, e) == e <= Len(s) + 1 /\ (e = Len(s) + 1 \/ s[e] \notin Digits)

\* Where s has a version's first two numbers, both are read.
LEMMA ShortLayout ==
  ASSUME NEW v \in Versions, NEW s, Len(s) \in Nat, NEW i \in Nat \ {0},
         Spells(s, i, Short(v)), EndsAt(s, i + Len(Short(v)))
  PROVE  /\ HasTwo(s, i, v[1], v[2])
         /\ AfterTwo(i, v[1], v[2]) = i + Len(Short(v))
<1> DEFINE x == Decimal(v[1])
           y == Decimal(v[2])
           j == i + Len(x)
<1>1. /\ v[1] \in Parts /\ v[2] \in Parts
      /\ Short(v) = Dotted(x, y) /\ Len(Short(v)) = Len(x) + 1 + Len(y)
  BY ShortText
<1>2. x \in Texts /\ Len(x) \in Nat /\ Len(x) >= 1 /\ y \in Texts /\ Len(y) \in Nat /\ Len(y) >= 1
  BY <1>1, DecimalText
<1>3. Spells(s, i, x) /\ s[j] = Dot /\ Spells(s, j + 1, y)
  BY <1>1, <1>2, DottedLayout
<1>4. i + Len(Short(v)) = j + 1 + Len(y) /\ j \in Nat
  BY <1>1, <1>2
<1>5. EndsAt(s, j + 1 + Len(y))
  BY <1>4
<1> HIDE DEF x, y
<1>6. j <= Len(s)
  BY <1>2, <1>5 DEF EndsAt
<1>7. HasPart(s, i, v[1])
  BY <1>3, <1>6, DotAssumption DEF HasPart, x
<1>8. HasPart(s, j + 1, v[2])
  BY <1>3, <1>5 DEF HasPart, EndsAt, y
<1>9. HasTwo(s, i, v[1], v[2])
  BY <1>3, <1>6, <1>7, <1>8 DEF HasTwo, x
<1>10. QED
  BY <1>4, <1>9 DEF AfterTwo, x, y

LEMMA ReadShortAt ==
  ASSUME NEW v \in Versions, NEW s, Len(s) \in Nat, NEW i \in Nat \ {0},
         Spells(s, i, Short(v)), EndsAt(s, i + Len(Short(v))), ~DotAt(s, i + Len(Short(v)))
  PROVE  ParseDottedAt(s, i) = <<v[1], v[2], 0>>
BY ShortText, ShortLayout, ShortIsRead

LEMMA ReadLongAt ==
  ASSUME NEW v \in Versions, NEW s, Len(s) \in Nat, NEW i \in Nat \ {0},
         Spells(s, i, Long(v)), EndsAt(s, i + Len(Long(v)))
  PROVE  ParseDottedAt(s, i) = v
<1> DEFINE x == Short(v)
           y == Decimal(v[3])
           k == i + Len(x)
<1>1. v[1] \in Parts /\ v[2] \in Parts /\ v[3] \in Parts /\ v = <<v[1], v[2], v[3]>> /\ x \in Texts
  BY ShortText
<1>2. y \in Texts /\ Len(y) \in Nat /\ Len(y) >= 1
  BY <1>1, DecimalText
<1>3. Long(v) = Dotted(x, y) /\ Len(Long(v)) = Len(x) + 1 + Len(y)
  BY LongText
<1> HIDE DEF x, y
<1>4. Len(x) \in Nat
  BY <1>1 DEF Texts
<1>5. Spells(s, i, x) /\ s[k] = Dot /\ Spells(s, k + 1, y)
  BY <1>1, <1>2, <1>3, DottedLayout
<1>6. i + Len(Long(v)) = k + 1 + Len(y) /\ k \in Nat
  BY <1>2, <1>3, <1>4
<1>7. EndsAt(s, k + 1 + Len(y))
  BY <1>6
<1>8. k <= Len(s)
  BY <1>2, <1>6, <1>7 DEF EndsAt
<1>9. EndsAt(s, k) /\ DotAt(s, k)
  BY <1>5, <1>6, <1>8, DotAssumption DEF EndsAt, DotAt
<1>10. HasPart(s, k + 1, v[3])
  BY <1>5, <1>7 DEF HasPart, EndsAt, y
<1>11. HasTwo(s, i, v[1], v[2]) /\ AfterTwo(i, v[1], v[2]) = k
  BY <1>5, <1>9, ShortLayout DEF x
<1> HIDE DEF k
<1>12. ParseDottedAt(s, i) = <<v[1], v[2], v[3]>>
  BY <1>1, <1>9, <1>10, <1>11, LongIsRead
<1>13. QED
  BY <1>1, <1>12

LEMMA TextIsItself ==
  ASSUME NEW s \in Texts
  PROVE  Len(s) \in Nat /\ Spells(s, 1, s) /\ EndsAt(s, 1 + Len(s)) /\ ~DotAt(s, 1 + Len(s))
<1>1. Len(s) \in Nat
  BY DEF Texts
<1>2. QED
  BY <1>1 DEF Spells, EndsAt, DotAt

\* The trim takes all the white space around a text of digits and dots away,
\* and nothing else.
LEMMA PaddedIsTrimmed ==
  ASSUME NEW S, NEW s \in Seq(S), NEW text \in Texts, text # <<>>, Padded(s, text)
  PROVE  Trim(s) = text
<1>1. PICK i \in 1 .. Len(s) - Len(text) + 1 :
        /\ text = SubSeq(s, i, i + Len(text) - 1)
        /\ \A j \in DOMAIN s : j \notin i .. i + Len(text) - 1 => s[j] = Blank
  BY DEF Padded
<1> DEFINE n == Len(text)
           m == i + n - 1
<1>2. Len(s) \in Nat /\ DOMAIN s = 1 .. Len(s) /\ n \in Nat /\ n # 0
      /\ \A k \in 1 .. n : text[k] \in Digits \union {Dot}
  BY LenProperties, EmptySeq, ElementOfSeq DEF Texts
<1> HIDE DEF n
<1>3. i \in Nat /\ m \in i .. Len(s)
  BY <1>1, <1>2 DEF n
<1>4. \A j \in i .. m : s[j] \in S
  BY <1>2, <1>3, ElementOfSeq
<1>5. \A k \in 1 .. m - i + 1 : SubSeq(s, i, m)[k] = s[i + k - 1]
  BY <1>3, <1>4, SubSeqProperties
<1>6. \A j \in i .. m : s[j] # Blank
  <2> SUFFICES ASSUME NEW j \in i .. m PROVE s[j] # Blank
    OBVIOUS
  <2>1. j - i + 1 \in 1 .. n /\ n = m - i + 1 /\ i + (j - i + 1) - 1 = j
    BY <1>2, <1>3
  <2>2. text[j - i + 1] = s[j]
    BY <1>1, <1>5, <2>1 DEF n
  <2>3. QED
    BY <1>2, <2>1, <2>2, BlankAssumption
<1> DEFINE inked == {j \in DOMAIN s : s[j] # Blank}
           first == CHOOSE j \in inked : \A k \in inked : j <= k
           last  == CHOOSE j \in inked : \A k \in inked : k <= j
<1>7. inked = i .. m
  BY <1>1, <1>2, <1>3, <1>6 DEF n
<1>8. Trim(s) = IF inked = {} THEN <<>> ELSE SubSeq(s, first, last)
  BY DEF Trim
<1> HIDE DEF inked, m
<1>9. i \in inked /\ m \in inked /\ (\A k \in inked : k \in Int /\ i <= k /\ k <= m)
  BY <1>3, <1>7
<1>10. first = i /\ last = m
  <2>1. first \in inked /\ \A k \in inked : first <= k
    BY <1>9
  <2>2. last \in inked /\ \A k \in inked : k <= last
    BY <1>9
  <2> HIDE DEF first, last
  <2>3. QED
    BY <1>9, <2>1, <2>2
<1>11. QED
  BY <1>1, <1>8, <1>9, <1>10 DEF n, m

\* A version that is written in full is read back as that version, and one
\* written as its first two numbers as the release they name; whatever the
\* numbers, 2.10 as well as 2.9.  The command line takes it when it is 2.4 or
\* newer, with or without white space around it (parse_exact_version,
\* parse_cli_openvpn_version).
THEOREM WrittenIsRead ==
  ASSUME NEW v \in Versions, NEW S, NEW s \in Seq(S), Padded(s, Long(v))
  PROVE  /\ ParseExact(Long(v)) = v
         /\ ParseExact(Short(v)) = <<v[1], v[2], 0>>
         /\ ParseCli(s) = IF MeetsMinimum(v) THEN v ELSE NoVersion
<1>1. Long(v) \in Texts /\ Short(v) \in Texts
  BY ShortText, LongText
<1>2. ParseDottedAt(Long(v), 1) = v
  BY <1>1, TextIsItself, ReadLongAt
<1>3. ParseDottedAt(Short(v), 1) = <<v[1], v[2], 0>>
  BY <1>1, TextIsItself, ReadShortAt
<1>4. v # NoVersion
  BY VersionAssumption
<1>5. ParseExact(Long(v)) = v
  BY <1>2, <1>4 DEF ParseExact
<1> DEFINE w == <<v[1], v[2], 0>>
<1>6. w \in Versions
  BY ShortText, PartAssumption DEF Versions, Parts
<1>7. Short(w) = Short(v)
  BY DEF Short
<1>8. ParseExact(Short(v)) = w
  BY <1>3, <1>6, <1>7, VersionAssumption DEF ParseExact
<1>9. Long(v) # <<>>
  <2>1. Len(Long(v)) >= 1
    BY LongText, ShortText, DecimalText
  <2>2. QED
    BY <2>1
<1>10. Trim(s) = Long(v)
  BY <1>1, <1>9, PaddedIsTrimmed
<1>11. QED
  BY <1>4, <1>5, <1>8, <1>10 DEF ParseCli

\* s is x behind a text, and before another.
IsBetween(s, before, x, after) ==
  /\ Len(before) \in Nat /\ Len(x) \in Nat /\ Len(after) \in Nat
  /\ Len(s) = Len(before) + Len(x) + Len(after)
  /\ \A j \in 1 .. Len(before) : s[j] = before[j]
  /\ Spells(s, Len(before) + 1, x)
  /\ \A j \in 1 .. Len(after) : s[Len(before) + Len(x) + j] = after[j]

LEMMA Between ==
  ASSUME NEW C, NEW before \in Seq(C), NEW x \in Seq(C), NEW after \in Seq(C)
  PROVE  /\ (before \o x) \o after \in Seq(C)
         /\ IsBetween((before \o x) \o after, before, x, after)
<1>1. PICK p : p = before \o x
  OBVIOUS
<1>2. PICK s : s = p \o after
  OBVIOUS
<1>3. p \in Seq(C) /\ IsConcat(p, before, x)
  BY <1>1, ConcatIs, Zenon
<1>4. s \in Seq(C) /\ IsConcat(s, p, after)
  BY <1>2, <1>3, ConcatIs, Zenon
<1>5. \A j \in 1 .. Len(before) : s[j] = before[j]
  BY <1>3, <1>4 DEF IsConcat
<1>6. ASSUME NEW j \in 1 .. Len(x)
      PROVE  s[(Len(before) + 1) + j - 1] = x[j]
  <2>1. Len(before) + j \in 1 .. Len(p) /\ (Len(before) + 1) + j - 1 = Len(before) + j
    BY <1>3 DEF IsConcat
  <2>2. QED
    BY <1>3, <1>4, <2>1 DEF IsConcat
<1>7. Spells(s, Len(before) + 1, x)
  BY <1>6 DEF Spells
<1>8. IsBetween(s, before, x, after)
  BY <1>3, <1>4, <1>5, <1>7 DEF IsConcat, IsBetween
<1>9. QED
  BY <1>1, <1>2, <1>4, <1>8, Zenon

\* The text of a version starts with a digit.
LEMMA StartsWithDigit ==
  ASSUME NEW v \in Versions
  PROVE  /\ Short(v)[1] \in Digits /\ Long(v)[1] \in Digits
         /\ Len(Short(v)) >= 1 /\ Len(Long(v)) >= 1
<1> DEFINE d == Decimal(v[1])
           y == Decimal(v[2])
           z == Decimal(v[3])
<1>1. v[1] \in Nat /\ v[1] \in Parts /\ v[2] \in Parts /\ v[3] \in Parts
  BY ShortText, PartAssumption DEF Parts
<1>2. d \in Seq(Digits) /\ Len(d) \in Nat /\ Len(d) >= 1
  BY <1>1, DecimalType
<1>3. d \in Texts /\ y \in Texts /\ z \in Texts /\ Len(y) \in Nat /\ Len(z) \in Nat
  BY <1>1, DecimalText
<1>4. Short(v) = Dotted(d, y) /\ Long(v) = Dotted(Short(v), z) /\ Short(v) \in Texts /\ Long(v) \in Texts
  BY ShortText, LongText
<1>5. Len(Short(v)) = Len(d) + 1 + Len(y) /\ Len(Long(v)) = Len(Short(v)) + 1 + Len(z)
  BY ShortText, LongText
<1> HIDE DEF d, y, z
<1>6. d[1] \in Digits
  BY <1>2
<1>7. Spells(Short(v), 1, d) /\ Spells(Long(v), 1, Short(v))
  BY <1>3, <1>4, TextIsItself, DottedLayout
<1>8. Short(v)[1 + 1 - 1] = d[1]
  BY <1>2, <1>7 DEF Spells
<1>9. Len(Short(v)) >= 1 /\ Len(Long(v)) >= 1
  BY <1>2, <1>3, <1>5
<1>10. Long(v)[1 + 1 - 1] = Short(v)[1]
  BY <1>4, <1>7, <1>9 DEF Spells, Texts
<1>11. QED
  BY <1>6, <1>8, <1>9, <1>10

\* A host may print whatever it likes around its version, as long as no digit
\* comes first and none follows at once: the version is found
\* (parse_openvpn_version).  Behind one of two numbers no dot may follow
\* either, for it would begin a third.
THEOREM BannerIsRead ==
  ASSUME NEW C, Digits \union {Dot} \subseteq C, NEW v \in Versions,
         NEW before \in Seq(C), \A j \in 1 .. Len(before) : before[j] \notin Digits,
         NEW after \in Seq(C), Len(after) >= 1 => after[1] \notin Digits
  PROVE  /\ ParseVersion((before \o Long(v)) \o after) = v
         /\ (Len(after) >= 1 => after[1] # Dot) =>
              ParseVersion((before \o Short(v)) \o after) = <<v[1], v[2], 0>>
<1>1. ASSUME NEW x \in Texts, Len(x) >= 1, x[1] \in Digits, NEW s, s = (before \o x) \o after
      PROVE  LET i == Len(before) + 1 IN
             /\ Len(s) \in Nat /\ DOMAIN s = 1 .. Len(s) /\ i \in 1 .. Len(s)
             /\ \A j \in 1 .. i - 1 : s[j] \notin Digits
             /\ s[i] \in Digits /\ Spells(s, i, x) /\ EndsAt(s, i + Len(x))
             /\ (Len(after) >= 1 => after[1] # Dot) => ~DotAt(s, i + Len(x))
  <2> DEFINE i == Len(before) + 1
  <2>1. Texts \subseteq Seq(C)
    BY DEF Texts
  <2>2. /\ Len(before) \in Nat /\ Len(x) \in Nat /\ Len(after) \in Nat
        /\ s \in Seq(C) /\ Len(s) = Len(before) + Len(x) + Len(after)
        /\ \A j \in 1 .. Len(before) : s[j] = before[j]
        /\ Spells(s, i, x)
        /\ \A j \in 1 .. Len(after) : s[Len(before) + Len(x) + j] = after[j]
    <3>1. s \in Seq(C) /\ IsBetween(s, before, x, after)
      BY <1>1, <2>1, Between, Zenon
    <3>2. QED
      BY <3>1 DEF IsBetween
  <2>3. Len(s) \in Nat /\ DOMAIN s = 1 .. Len(s) /\ i \in 1 .. Len(s)
    BY <1>1, <2>2
  <2>4. \A j \in 1 .. i - 1 : s[j] \notin Digits
    BY <2>2
  <2>5. s[i + 1 - 1] = x[1]
    BY <1>1, <2>2 DEF Spells
  <2>6. s[i] \in Digits
    BY <1>1, <2>2, <2>5
  <2>7. i + Len(x) = Len(s) + 1 \/ (Len(after) >= 1 /\ i + Len(x) <= Len(s) /\ s[i + Len(x)] = after[1])
    <3>1. CASE Len(after) = 0
      BY <2>2, <3>1
    <3>2. CASE Len(after) # 0
      <4>1. 1 \in 1 .. Len(after) /\ Len(before) + Len(x) + 1 = i + Len(x)
        BY <2>2, <3>2
      <4>2. s[Len(before) + Len(x) + 1] = after[1]
        BY <2>2, <4>1
      <4>3. QED
        BY <2>2, <4>1, <4>2
    <3>3. QED
      BY <3>1, <3>2
  <2>8. EndsAt(s, i + Len(x))
    BY <2>2, <2>7 DEF EndsAt
  <2>9. (Len(after) >= 1 => after[1] # Dot) => ~DotAt(s, i + Len(x))
    BY <2>2, <2>7 DEF DotAt
  <2> HIDE DEF i
  <2>10. QED
    BY <2>2, <2>3, <2>4, <2>6, <2>8, <2>9 DEF i
<1> DEFINE i == Len(before) + 1
<1>2. i \in Nat \ {0}
  OBVIOUS
<1>3. v # NoVersion /\ <<v[1], v[2], 0>> # NoVersion
  BY ShortText, VersionAssumption, PartAssumption DEF Versions, Parts
<1>4. ParseVersion((before \o Long(v)) \o after) = v
  <2>1. PICK s : s = (before \o Long(v)) \o after
    OBVIOUS
  <2>2. /\ Len(s) \in Nat /\ DOMAIN s = 1 .. Len(s) /\ i \in 1 .. Len(s)
        /\ \A j \in 1 .. i - 1 : s[j] \notin Digits
        /\ s[i] \in Digits /\ Spells(s, i, Long(v)) /\ EndsAt(s, i + Len(Long(v)))
    BY <1>1, <2>1, LongText, StartsWithDigit
  <2> HIDE DEF i
  <2>3. ParseDottedAt(s, i) = v
    BY <1>2, <2>2, ReadLongAt
  <2>4. ParseVersion(s) = v
    BY <1>3, <2>2, <2>3, FirstIsRead
  <2>5. QED
    BY <2>1, <2>4
<1>5. ASSUME Len(after) >= 1 => after[1] # Dot
      PROVE  ParseVersion((before \o Short(v)) \o after) = <<v[1], v[2], 0>>
  <2>1. PICK s : s = (before \o Short(v)) \o after
    OBVIOUS
  <2>2. /\ Len(s) \in Nat /\ DOMAIN s = 1 .. Len(s) /\ i \in 1 .. Len(s)
        /\ \A j \in 1 .. i - 1 : s[j] \notin Digits
        /\ s[i] \in Digits /\ Spells(s, i, Short(v)) /\ EndsAt(s, i + Len(Short(v)))
        /\ ~DotAt(s, i + Len(Short(v)))
    BY <1>1, <1>5, <2>1, ShortText, StartsWithDigit
  <2> HIDE DEF i
  <2>3. ParseDottedAt(s, i) = <<v[1], v[2], 0>>
    BY <1>2, <2>2, ReadShortAt
  <2>4. ParseVersion(s) = <<v[1], v[2], 0>>
    BY <1>3, <2>2, <2>3, FirstIsRead
  <2>5. QED
    BY <2>1, <2>4
<1>6. QED
  BY <1>4, <1>5

-----------------------------------------------------------------------------
(* The gate.                                                               *)

\* MeetsMinimum is the order of versions, read from the left: a host of 2.4 or
\* later runs a build, whatever its patch, and 2.10 is later than 2.9.
OlderThanMinimum(v) == v[1] < 2 \/ (v[1] = 2 /\ v[2] < 4)

LEMMA MinimumIsOrder ==
  ASSUME NEW v \in Versions
  PROVE  MeetsMinimum(v) <=> ~OlderThanMinimum(v)
<1>1. v[1] \in Nat /\ v[2] \in Nat
  BY PartAssumption DEF Versions, Parts
<1>2. Baseline[1] = 2 /\ Baseline[2] = 4
  BY DEF Baseline
<1>3. QED
  BY <1>1, <1>2 DEF MeetsMinimum, OlderThanMinimum

\* Whatever version a host prints, and whatever it prints around it, a build
\* of this release passes the gate exactly when that version is 2.4 or later
\* (parse_openvpn_version, can_run_on).
THEOREM GateReadsBanner ==
  ASSUME NEW C, Digits \union {Dot} \subseteq C, NEW v \in Versions,
         NEW before \in Seq(C), \A j \in 1 .. Len(before) : before[j] \notin Digits,
         NEW after \in Seq(C), Len(after) >= 1 => after[1] \notin Digits,
         NEW dialect
  PROVE  CanRunOn(dialect, ParseVersion((before \o Long(v)) \o after))
           <=> dialect = Dialect24 /\ ~OlderThanMinimum(v)
<1>1. ParseVersion((before \o Long(v)) \o after) = v
  BY BannerIsRead
<1>2. v # NoVersion
  BY VersionAssumption
<1>3. QED
  BY <1>1, <1>2, MinimumIsOrder, Zenon DEF CanRunOn

\* The numbers of the banners of MCConnect: one digit, or 10.
LEMMA DigitPart ==
  ASSUME NEW s, Len(s) \in Nat, NEW i \in 1 .. Len(s), NEW n \in 0 .. 9, s[i] = n,
         i = Len(s) \/ s[i + 1] \notin Digits
  PROVE  i + Len(Decimal(n)) = i + 1 /\ HasPart(s, i, n)
<1>1. Decimal(n) = <<n>>
  BY DecimalStep
<1> DEFINE d == Decimal(n)
<1>2. Len(d) = 1 /\ d[1] = n
  BY <1>1
<1> HIDE DEF d
<1>3. Spells(s, i, d)
  BY <1>2 DEF Spells
<1>4. QED
  BY <1>2, <1>3 DEF HasPart, d

LEMMA TenPart ==
  ASSUME NEW s, Len(s) \in Nat, NEW i \in 1 .. Len(s) - 1, s[i] = 1, s[i + 1] = 0,
         i + 1 = Len(s) \/ s[i + 2] \notin Digits
  PROVE  i + Len(Decimal(10)) = i + 2 /\ HasPart(s, i, 10)
<1>1. PICK n \in Nat : n = 10
  OBVIOUS
<1>2. Decimal(n) = Append(Decimal(n \div 10), n % 10) /\ n \div 10 = 1 /\ n % 10 = 0
  BY <1>1, DecimalStep
<1>3. Decimal(1) = <<1>>
  BY DecimalStep
<1>4. Decimal(10) = Append(<<1>>, 0)
  BY <1>1, <1>2, <1>3
<1> DEFINE d == Decimal(10)
<1>5. Len(d) = 2 /\ d[1] = 1 /\ d[2] = 0
  BY <1>4
<1> HIDE DEF d
<1>6. \A k \in 1 .. Len(d) : s[i + k - 1] = d[k]
  <2>1. \A k \in 1 .. Len(d) : k = 1 \/ k = 2
    BY <1>5
  <2>2. i + 1 - 1 = i /\ i + 2 - 1 = i + 1
    OBVIOUS
  <2>3. QED
    BY <1>5, <2>1, <2>2
<1>7. i + Len(d) <= Len(s) + 1 /\ (i + Len(d) = Len(s) + 1 \/ s[i + Len(d)] \notin Digits)
  BY <1>5
<1>8. HasPart(s, i, 10)
  BY <1>6, <1>7, Zenon DEF HasPart, Spells, d
<1>9. QED
  BY <1>5, <1>8 DEF d

LEMMA OldIsRead ==
  ASSUME X \notin Digits, X # Dot, MaxPart >= 10
  PROVE  ParseVersion(Old) = <<2, 3, 9>>
<1>1. PICK s : s = Old
  OBVIOUS
<1>2. /\ Len(s) = 8 /\ DOMAIN s = 1 .. 8
      /\ s[1] = X /\ s[2] = 2 /\ s[3] = Dot /\ s[4] = 3 /\ s[5] = Dot /\ s[6] = 9 /\ s[7] = X
  BY <1>1 DEF Old
<1>3. HasPart(s, 2, 2) /\ 2 + Len(Decimal(2)) = 3
  BY <1>2, DotAssumption, DigitPart
<1>4. HasPart(s, 4, 3) /\ 4 + Len(Decimal(3)) = 5 /\ HasPart(s, 6, 9)
  BY <1>2, DotAssumption, DigitPart
<1>5. HasTwo(s, 2, 2, 3) /\ AfterTwo(2, 2, 3) = 4 + Len(Decimal(3))
  <2> DEFINE j == 2 + Len(Decimal(2))
  <2>1. j = 3 /\ j <= Len(s) /\ s[j] = Dot /\ j + 1 = 4
    BY <1>2, <1>3
  <2> HIDE DEF j
  <2>2. HasPart(s, j + 1, 3)
    BY <1>4, <2>1
  <2>3. HasTwo(s, 2, 2, 3)
    BY <1>3, <2>1, <2>2, Zenon DEF HasTwo, j
  <2>4. AfterTwo(2, 2, 3) = j + 1 + Len(Decimal(3))
    BY DEF AfterTwo, j
  <2>5. QED
    BY <2>1, <2>3, <2>4
<1>a. DotAt(s, AfterTwo(2, 2, 3)) /\ HasPart(s, AfterTwo(2, 2, 3) + 1, 9)
  BY <1>2, <1>4, <1>5 DEF DotAt
<1>6. 2 \in Parts /\ 3 \in Parts /\ 9 \in Parts
  BY PartAssumption DEF Parts
<1>7. ParseDottedAt(s, 2) = <<2, 3, 9>>
  BY <1>2, <1>5, <1>6, <1>a, LongIsRead
<1>8. <<2, 3, 9>> # NoVersion
  BY <1>6, VersionAssumption DEF Versions
<1>9. \A j \in 1 .. 2 - 1 : s[j] \notin Digits
  BY <1>2
<1>10. 2 \in 1 .. Len(s) /\ s[2] \in Digits /\ Len(s) \in Nat /\ DOMAIN s = 1 .. Len(s)
  BY <1>2 DEF Digits
<1>11. ParseVersion(s) = <<2, 3, 9>>
  BY <1>7, <1>8, <1>9, <1>10, FirstIsRead
<1>12. QED
  BY <1>1, <1>11

LEMMA NewerIsRead ==
  ASSUME X \notin Digits, X # Dot, MaxPart >= 10
  PROVE  ParseVersion(Newer) = <<2, 10, 0>>
<1>1. PICK s : s = Newer
  OBVIOUS
<1>2. /\ Len(s) = 6 /\ DOMAIN s = 1 .. 6
      /\ s[1] = X /\ s[2] = 2 /\ s[3] = Dot /\ s[4] = 1 /\ s[5] = 0 /\ s[6] = X
  BY <1>1 DEF Newer
<1>3. HasPart(s, 2, 2) /\ 2 + Len(Decimal(2)) = 3
  BY <1>2, DotAssumption, DigitPart
<1>4. HasPart(s, 4, 10) /\ 4 + Len(Decimal(10)) = 6
  BY <1>2, DotAssumption, TenPart
<1>5. HasTwo(s, 2, 2, 10) /\ AfterTwo(2, 2, 10) = 4 + Len(Decimal(10))
  <2> DEFINE j == 2 + Len(Decimal(2))
  <2>1. j = 3 /\ j <= Len(s) /\ s[j] = Dot /\ j + 1 = 4
    BY <1>2, <1>3
  <2> HIDE DEF j
  <2>2. HasPart(s, j + 1, 10)
    BY <1>4, <2>1
  <2>3. HasTwo(s, 2, 2, 10)
    BY <1>3, <2>1, <2>2, Zenon DEF HasTwo, j
  <2>4. AfterTwo(2, 2, 10) = j + 1 + Len(Decimal(10))
    BY DEF AfterTwo, j
  <2>5. QED
    BY <2>1, <2>3, <2>4
<1>a. ~DotAt(s, AfterTwo(2, 2, 10))
  BY <1>2, <1>4, <1>5 DEF DotAt
<1>6. 2 \in Parts /\ 10 \in Parts /\ 0 \in Parts
  BY PartAssumption DEF Parts
<1>7. ParseDottedAt(s, 2) = <<2, 10, 0>>
  BY <1>2, <1>5, <1>6, <1>a, ShortIsRead
<1>8. <<2, 10, 0>> # NoVersion
  BY <1>6, VersionAssumption DEF Versions
<1>9. \A j \in 1 .. 2 - 1 : s[j] \notin Digits
  BY <1>2
<1>10. 2 \in 1 .. Len(s) /\ s[2] \in Digits /\ Len(s) \in Nat /\ DOMAIN s = 1 .. Len(s)
  BY <1>2 DEF Digits
<1>11. ParseVersion(s) = <<2, 10, 0>>
  BY <1>7, <1>8, <1>9, <1>10, FirstIsRead
<1>12. QED
  BY <1>1, <1>11

LEMMA MajorIsRead ==
  ASSUME MaxPart >= 10
  PROVE  ParseVersion(Major) = <<3, 0, 1>>
<1>1. PICK s : s = Major
  OBVIOUS
<1>2. /\ Len(s) = 5 /\ DOMAIN s = 1 .. 5
      /\ s[1] = 3 /\ s[2] = Dot /\ s[3] = 0 /\ s[4] = Dot /\ s[5] = 1
  BY <1>1 DEF Major
<1>3. HasPart(s, 1, 3) /\ 1 + Len(Decimal(3)) = 2
  BY <1>2, DotAssumption, DigitPart
<1>4. HasPart(s, 3, 0) /\ 3 + Len(Decimal(0)) = 4 /\ HasPart(s, 5, 1)
  <2>1. Len(s) \in Nat /\ 3 \in 1 .. Len(s) /\ 5 \in 1 .. Len(s) /\ 5 = Len(s)
    BY <1>2
  <2>2. s[3] = 0 /\ s[3 + 1] \notin Digits /\ s[5] = 1 /\ 0 \in 0 .. 9 /\ 1 \in 0 .. 9
    BY <1>2, DotAssumption
  <2>3. HasPart(s, 3, 0) /\ 3 + Len(Decimal(0)) = 3 + 1
    BY <2>1, <2>2, DigitPart, Zenon
  <2>4. HasPart(s, 5, 1)
    BY <2>1, <2>2, DigitPart, Zenon
  <2>5. QED
    BY <2>3, <2>4
<1>5. HasTwo(s, 1, 3, 0) /\ AfterTwo(1, 3, 0) = 3 + Len(Decimal(0))
  <2> DEFINE j == 1 + Len(Decimal(3))
  <2>1. j = 2 /\ j <= Len(s) /\ s[j] = Dot /\ j + 1 = 3
    BY <1>2, <1>3
  <2> HIDE DEF j
  <2>2. HasPart(s, j + 1, 0)
    BY <1>4, <2>1
  <2>3. HasTwo(s, 1, 3, 0)
    BY <1>3, <2>1, <2>2, Zenon DEF HasTwo, j
  <2>4. AfterTwo(1, 3, 0) = j + 1 + Len(Decimal(0))
    BY DEF AfterTwo, j
  <2>5. QED
    BY <2>1, <2>3, <2>4
<1>a. DotAt(s, AfterTwo(1, 3, 0)) /\ HasPart(s, AfterTwo(1, 3, 0) + 1, 1)
  BY <1>2, <1>4, <1>5 DEF DotAt
<1>6. 3 \in Parts /\ 0 \in Parts /\ 1 \in Parts
  BY PartAssumption DEF Parts
<1>7. ParseDottedAt(s, 1) = <<3, 0, 1>>
  BY <1>2, <1>5, <1>6, <1>a, LongIsRead
<1>8. <<3, 0, 1>> # NoVersion
  BY <1>6, VersionAssumption DEF Versions
<1>9. 1 \in 1 .. Len(s) /\ s[1] \in Digits /\ Len(s) \in Nat /\ DOMAIN s = 1 .. Len(s)
  BY <1>2 DEF Digits
<1>10. ParseVersion(s) = <<3, 0, 1>>
  BY <1>7, <1>8, <1>9, FirstIsRead
<1>11. QED
  BY <1>1, <1>10

LEMMA NoneIsRead == ASSUME X \notin Digits PROVE ParseVersion(None) = NoVersion
BY DEF ParseVersion, None, IsDigit

\* The banners are told apart, each is read as a reader would, and there is no
\* other.
LEMMA BannersAreRead ==
  ASSUME X \notin Digits, X # Dot, MaxPart >= 10, NEW b \in MCBanners
  PROVE  /\ ParseVersion(b) = TrueVersion[b]
         /\ ParseVersion(b) \in {<<2, 3, 9>>, <<2, 10, 0>>, <<3, 0, 1>>, NoVersion}
<1>1. Old # Newer /\ Old # Major /\ Old # None /\ Newer # Major /\ Newer # None /\ Major # None
  BY DEF Old, Newer, Major, None
<1>2. /\ MCBanners = {Old, Newer, Major, None}
      /\ TrueVersion[Old] = <<2, 3, 9>> /\ TrueVersion[Newer] = <<2, 10, 0>>
      /\ TrueVersion[Major] = <<3, 0, 1>> /\ TrueVersion[None] = NoVersion
  BY <1>1 DEF MCBanners, TrueVersion
<1>3. QED
  BY <1>2, OldIsRead, NewerIsRead, MajorIsRead, NoneIsRead

\* The gate lets a build through exactly when the host's OpenVPN is 2.4 or
\* newer and the build's dialect is this release's, for the banners of
\* MCConnect and any hosts, keys and command lines.
THEOREM GateExact ==
  ASSUME Banners = MCBanners, X \notin Digits, X # Dot, MaxPart >= 10
  PROVE  Spec => []GateIsExact
<1>1. TypeInv => GateIsExact
  <2> SUFFICES ASSUME TypeInv, pc = "gate"
               PROVE  LET v == TrueVersion[job.live] IN
                      CanRunOn(dist.dialect, ParseVersion(job.live)) <=>
                        /\ dist.dialect # OldDialect
                        /\ v # NoVersion /\ 1000 * v[1] + v[2] >= 2004
    BY DEF GateIsExact
  <2>1. job.live \in MCBanners
    BY DEF TypeInv, TypeOK, Jobs
  <2>2. dist \in Stamps
    BY DEF TypeInv, TypeOK, InHand
  <2>3. dist.dialect = Dialect24 <=> dist.dialect # OldDialect
    BY <2>2, ConnectAssumption DEF Stamps
  <2> DEFINE w == ParseVersion(job.live)
  <2>4. w = TrueVersion[job.live] /\ w \in {<<2, 3, 9>>, <<2, 10, 0>>, <<3, 0, 1>>, NoVersion}
    BY <2>1, BannersAreRead
  <2> HIDE DEF w
  <2>5. (w # NoVersion /\ MeetsMinimum(w)) <=> (w # NoVersion /\ 1000 * w[1] + w[2] >= 2004)
    BY <2>4 DEF MeetsMinimum, Baseline
  <2>6. CanRunOn(dist.dialect, w) <=>
          /\ dist.dialect # OldDialect
          /\ w # NoVersion /\ 1000 * w[1] + w[2] >= 2004
    BY <2>3, <2>5 DEF CanRunOn
  <2>7. QED
    BY <2>4, <2>6 DEF w
<1>2. QED
  BY <1>1, InitType, NextType, PTL DEF Spec
=============================================================================
