---------------------------- MODULE FramingProofs ----------------------------
(***************************************************************************)
(* Theorems about Framing, for bytes, words and chunks of any width and    *)
(* payloads of any length.                                                 *)
(*                                                                         *)
(* The argument.  A sequence of bytes is read as one number (HasValue), a  *)
(* sequence of chunks as well.  Framing keeps the number: at every byte it *)
(* is the number the finished chunks have, with the bits of the buffer     *)
(* behind it; padding multiplies it by a power of two.  Taking chunks      *)
(* apart keeps it as well.  Since digits are determined by their number,   *)
(* the bytes that come out are those that went in, and clear padding       *)
(* leaves one sequence of chunks for them.                                 *)
(***************************************************************************)
EXTENDS Framing, WellFoundedInduction, TLAPS

-----------------------------------------------------------------------------
\* Induction, and functions defined by recursion on an initial segment.

\* A set that has 0 and the successor of each of its numbers below N has all
\* numbers up to N.
LEMMA NatInduct ==
    ASSUME NEW N \in Nat, NEW S, 0 \in S, \A n \in S : n \in 0..N-1 => n + 1 \in S
    PROVE  0..N \subseteq S
<1> DEFINE T == 0..N \ S
           less == {p \in Nat \X Nat : p[1] < p[2]}
<1> SUFFICES ASSUME T # {} PROVE FALSE
  OBVIOUS
<1>1. PICK u \in T : \A v \in T : ~ (<<v, u>> \in less)
  <2>1. IsWellFoundedOn(less, Nat)
    BY NatLessThanWellFounded, Zenon DEF OpToRel
  <2>2. T \subseteq Nat /\ T # {}
    OBVIOUS
  <2> HIDE DEF T, less
  <2> QED
    BY <2>1, <2>2, WFMin
<1>2. u \in Nat \ {0} /\ u <= N
  OBVIOUS
<1>3. u - 1 \notin T
  <2>1. <<u - 1, u>> \in less
    BY <1>2
  <2> HIDE DEF T, less
  <2> QED
    BY <1>1, <2>1
<1>4. u - 1 \in S /\ u - 1 \in 0..N-1
  BY <1>2, <1>3
<1>5. u \in S
  BY <1>2, <1>4
<1> QED
  BY <1>5

\* Iterating a function N times from a: the run of results exists.
IsIteration(run, A, a, N, step) ==
    /\ run \in [0..N -> A]
    /\ run[0] = a
    /\ \A i \in 1..N : run[i] = step[i][run[i - 1]]

LEMMA RunExists ==
    ASSUME NEW A, NEW a \in A, NEW N \in Nat, NEW step \in [1..N -> [A -> A]]
    PROVE  \E run : IsIteration(run, A, a, N, step)
<1> DEFINE IsRun(run, n) == /\ run[0] = a
                            /\ \A i \in 1..n : run[i] = step[i][run[i - 1]]
           S == {n \in 0..N : \E run \in [0..n -> A] : IsRun(run, n)}
<1>1. 0 \in S
  <2> DEFINE first == [i \in 0..0 |-> a]
  <2>1. first \in [0..0 -> A] /\ IsRun(first, 0) /\ 0 \in 0..N
    OBVIOUS
  <2> HIDE DEF first, IsRun
  <2> QED
    BY <2>1
<1>2. ASSUME NEW n \in S, n \in 0..N-1
      PROVE  n + 1 \in S
  <2>1. PICK run \in [0..n -> A] : IsRun(run, n)
    OBVIOUS
  <2> DEFINE longer == [i \in 0..n+1 |-> IF i = n + 1 THEN step[n + 1][run[n]] ELSE run[i]]
  <2>2. run[n] \in A /\ n + 1 \in 1..N
    <3>1. n \in 0..n /\ n + 1 \in 1..N
      BY <1>2
    <3> QED
      BY <2>1, <3>1
  <2>3. step[n + 1][run[n]] \in A
    BY <2>2
  <2>4. longer \in [0..n+1 -> A]
    BY <2>1, <2>3
  <2>5. IsRun(longer, n + 1)
    <3>1. longer[0] = a
      BY <2>1, <1>2
    <3>2. \A i \in 1..n : longer[i] = run[i] /\ longer[i - 1] = run[i - 1]
      BY <1>2
    <3>3. longer[n + 1] = step[n + 1][run[n]] /\ longer[n] = run[n]
      BY <1>2
    <3>4. \A i \in 1..n+1 : i \in 1..n \/ i = n + 1
      BY <1>2
    <3> HIDE DEF longer
    <3> QED
      BY <1>2, <2>1, <3>1, <3>2, <3>3, <3>4
  <2> HIDE DEF longer, IsRun
  <2> QED
    BY <1>2, <2>4, <2>5
<1>3. N \in S
  <2> HIDE DEF S
  <2> QED
    BY <1>1, <1>2, NatInduct
<1> QED
  BY <1>3 DEF IsIteration

\* What holds at the start of a run and is kept by its steps holds throughout.
LEMMA StaysIn ==
    ASSUME NEW N \in Nat, NEW S, NEW run, run[0] \in S,
           \A i \in 1..N : run[i - 1] \in S => run[i] \in S
    PROVE  \A i \in 0..N : run[i] \in S
<1> DEFINE T == {i \in 0..N : run[i] \in S}
<1>1. 0 \in T
  OBVIOUS
<1>2. ASSUME NEW n \in T, n \in 0..N-1
      PROVE  n + 1 \in T
  <2>1. n + 1 \in 1..N /\ (n + 1) - 1 = n /\ n + 1 \in 0..N
    BY <1>2
  <2> QED
    BY <2>1
<1>3. 0..N \subseteq T
  <2> HIDE DEF T
  <2> QED
    BY <1>1, <1>2, NatInduct
<1> QED
  BY <1>3

-----------------------------------------------------------------------------
\* Powers of two, and division.

LEMMA Pow2Run ==
    ASSUME NEW n \in Nat
    PROVE  \E power \in [0..n -> Nat] :
              /\ Pow2(n) = power[n] /\ power[0] = 1
              /\ \A i \in 1..n : power[i] = 2 * power[i - 1]
<1> DEFINE Follows(p) == p = [i \in 0..n |-> IF i = 0 THEN 1 ELSE 2 * p[i - 1]]
<1>1. \E p : Follows(p)
  <2> DEFINE step == [i \in 1..n |-> [x \in Nat |-> 2 * x]]
  <2>1. step \in [1..n -> [Nat -> Nat]]
    OBVIOUS
  <2>2. PICK p : IsIteration(p, Nat, 1, n, step)
    <3> HIDE DEF step
    <3> QED
      BY <2>1, RunExists
  <2>3. \A i \in 0..n : i = 0 \/ (i \in 1..n /\ i - 1 \in 0..n)
    OBVIOUS
  <2>4. \A i \in 0..n : p[i] = IF i = 0 THEN 1 ELSE 2 * p[i - 1]
    BY <2>2, <2>3 DEF IsIteration
  <2>5. p = [i \in 0..n |-> p[i]]
    BY <2>2 DEF IsIteration
  <2> QED
    BY <2>4, <2>5
<1>2. PICK power : power = CHOOSE p : Follows(p)
  OBVIOUS
<1>3. Follows(power)
  <2> HIDE DEF Follows
  <2> QED
    BY <1>1, <1>2
<1>4. Pow2(n) = power[n]
  BY <1>2 DEF Pow2
<1>5. power[0] = 1 /\ \A i \in 1..n : power[i] = 2 * power[i - 1]
  BY <1>3
<1>6. \A i \in 0..n : power[i] \in Nat
  <2>1. \A i \in 1..n : power[i - 1] \in Nat => power[i] \in Nat
    BY <1>5
  <2>2. power[0] \in Nat
    BY <1>5
  <2> QED
    BY ONLY <2>1, <2>2, StaysIn, n \in Nat
<1> QED
  BY <1>3, <1>4, <1>5, <1>6

LEMMA Pow2Next ==
    /\ Pow2(0) = 1
    /\ \A n \in Nat : Pow2(n) \in Nat /\ Pow2(n + 1) = 2 * Pow2(n)
<1>1. Pow2(0) = 1
  BY Pow2Run
<1>2. ASSUME NEW n \in Nat
      PROVE  Pow2(n) \in Nat /\ Pow2(n + 1) = 2 * Pow2(n)
  <2>1. PICK p \in [0..n -> Nat] : /\ Pow2(n) = p[n] /\ p[0] = 1
                                   /\ \A i \in 1..n : p[i] = 2 * p[i - 1]
    BY Pow2Run
  <2>2. PICK q \in [0..n+1 -> Nat] : /\ Pow2(n + 1) = q[n + 1] /\ q[0] = 1
                                     /\ \A i \in 1..n+1 : q[i] = 2 * q[i - 1]
    <3>1. PICK m \in Nat : m = n + 1
      OBVIOUS
    <3> QED
      BY <3>1, Pow2Run
  <2> DEFINE S == {i \in 0..n : p[i] = q[i]}
  <2>3. 0 \in S
    BY <2>1, <2>2
  <2>4. ASSUME NEW i \in S, i \in 0..n-1
        PROVE  i + 1 \in S
    <3>1. i + 1 \in 1..n /\ i + 1 \in 1..n+1 /\ (i + 1) - 1 = i
      BY <2>4
    <3> QED
      BY <2>1, <2>2, <3>1
  <2>5. 0..n \subseteq S
    <3> HIDE DEF S
    <3> QED
      BY <2>3, <2>4, NatInduct
  <2>6. p[n] = q[n] /\ n + 1 \in 1..n+1 /\ (n + 1) - 1 = n /\ n \in 0..n
    BY <2>5
  <2> QED
    BY <2>1, <2>2, <2>6
<1> QED
  BY <1>1, <1>2

LEMMA Pow2Type == \A n \in Nat : Pow2(n) \in Nat \ {0}
<1> SUFFICES ASSUME NEW n \in Nat PROVE Pow2(n) \in Nat \ {0}
  OBVIOUS
<1> DEFINE S == {i \in 0..n : Pow2(i) \in Nat \ {0}}
<1>1. 0 \in S
  BY Pow2Next
<1>2. ASSUME NEW i \in S, i \in 0..n-1
      PROVE  i + 1 \in S
  BY <1>2, Pow2Next
<1>3. 0..n \subseteq S
  <2> HIDE DEF S
  <2> QED
    BY <1>1, <1>2, NatInduct
<1> QED
  BY <1>3

LEMMA Pow2Sum == \A m, n \in Nat : Pow2(m + n) = Pow2(m) * Pow2(n)
<1> SUFFICES ASSUME NEW m \in Nat, NEW n \in Nat PROVE Pow2(m + n) = Pow2(m) * Pow2(n)
  OBVIOUS
<1> DEFINE S == {i \in 0..n : Pow2(m + i) = Pow2(m) * Pow2(i)}
<1>1. 0 \in S
  BY Pow2Next
<1>2. ASSUME NEW i \in S, i \in 0..n-1
      PROVE  i + 1 \in S
  <2>1. m + i \in Nat /\ i \in Nat /\ m + (i + 1) = (m + i) + 1
    BY <1>2
  <2>2. PICK p, q, r \in Nat : p = Pow2(m) /\ q = Pow2(i) /\ r = Pow2(m + i)
    BY <2>1, Pow2Next
  <2>3. r = p * q /\ Pow2(i + 1) = 2 * q /\ Pow2(m + (i + 1)) = 2 * r
    BY <2>1, <2>2, Pow2Next
  <2>4. p * (2 * q) = 2 * (p * q)
    BY ONLY p \in Nat, q \in Nat
  <2> QED
    BY <1>2, <2>2, <2>3, <2>4
<1>3. 0..n \subseteq S
  <2> HIDE DEF S
  <2> QED
    BY <1>1, <1>2, NatInduct
<1> QED
  BY <1>3

LEMMA Pow2Less == \A m, n \in Nat : m < n => 2 * Pow2(m) <= Pow2(n)
<1> SUFFICES ASSUME NEW m \in Nat, NEW n \in Nat, m < n PROVE 2 * Pow2(m) <= Pow2(n)
  OBVIOUS
<1>1. PICK d \in Nat : n = (m + 1) + d
  <2>1. n - (m + 1) \in Nat /\ n = (m + 1) + (n - (m + 1))
    OBVIOUS
  <2> QED
    BY <2>1
<1>2. PICK p \in Nat, q \in Nat \ {0} : p = Pow2(m) /\ q = Pow2(d)
  BY Pow2Type
<1>3. Pow2(n) = (2 * p) * q
  BY <1>1, <1>2, Pow2Sum, Pow2Next
<1>4. 2 * p <= (2 * p) * q
  BY ONLY p \in Nat, q \in Nat \ {0}
<1> QED
  BY <1>2, <1>3, <1>4

LEMMA Division ==
    \A x \in Nat, y \in Nat \ {0} :
        /\ x = y * (x \div y) + (x % y)
        /\ x % y \in 0..y-1 /\ x \div y \in Nat
  OBVIOUS

LEMMA DivisionType == \A x \in Nat, y \in Nat \ {0} : x \div y \in Nat /\ x % y \in Nat
  OBVIOUS

LEMMA QuotientIsUnique ==
    ASSUME NEW y \in Nat \ {0}, NEW q \in Nat, NEW r \in 0..y-1,
           NEW p \in Nat, NEW s \in 0..y-1, y * q + r = y * p + s
    PROVE  q = p /\ r = s
  OBVIOUS

\* Dividing twice.
DividesOnce(x, y, z) == (x \div y) \div z = x \div (y * z)

LEMMA DivideTwice ==
    ASSUME NEW x \in Nat, NEW y \in Nat \ {0}, NEW z \in Nat \ {0}
    PROVE  DividesOnce(x, y, z)
<1>1. PICK q \in Nat, r \in 0..y-1 : q = x \div y /\ x = y * q + r
  BY Division
<1>2. PICK p \in Nat, t \in 0..z-1 : p = q \div z /\ q = z * p + t
  BY Division
<1>3. y * z \in Nat \ {0}
  OBVIOUS
<1>4. PICK u \in Nat, v \in 0..(y * z)-1 : u = x \div (y * z) /\ x = (y * z) * u + v
  BY <1>3, Division
<1>5. x = (y * z) * p + (y * t + r)
  <2>1. y * (z * p + t) = (y * z) * p + y * t
    OBVIOUS
  <2>2. y * t \in Nat /\ (y * z) * p \in Nat
    OBVIOUS
  <2>3. x = ((y * z) * p + y * t) + r
    BY <1>1, <1>2, <2>1
  <2> QED
    BY <2>2, <2>3
<1>6. y * t + r \in 0..(y * z)-1
  <2>1. y * t + y <= y * z
    <3>1. PICK d \in Nat : z = (t + 1) + d
      <4>1. z - (t + 1) \in Nat /\ z = (t + 1) + (z - (t + 1))
        OBVIOUS
      <4> QED
        BY <4>1
    <3>2. y * z = y * t + y + y * d /\ y * d \in Nat /\ y * t \in Nat
      BY <3>1
    <3> QED
      BY <3>2
  <2>2. y * t \in Nat
    OBVIOUS
  <2> QED
    BY <2>1, <2>2
<1>7. p = u
  <2>1. PICK w \in Nat \ {0} : w = y * z
    BY <1>3
  <2>2. PICK k \in 0..w-1 : k = y * t + r
    BY <1>6, <2>1
  <2>3. w * p + k = w * u + v /\ v \in 0..w-1
    BY <1>4, <1>5, <2>1, <2>2
  <2> QED
    BY ONLY w \in Nat \ {0}, k \in 0..w-1, p \in Nat, u \in Nat, <2>3, QuotientIsUnique
<1>8. x \div y = q /\ q \div z = p /\ x \div (y * z) = u
  BY <1>1, <1>2, <1>4
<1> QED
  BY ONLY <1>7, <1>8, Zenon DEF DividesOnce

-----------------------------------------------------------------------------
\* Sequences of digits as numbers.

\* The digits d stand for the number x.
HasValue(base, d, x) ==
    \E v \in [0..Len(d) -> Nat] :
        /\ v[0] = 0
        /\ \A i \in 1..Len(d) : v[i] = v[i - 1] * base + d[i]
        /\ v[Len(d)] = x

LEMMA Product == \A a, b, c \in Nat : a * b \in Nat /\ a * b + c \in Nat
  OBVIOUS

LEMMA ValueEmpty ==
    ASSUME NEW base \in Nat
    PROVE  HasValue(base, <<>>, 0)
<1> DEFINE v == [i \in 0..0 |-> 0]
<1>1. Len(<<>>) = 0 /\ v \in [0..0 -> Nat] /\ v[0] = 0 /\ 1..0 = {}
  OBVIOUS
<1> HIDE DEF v
<1> QED
  BY <1>1 DEF HasValue

LEMMA ValueAppend ==
    ASSUME NEW base \in Nat, NEW d \in Seq(Nat), NEW x \in Nat, NEW y \in Nat,
           HasValue(base, d, x)
    PROVE  HasValue(base, Append(d, y), x * base + y)
<1>1. PICK n \in Nat : n = Len(d)
  OBVIOUS
<1>2. PICK v \in [0..n -> Nat] : /\ v[0] = 0
                                 /\ \A i \in 1..n : v[i] = v[i - 1] * base + d[i]
                                 /\ v[n] = x
  BY <1>1 DEF HasValue
<1>3. PICK z \in Nat : z = x * base + y
  <2>1. x * base + y \in Nat
    BY Product
  <2> QED
    BY <2>1
<1>4. PICK e \in Seq(Nat) : e = Append(d, y)
  <2>1. Append(d, y) \in Seq(Nat)
    BY ONLY d \in Seq(Nat), y \in Nat
  <2> QED
    BY <2>1
<1>5. Len(e) = n + 1 /\ e[n + 1] = y /\ \A i \in 1..n : e[i] = d[i]
  BY <1>1, <1>4
<1> DEFINE u == [i \in 0..n+1 |-> IF i = n + 1 THEN z ELSE v[i]]
<1>6. u \in [0..n+1 -> Nat] /\ u[0] = 0 /\ u[n + 1] = z /\ u[n] = x
  BY <1>2
<1>7. \A i \in 1..n : u[i] = v[i] /\ u[i - 1] = v[i - 1]
  OBVIOUS
<1> HIDE DEF u
<1>8. \A i \in 1..n+1 : u[i] = u[i - 1] * base + e[i]
  <2>1. \A i \in 1..n+1 : i \in 1..n \/ i = n + 1
    OBVIOUS
  <2>2. ASSUME NEW i \in 1..n PROVE u[i] = u[i - 1] * base + e[i]
    BY <1>2, <1>5, <1>7
  <2>3. u[n + 1] = u[(n + 1) - 1] * base + e[n + 1]
    BY <1>3, <1>5, <1>6
  <2> QED
    BY <2>1, <2>2, <2>3
<1>9. HasValue(base, e, z)
  BY <1>5, <1>6, <1>8 DEF HasValue
<1> QED
  BY <1>3, <1>4, <1>9

LEMMA ValueExists ==
    ASSUME NEW base \in Nat, NEW d \in Seq(Nat)
    PROVE  \E x \in Nat : HasValue(base, d, x)
<1>1. PICK n \in Nat : n = Len(d)
  OBVIOUS
<1> DEFINE step == [i \in 1..n |-> [x \in Nat |-> x * base + d[i]]]
<1>2. \A i \in 1..n : d[i] \in Nat
  BY <1>1
<1>3. step \in [1..n -> [Nat -> Nat]]
  BY <1>2, SMTT(20)
<1>4. PICK v : IsIteration(v, Nat, 0, n, step)
  <2> HIDE DEF step
  <2> QED
    BY <1>3, RunExists
<1>5. v \in [0..n -> Nat] /\ v[0] = 0
  BY <1>4 DEF IsIteration
<1>6. ASSUME NEW i \in 1..n PROVE v[i] = v[i - 1] * base + d[i]
  <2>1. i - 1 \in 0..n
    OBVIOUS
  <2>2. v[i - 1] \in Nat
    BY <1>5, <2>1
  <2> QED
    BY <1>4, <2>2 DEF IsIteration
<1>7. n \in 0..n /\ v[n] \in Nat
  BY <1>5
<1> QED
  BY <1>1, <1>5, <1>6, <1>7 DEF HasValue

\* Digits are determined by their number.
LEMMA DigitsAreUnique ==
    ASSUME NEW base \in Nat \ {0}, NEW d \in Seq(0..base-1), NEW e \in Seq(0..base-1),
           Len(d) = Len(e), NEW x \in Nat, HasValue(base, d, x), HasValue(base, e, x)
    PROVE  d = e
<1>1. PICK n \in Nat : n = Len(d)
  OBVIOUS
<1>2. PICK v \in [0..n -> Nat] : /\ v[0] = 0
                                 /\ \A i \in 1..n : v[i] = v[i - 1] * base + d[i]
                                 /\ v[n] = x
  BY <1>1 DEF HasValue
<1>3. PICK u \in [0..n -> Nat] : /\ u[0] = 0
                                 /\ \A i \in 1..n : u[i] = u[i - 1] * base + e[i]
                                 /\ u[n] = x
  BY <1>1 DEF HasValue
<1>4. \A i \in 1..n : d[i] \in 0..base-1 /\ e[i] \in 0..base-1
  BY <1>1
<1>5. ASSUME NEW i \in 1..n, v[i] = u[i]
      PROVE  v[i - 1] = u[i - 1] /\ d[i] = e[i]
  <2>1. PICK p \in Nat, q \in Nat : p = v[i - 1] /\ q = u[i - 1]
    <3>1. i - 1 \in 0..n
      OBVIOUS
    <3> QED
      BY <1>2, <1>3, <3>1
  <2>2. PICK r \in 0..base-1, s \in 0..base-1 : r = d[i] /\ s = e[i]
    BY <1>4
  <2>3. p * base + r = q * base + s
    BY <1>2, <1>3, <1>5, <2>1, <2>2
  <2>4. base * p + r = base * q + s
    BY <2>3
  <2>5. p = q /\ r = s
    BY ONLY base \in Nat \ {0}, p \in Nat, q \in Nat, r \in 0..base-1, s \in 0..base-1,
            <2>4, QuotientIsUnique
  <2> QED
    BY <2>1, <2>2, <2>5
<1> DEFINE S == {i \in 0..n : v[n - i] = u[n - i]}
<1>6. 0 \in S
  BY <1>2, <1>3
<1>7. ASSUME NEW i \in S, i \in 0..n-1
      PROVE  i + 1 \in S
  <2>1. n - i \in 1..n /\ i + 1 \in 0..n /\ n - (i + 1) = (n - i) - 1
    BY <1>7
  <2>2. PICK j \in 1..n : j = n - i
    BY <2>1
  <2> QED
    BY <1>5, <2>1, <2>2
<1>8. 0..n \subseteq S
  <2> HIDE DEF S
  <2> QED
    BY <1>6, <1>7, NatInduct
<1>9. ASSUME NEW i \in 1..n PROVE d[i] = e[i]
  <2>1. n - i \in 0..n /\ n - (n - i) = i
    OBVIOUS
  <2>2. v[i] = u[i]
    BY <1>8, <2>1
  <2> QED
    BY <1>5, <2>2
<1>10. Len(d) = n /\ Len(e) = n
  BY <1>1
<1> QED
  BY ONLY <1>9, <1>10, d \in Seq(0..base-1), e \in Seq(0..base-1)

\* And they stand for one number.
LEMMA ValueIsUnique ==
    ASSUME NEW base \in Nat, NEW d \in Seq(Nat), NEW x, NEW y,
           HasValue(base, d, x), HasValue(base, d, y)
    PROVE  x = y
<1>1. PICK n \in Nat : n = Len(d)
  OBVIOUS
<1>2. PICK v \in [0..n -> Nat] : /\ v[0] = 0
                                 /\ \A i \in 1..n : v[i] = v[i - 1] * base + d[i]
                                 /\ v[n] = x
  BY <1>1 DEF HasValue
<1>3. PICK u \in [0..n -> Nat] : /\ u[0] = 0
                                 /\ \A i \in 1..n : u[i] = u[i - 1] * base + d[i]
                                 /\ u[n] = y
  BY <1>1 DEF HasValue
<1> DEFINE S == {i \in 0..n : v[i] = u[i]}
<1>4. 0 \in S
  BY <1>2, <1>3
<1>5. ASSUME NEW i \in S, i \in 0..n-1
      PROVE  i + 1 \in S
  <2>1. i + 1 \in 1..n /\ i + 1 \in 0..n /\ (i + 1) - 1 = i
    BY <1>5
  <2> QED
    BY <1>2, <1>3, <2>1
<1>6. 0..n \subseteq S
  <2> HIDE DEF S
  <2> QED
    BY <1>4, <1>5, NatInduct
<1> QED
  BY <1>2, <1>3, <1>6

\* Digits are appended, and the lowest ones split off.
LEMMA Shift ==
    ASSUME NEW w \in Nat, NEW b \in Nat, NEW y \in Nat,
           NEW P \in Nat \ {0}, NEW Q \in Nat \ {0}, b < P, y < Q
    PROVE  /\ (w * P + b) * Q + y = w * (P * Q) + (b * Q + y)
           /\ b * Q + y \in Nat /\ b * Q + y < P * Q
<1>1. (w * P + b) * Q = (w * P) * Q + b * Q
  BY ONLY Product, w \in Nat, b \in Nat, P \in Nat \ {0}, Q \in Nat \ {0}
<1>2. (w * P) * Q = w * (P * Q)
  BY ONLY w \in Nat, P \in Nat \ {0}, Q \in Nat \ {0}
<1>3. b * Q \in Nat /\ w * (P * Q) \in Nat /\ P * Q \in Nat
  BY ONLY Product, w \in Nat, b \in Nat, P \in Nat \ {0}, Q \in Nat \ {0}
<1>4. b * Q + Q <= P * Q
  <2>1. PICK d \in Nat : P = (b + 1) + d
    <3>1. P - (b + 1) \in Nat /\ P = (b + 1) + (P - (b + 1))
      OBVIOUS
    <3> QED
      BY <3>1
  <2>2. ((b + 1) + d) * Q = b * Q + Q + d * Q /\ d * Q \in Nat
    BY ONLY b \in Nat, d \in Nat, Q \in Nat \ {0}, Product
  <2> QED
    BY <2>1, <2>2, <1>3
<1> QED
  BY <1>1, <1>2, <1>3, <1>4

LEMMA Split ==
    ASSUME NEW w \in Nat, NEW q \in Nat, NEW r \in Nat, NEW M \in Nat \ {0}, NEW N \in Nat \ {0},
           NEW x \in Nat, x = N * q + r, x < M * N
    PROVE  q < M /\ (w * M + q) * N + r = w * (M * N) + x
<1>2. q < M
  <2>1. CASE q < M
    BY <2>1
  <2>2. CASE ~ (q < M)
    <3>1. PICK d \in Nat : q = M + d
      <4>1. q - M \in Nat /\ q = M + (q - M)
        BY <2>2
      <4> QED
        BY <4>1
    <3>2. N * (M + d) = M * N + N * d /\ N * d \in Nat /\ M * N \in Nat
      BY ONLY M \in Nat \ {0}, N \in Nat \ {0}, d \in Nat, Product
    <3>3. x >= M * N
      BY <3>1, <3>2
    <3>4. PICK m \in Nat : m = M * N
      BY <3>2
    <3> QED
      BY <3>3, <3>4
  <2> QED
    BY <2>1, <2>2
<1>3. (w * M + q) * N = w * (M * N) + N * q
  BY ONLY w \in Nat, q \in Nat, M \in Nat \ {0}, N \in Nat \ {0}
<1>4. w * (M * N) \in Nat /\ N * q \in Nat
  BY ONLY w \in Nat, q \in Nat, M \in Nat \ {0}, N \in Nat \ {0}, Product
<1>5. (w * M + q) * N + r = w * (M * N) + x
  BY <1>3, <1>4
<1> QED
  BY <1>2, <1>5

-----------------------------------------------------------------------------
\* Widths.

ByteBase == Pow2(ByteBits)
ChunkBase == Pow2(ChunkBits)

LEMMA Widths ==
    /\ ByteBits \in Nat \ {0} /\ ChunkBits \in Nat \ {0} /\ WordBytes \in Nat \ {0}
    /\ ByteBits <= ChunkBits /\ MaxLength \in Nat
    /\ ByteBase \in Nat \ {0} /\ ChunkBase \in Nat \ {0}
    /\ Byte = 0..ByteBase-1 /\ Chunk = 0..ChunkBase-1 /\ Marker = ChunkBase
    /\ Byte \subseteq Nat /\ Chunk \subseteq Nat
<1>1. ByteBits \in Nat \ {0} /\ ChunkBits \in Nat \ {0} /\ WordBytes \in Nat \ {0}
      /\ ByteBits <= ChunkBits /\ MaxLength \in Nat
  BY FramingAssumption DEF FramingAssumption
<1>2. ByteBase \in Nat \ {0} /\ ChunkBase \in Nat \ {0}
  BY <1>1, Pow2Type DEF ByteBase, ChunkBase
<1> QED
  BY <1>1, <1>2 DEF ByteBase, ChunkBase, Byte, Chunk, Marker

-----------------------------------------------------------------------------
\* Bytes to chunks.

PutAcc == [chunks: Seq(Nat), buffer: Nat, count: Nat]

NothingPut == [chunks |-> <<>>, buffer |-> 0, count |-> 0]

LEMMA PutByteType ==
    ASSUME NEW acc \in PutAcc, NEW byte \in Nat
    PROVE  PutByte(acc, byte) \in PutAcc
<1>1. PICK c \in Seq(Nat), b \in Nat, k \in Nat :
          acc = [chunks |-> c, buffer |-> b, count |-> k]
  BY DEF PutAcc
<1>2. PICK x \in Nat : x = b * Pow2(ByteBits) + byte
  BY Widths, Product DEF ByteBase
<1>3. PICK m \in Nat : m = k + ByteBits
  BY Widths
<1>4. PutByte(acc, byte) =
          IF m - ChunkBits < 0 THEN [chunks |-> c, buffer |-> x, count |-> m]
          ELSE [chunks |-> Append(c, x \div Pow2(m - ChunkBits)),
                buffer |-> x % Pow2(m - ChunkBits), count |-> m - ChunkBits]
  BY <1>1, <1>2, <1>3 DEF PutByte
<1>5. CASE m - ChunkBits < 0
  BY <1>4, <1>5 DEF PutAcc
<1>6. CASE ~ (m - ChunkBits < 0)
  <2>1. PICK s \in Nat : s = m - ChunkBits
    BY <1>6, Widths
  <2>2. PICK P \in Nat \ {0} : P = Pow2(s)
    BY Pow2Type
  <2>3. PICK q \in Nat, r \in Nat : q = x \div P /\ r = x % P
    <3>1. x \div P \in Nat /\ x % P \in Nat
      BY ONLY x \in Nat, P \in Nat \ {0}, DivisionType
    <3> QED
      BY <3>1
  <2>4. PutByte(acc, byte) = [chunks |-> Append(c, q), buffer |-> r, count |-> s]
    BY <1>4, <1>6, <2>1, <2>2, <2>3
  <2>5. Append(c, q) \in Seq(Nat)
    BY ONLY c \in Seq(Nat), q \in Nat
  <2> QED
    BY <2>4, <2>5 DEF PutAcc
<1> QED
  BY <1>5, <1>6

\* The recursion of PutBytes is defined.
LEMMA PutBytesRun ==
    ASSUME NEW bytes \in Seq(Nat)
    PROVE  \E run \in [0..Len(bytes) -> PutAcc] :
              /\ run[0] = NothingPut
              /\ \A i \in 1..Len(bytes) : run[i] = PutByte(run[i - 1], bytes[i])
              /\ PutBytes(bytes) = run[Len(bytes)]
<1>1. PICK n \in Nat : n = Len(bytes)
  OBVIOUS
<1> DEFINE Follows(r) == r = [i \in 0..n |-> IF i = 0 THEN NothingPut
                                              ELSE PutByte(r[i - 1], bytes[i])]
<1>2. \E r : Follows(r) /\ r \in [0..n -> PutAcc]
  <2> DEFINE step == [i \in 1..n |-> [acc \in PutAcc |-> PutByte(acc, bytes[i])]]
  <2>1. step \in [1..n -> [PutAcc -> PutAcc]]
    <3>1. \A i \in 1..n : bytes[i] \in Nat
      BY <1>1
    <3> QED
      BY <3>1, PutByteType
  <2>2. NothingPut \in PutAcc
    <3>1. <<>> \in Seq(Nat)
      OBVIOUS
    <3> QED
      BY <3>1 DEF NothingPut, PutAcc
  <2>3. PICK r : IsIteration(r, PutAcc, NothingPut, n, step)
    <3> HIDE DEF step
    <3> QED
      BY <2>1, <2>2, RunExists
  <2>4. \A i \in 0..n : i = 0 \/ (i \in 1..n /\ i - 1 \in 0..n)
    OBVIOUS
  <2>5. \A i \in 0..n : r[i] = IF i = 0 THEN NothingPut ELSE PutByte(r[i - 1], bytes[i])
    BY <2>3, <2>4 DEF IsIteration
  <2>6. r = [i \in 0..n |-> r[i]] /\ r \in [0..n -> PutAcc]
    BY <2>3 DEF IsIteration
  <2> QED
    BY <2>5, <2>6
<1>3. PICK run : run = CHOOSE r : Follows(r)
  OBVIOUS
<1>4. PICK r : Follows(r) /\ r \in [0..n -> PutAcc]
  BY <1>2
<1>5. Follows(run)
  <2> HIDE DEF Follows
  <2> QED
    BY <1>3, <1>4
<1>6. PutBytes(bytes) = run[n]
  BY <1>1, <1>3 DEF PutBytes, NothingPut
<1>7. run[0] = NothingPut /\ \A i \in 1..n : run[i] = PutByte(run[i - 1], bytes[i])
  BY <1>5
<1>8. \A i \in 0..n : run[i] \in PutAcc
  <2>1. run[0] \in PutAcc
    BY <1>4, <1>7
  <2>2. \A i \in 1..n : run[i - 1] \in PutAcc => run[i] \in PutAcc
    BY <1>1, <1>7, PutByteType
  <2> QED
    BY ONLY n \in Nat, <2>1, <2>2, StaysIn
<1> QED
  BY <1>1, <1>5, <1>6, <1>7, <1>8

\* After n bytes that stand for x: the finished chunks, and behind them the bits
\* of the buffer, stand for x as well, and fewer bits than a chunk's are open.
KeepsNumber(acc, n, x) ==
    /\ acc.chunks \in Seq(Chunk) /\ acc.buffer \in Nat /\ acc.count \in Nat
    /\ acc.count < ChunkBits /\ acc.buffer < Pow2(acc.count)
    /\ n * ByteBits = Len(acc.chunks) * ChunkBits + acc.count
    /\ \E w \in Nat : /\ HasValue(ChunkBase, acc.chunks, w)
                      /\ x = w * Pow2(acc.count) + acc.buffer

LEMMA PutByteKeepsNumber ==
    ASSUME NEW acc \in PutAcc, NEW byte \in Byte, NEW n \in Nat, NEW x \in Nat,
           KeepsNumber(acc, n, x)
    PROVE  KeepsNumber(PutByte(acc, byte), n + 1, x * ByteBase + byte)
<1>1. PICK c \in Seq(Chunk), b \in Nat, k \in Nat, w \in Nat, P \in Nat \ {0} :
          /\ acc = [chunks |-> c, buffer |-> b, count |-> k]
          /\ k < ChunkBits /\ b < P /\ P = Pow2(k)
          /\ n * ByteBits = Len(c) * ChunkBits + k
          /\ HasValue(ChunkBase, c, w)
          /\ x = w * P + b
  <2>1. acc = [chunks |-> acc.chunks, buffer |-> acc.buffer, count |-> acc.count]
    BY DEF PutAcc
  <2>2. Pow2(acc.count) \in Nat \ {0}
    BY Pow2Type DEF KeepsNumber
  <2> QED
    BY <2>1, <2>2 DEF KeepsNumber
<1>2. PICK Q \in Nat \ {0} : Q = ByteBase /\ byte \in 0..Q-1
  BY Widths
<1>3. PICK B \in Nat : B = b * Q + byte
  BY <1>2, Product
<1>4. x * Q + byte = w * (P * Q) + B /\ B < P * Q
  <2>1. byte \in Nat /\ byte < Q /\ b < P
    BY <1>1, <1>2
  <2>2. /\ (w * P + b) * Q + byte = w * (P * Q) + (b * Q + byte)
        /\ b * Q + byte < P * Q
    BY ONLY <2>1, w \in Nat, b \in Nat, P \in Nat \ {0}, Q \in Nat \ {0}, Shift
  <2> QED
    BY <1>1, <1>3, <2>2
<1>5. PICK m \in Nat : m = k + ByteBits
  BY Widths
<1>6. P * Q = Pow2(m)
  BY <1>1, <1>2, <1>5, Pow2Sum, Widths DEF ByteBase
<1>7. PICK u \in Nat : u = Len(c) * ChunkBits /\ (n + 1) * ByteBits = u + m
  <2>1. (n + 1) * ByteBits = n * ByteBits + ByteBits
    BY ONLY n \in Nat, Widths
  <2>2. PICK t \in Nat : t = n * ByteBits
    BY Widths, Product
  <2>3. PICK u \in Nat : u = Len(c) * ChunkBits
    <3>1. Len(c) \in Nat
      OBVIOUS
    <3> QED
      BY <3>1, Widths, Product
  <2>4. t = u + k
    BY <1>1, <2>2, <2>3
  <2>5. t + ByteBits = u + m
    BY ONLY <1>5, <2>4, t \in Nat, u \in Nat, k \in Nat, Widths
  <2> QED
    BY <2>1, <2>2, <2>3, <2>5
<1>8. PutByte(acc, byte) =
          IF m - ChunkBits < 0 THEN [chunks |-> c, buffer |-> B, count |-> m]
          ELSE [chunks |-> Append(c, B \div Pow2(m - ChunkBits)),
                buffer |-> B % Pow2(m - ChunkBits), count |-> m - ChunkBits]
  BY <1>1, <1>2, <1>3, <1>5 DEF PutByte, ByteBase
<1>9. CASE m - ChunkBits < 0
  <2>1. PutByte(acc, byte) = [chunks |-> c, buffer |-> B, count |-> m]
    BY <1>8, <1>9
  <2>2. m < ChunkBits
    BY <1>9, Widths
  <2>3. x * ByteBase + byte = w * Pow2(m) + B /\ B < Pow2(m)
    BY <1>2, <1>4, <1>6
  <2>4. PICK a : a = [chunks |-> c, buffer |-> B, count |-> m]
    OBVIOUS
  <2>5. a.chunks = c /\ a.buffer = B /\ a.count = m
    BY <2>4
  <2>6. (n + 1) * ByteBits = Len(c) * ChunkBits + m
    BY <1>7
  <2>7. HasValue(ChunkBase, c, w)
    BY <1>1
  <2>8. KeepsNumber(a, n + 1, x * ByteBase + byte)
    BY ONLY <2>2, <2>3, <2>5, <2>6, <2>7, c \in Seq(Chunk), B \in Nat, m \in Nat, w \in Nat
       DEF KeepsNumber
  <2> QED
    BY <2>1, <2>4, <2>8
<1>10. CASE ~ (m - ChunkBits < 0)
  <2>1. PICK s \in Nat : s = m - ChunkBits
    BY <1>10, Widths
  <2>2. PICK M \in Nat \ {0}, N \in Nat \ {0} : M = ChunkBase /\ N = Pow2(s)
    BY Widths, Pow2Type
  <2>3. P * Q = M * N
    <3>1. m = ChunkBits + s
      BY <2>1, Widths
    <3> QED
      BY <1>6, <2>2, <3>1, Pow2Sum, Widths DEF ChunkBase
  <2>4. PICK q \in 0..M-1, r \in 0..N-1 :
            /\ q = B \div N /\ r = B % N
            /\ (w * M + q) * N + r = w * (M * N) + B
    <3>1. PICK q \in Nat, r \in 0..N-1 : q = B \div N /\ r = B % N /\ B = N * q + r
      <4>1. B = N * (B \div N) + (B % N) /\ B % N \in 0..N-1 /\ B \div N \in Nat
        BY ONLY Division, B \in Nat, N \in Nat \ {0}
      <4> QED
        BY ONLY <4>1
    <3>2. B < M * N /\ r \in Nat /\ B = N * q + r
      BY <1>4, <2>3, <3>1
    <3>3. q < M /\ (w * M + q) * N + r = w * (M * N) + B
      BY ONLY <3>2, w \in Nat, B \in Nat, q \in Nat, M \in Nat \ {0}, N \in Nat \ {0}, Split
    <3>4. q \in 0..M-1
      BY ONLY <3>3, q \in Nat, M \in Nat \ {0}
    <3> QED
      BY <3>1, <3>3, <3>4
  <2>5. PutByte(acc, byte) = [chunks |-> Append(c, q), buffer |-> r, count |-> s]
    BY <1>8, <1>10, <2>1, <2>2, <2>4
  <2>6. q \in Chunk /\ Append(c, q) \in Seq(Chunk) /\ Len(Append(c, q)) = Len(c) + 1
    <3>1. q \in Chunk
      BY <2>2, <2>4, Widths
    <3> QED
      BY ONLY <3>1, c \in Seq(Chunk)
  <2>7. PICK v \in Nat : v = w * M + q
    BY <2>4, Product, SMTT(20)
  <2>8. HasValue(ChunkBase, Append(c, q), v)
    <3>1. c \in Seq(Nat) /\ q \in Nat
      BY <2>4, Widths, SMTT(20)
    <3> QED
      BY <1>1, <2>2, <2>7, <3>1, ValueAppend
  <2>9. x * ByteBase + byte = v * Pow2(s) + r
    BY <1>2, <1>4, <2>2, <2>3, <2>4, <2>7
  <2>10. s < ChunkBits
    BY <1>1, <1>5, <2>1, Widths
  <2>11. (n + 1) * ByteBits = (Len(c) + 1) * ChunkBits + s
    <3>1. PICK l \in Nat : l = Len(c)
      OBVIOUS
    <3>2. (l + 1) * ChunkBits = l * ChunkBits + ChunkBits
      BY ONLY l \in Nat, Widths
    <3>3. u + m = (u + ChunkBits) + s
      BY ONLY <2>1, u \in Nat, m \in Nat, s \in Nat, Widths
    <3> QED
      BY <1>7, <3>1, <3>2, <3>3
  <2>12. r \in Nat /\ r < Pow2(s)
    BY <2>2, <2>4
  <2>13. PICK d, a : d = Append(c, q) /\ a = [chunks |-> d, buffer |-> r, count |-> s]
    OBVIOUS
  <2>14. a.chunks = d /\ a.buffer = r /\ a.count = s
    BY <2>13
  <2>15. d \in Seq(Chunk) /\ HasValue(ChunkBase, d, v) /\ Len(d) = Len(c) + 1
    BY <2>6, <2>8, <2>13
  <2>16. KeepsNumber(a, n + 1, x * ByteBase + byte)
    BY ONLY <2>9, <2>10, <2>11, <2>12, <2>14, <2>15, s \in Nat, v \in Nat DEF KeepsNumber
  <2> QED
    BY <2>5, <2>13, <2>16
<1> QED
  BY <1>9, <1>10

\* The number the bytes stand for is the number of what was put.
LEMMA PutBytesKeepsNumber ==
    ASSUME NEW bytes \in Seq(Byte)
    PROVE  \E x \in Nat : /\ HasValue(ByteBase, bytes, x)
                          /\ KeepsNumber(PutBytes(bytes), Len(bytes), x)
<1>1. PICK n \in Nat : n = Len(bytes)
  OBVIOUS
<1>2. bytes \in Seq(Nat)
  BY Widths
<1>3. PICK x \in Nat : HasValue(ByteBase, bytes, x)
  BY <1>2, ValueExists, Widths
<1>4. PICK v \in [0..n -> Nat] : /\ v[0] = 0
                                 /\ \A i \in 1..n : v[i] = v[i - 1] * ByteBase + bytes[i]
                                 /\ v[n] = x
  BY <1>1, <1>3 DEF HasValue
<1>5. PICK run \in [0..n -> PutAcc] :
          /\ run[0] = NothingPut
          /\ \A i \in 1..n : run[i] = PutByte(run[i - 1], bytes[i])
          /\ PutBytes(bytes) = run[n]
  BY <1>1, <1>2, PutBytesRun
<1> DEFINE S == {i \in 0..n : KeepsNumber(run[i], i, v[i])}
<1>6. 0 \in S
  <2>1. HasValue(ChunkBase, <<>>, 0)
    BY ValueEmpty, Widths
  <2>2. <<>> \in Seq(Chunk) /\ Len(<<>>) = 0
    OBVIOUS
  <2>3. 0 < Pow2(0) /\ 0 * ByteBits = 0 * ChunkBits + 0 /\ 0 = 0 * Pow2(0) + 0
    <3>1. Pow2(0) = 1
      BY Pow2Next
    <3>2. \A a, b \in Nat : 0 * a = 0 * b + 0
      OBVIOUS
    <3> QED
      BY ONLY <3>1, <3>2, Widths
  <2>4. KeepsNumber(NothingPut, 0, 0)
    BY <2>1, <2>2, <2>3, Widths DEF KeepsNumber, NothingPut
  <2> QED
    BY <1>4, <1>5, <2>4
<1>7. ASSUME NEW i \in S, i \in 0..n-1
      PROVE  i + 1 \in S
  <2>1. i \in 0..n /\ i \in Nat /\ i + 1 \in 1..n /\ (i + 1) - 1 = i /\ i + 1 \in 0..n
    BY <1>7
  <2>2. run[i] \in PutAcc /\ v[i] \in Nat /\ bytes[i + 1] \in Byte
    BY <1>1, <1>4, <1>5, <2>1
  <2>3. run[i + 1] = PutByte(run[i], bytes[i + 1])
        /\ v[i + 1] = v[i] * ByteBase + bytes[i + 1]
    BY <1>4, <1>5, <2>1
  <2>4. KeepsNumber(run[i], i, v[i])
    OBVIOUS
  <2>5. PICK a \in PutAcc, y \in Byte, z \in Nat : a = run[i] /\ y = bytes[i + 1] /\ z = v[i]
    BY <2>2
  <2>6. KeepsNumber(PutByte(a, y), i + 1, z * ByteBase + y)
    BY <2>1, <2>4, <2>5, PutByteKeepsNumber
  <2> QED
    BY <2>1, <2>3, <2>5, <2>6
<1>8. 0..n \subseteq S
  <2> HIDE DEF S
  <2> QED
    BY <1>6, <1>7, NatInduct
<1>9. KeepsNumber(run[n], n, v[n])
  BY <1>8
<1> QED
  BY <1>1, <1>3, <1>4, <1>5, <1>9

\* The chunks of a payload stand for its number, moved up by the padding.
LEMMA FlushedChunks ==
    ASSUME NEW bytes \in Seq(Byte)
    PROVE  \E x \in Nat, pad \in Nat :
              /\ HasValue(ByteBase, bytes, x)
              /\ Flush(PutBytes(bytes)) \in Seq(Chunk)
              /\ pad < ChunkBits
              /\ Len(Flush(PutBytes(bytes))) * ChunkBits = Len(bytes) * ByteBits + pad
              /\ HasValue(ChunkBase, Flush(PutBytes(bytes)), x * Pow2(pad))
<1>1. PICK x \in Nat : /\ HasValue(ByteBase, bytes, x)
                       /\ KeepsNumber(PutBytes(bytes), Len(bytes), x)
  BY PutBytesKeepsNumber
<1>2. PICK acc : acc = PutBytes(bytes)
  OBVIOUS
<1>3. PICK c \in Seq(Chunk), b \in Nat, k \in Nat, w \in Nat, P \in Nat \ {0} :
          /\ c = acc.chunks /\ b = acc.buffer /\ k = acc.count
          /\ k < ChunkBits /\ b < P /\ P = Pow2(k)
          /\ Len(bytes) * ByteBits = Len(c) * ChunkBits + k
          /\ HasValue(ChunkBase, c, w)
          /\ x = w * P + b
  <2>1. Pow2(acc.count) \in Nat \ {0}
    BY <1>1, <1>2, Pow2Type DEF KeepsNumber
  <2> QED
    BY <1>1, <1>2, <2>1 DEF KeepsNumber
<1>4. CASE k = 0
  <2>1. Flush(acc) = c
    BY <1>3, <1>4 DEF Flush
  <2>2. P = 1 /\ Pow2(0) = 1
    BY <1>3, <1>4, Pow2Next
  <2>3. b = 0
    BY <1>3, <2>2
  <2>4. x = w /\ x * Pow2(0) = w
    BY <1>3, <2>2, <2>3
  <2>5. Len(c) * ChunkBits = Len(bytes) * ByteBits + 0
    <3>1. Len(c) * ChunkBits \in Nat
      BY Product, Widths
    <3> QED
      BY <1>3, <1>4, <3>1
  <2>6. 0 \in Nat /\ 0 < ChunkBits
    BY Widths
  <2> QED
    BY <1>1, <1>2, <1>3, <2>1, <2>4, <2>5, <2>6
<1>5. CASE k # 0
  <2>1. PICK pad \in Nat : pad = ChunkBits - k /\ pad < ChunkBits /\ ChunkBits = k + pad
    <3>1. k < ChunkBits /\ ChunkBits \in Nat
      BY <1>3, Widths
    <3>2. PICK pad \in Nat : pad = ChunkBits - k
      BY ONLY <3>1, k \in Nat
    <3> QED
      BY ONLY <3>1, <3>2, pad \in Nat, k \in Nat, <1>5
  <2>2. PICK N \in Nat \ {0} : N = Pow2(pad)
    BY Pow2Type
  <2>3. P * N = ChunkBase
    <3>1. Pow2(k + pad) = Pow2(k) * Pow2(pad)
      BY Pow2Sum
    <3> QED
      BY <1>3, <2>1, <2>2, <3>1 DEF ChunkBase
  <2>4. (w * P + b) * N + 0 = w * (P * N) + (b * N + 0) /\ b * N + 0 \in Nat /\ b * N + 0 < P * N
    <3>1. b < P /\ 0 \in Nat /\ 0 < N
      BY <1>3
    <3> QED
      BY ONLY <3>1, w \in Nat, b \in Nat, P \in Nat \ {0}, N \in Nat \ {0}, Shift
  <2>5. PICK last \in Nat : last = b * N /\ last < P * N /\ x * N = w * (P * N) + last
    <3>1. b * N \in Nat /\ (w * P + b) * N \in Nat
      BY Product, <1>3
    <3>2. b * N + 0 = b * N /\ (w * P + b) * N + 0 = (w * P + b) * N
      BY <3>1
    <3> QED
      BY <1>3, <2>4, <3>1, <3>2
  <2>6. Flush(acc) = Append(c, last)
    BY <1>3, <1>5, <2>1, <2>2, <2>5 DEF Flush
  <2>7. last \in Chunk /\ Append(c, last) \in Seq(Chunk) /\ Len(Append(c, last)) = Len(c) + 1
    <3>1. last \in Chunk
      BY <2>3, <2>5, Widths
    <3> QED
      BY ONLY <3>1, c \in Seq(Chunk)
  <2>8. HasValue(ChunkBase, Append(c, last), x * N)
    <3>1. c \in Seq(Nat)
      BY Widths
    <3>2. HasValue(ChunkBase, Append(c, last), w * ChunkBase + last)
      BY <1>3, <3>1, ValueAppend, Widths
    <3> QED
      BY <2>3, <2>5, <3>2
  <2>9. Len(Append(c, last)) * ChunkBits = Len(bytes) * ByteBits + pad
    <3>1. PICK m \in Nat, l \in Nat : m = Len(c) * ChunkBits /\ l = Len(bytes) * ByteBits
      BY Widths, Product
    <3>2. (Len(c) + 1) * ChunkBits = m + ChunkBits
      BY ONLY <3>1, Widths, Len(c) \in Nat
    <3>3. m + k = l
      BY <1>3, <3>1
    <3>4. m + ChunkBits = l + pad
      BY ONLY <2>1, <3>3, m \in Nat, l \in Nat, k \in Nat, pad \in Nat
    <3> QED
      BY <2>7, <3>1, <3>2, <3>4
  <2> QED
    BY <1>1, <1>2, <2>1, <2>2, <2>6, <2>7, <2>8, <2>9
<1> QED
  BY <1>4, <1>5

-----------------------------------------------------------------------------
\* Chunks to bytes.

\* The j-th byte from the top of "count" bits.
ByteAt(x, count, j) == (x \div Pow2(count - j * ByteBits)) % Pow2(ByteBits)

TopBytes(x, count, k) == [j \in 1..k |-> ByteAt(x, count, j)]

\* Appending the top k bytes of some bits appends their digits.
LEMMA AppendTopBytes ==
    ASSUME NEW q \in Seq(Byte), NEW w \in Nat, HasValue(ByteBase, q, w),
           NEW x \in Nat, NEW count \in Nat, x < Pow2(count),
           NEW k \in Nat, k * ByteBits <= count
    PROVE  /\ q \o TopBytes(x, count, k) \in Seq(Byte)
           /\ Len(q \o TopBytes(x, count, k)) = Len(q) + k
           /\ HasValue(ByteBase, q \o TopBytes(x, count, k),
                       w * Pow2(k * ByteBits) + (x \div Pow2(count - k * ByteBits)))
<1> DEFINE top(j) == q \o TopBytes(x, count, j)
           number(j) == w * Pow2(j * ByteBits) + (x \div Pow2(count - j * ByteBits))
           S == {j \in 0..k : /\ top(j) \in Seq(Byte) /\ Len(top(j)) = Len(q) + j
                              /\ HasValue(ByteBase, top(j), number(j))}
<1>1. 0 \in S
  <2>1. top(0) = q
    <3>1. 1..0 = {}
      OBVIOUS
    <3>2. TopBytes(x, count, 0) = <<>>
      BY <3>1 DEF TopBytes
    <3> QED
      BY <3>2
  <2>2. number(0) = w
    <3>1. PICK P \in Nat \ {0} : P = Pow2(count)
      BY Pow2Type
    <3>2. x < P
      BY <3>1
    <3>3. x \div P = 0
      <4>1. x = P * (x \div P) + (x % P) /\ x % P \in 0..P-1 /\ x \div P \in Nat
        BY ONLY Division, x \in Nat, P \in Nat \ {0}
      <4>2. PICK a \in Nat, b \in 0..P-1 : a = x \div P /\ x = P * a + b
        BY ONLY <4>1
      <4>3. P * a + b = P * 0 + x /\ x \in 0..P-1 /\ 0 \in Nat
        BY ONLY <3>2, <4>2, x \in Nat, P \in Nat \ {0}
      <4>4. a = 0
        BY ONLY <4>3, a \in Nat, b \in 0..P-1, P \in Nat \ {0}, QuotientIsUnique
      <4> QED
        BY <4>2, <4>4
    <3>4. 0 * ByteBits = 0 /\ count - 0 = count /\ Pow2(0) = 1
      BY Widths, Pow2Next
    <3>5. w * 1 + 0 = w
      OBVIOUS
    <3> QED
      BY <3>1, <3>3, <3>4, <3>5
  <2>3. 0 \in 0..k /\ Len(q) = Len(q) + 0
    OBVIOUS
  <2> HIDE DEF top, number
  <2> QED
    BY <2>1, <2>2, <2>3
<1>2. ASSUME NEW j \in S, j \in 0..k-1
      PROVE  j + 1 \in S
  <2>1. j \in Nat /\ j + 1 \in 0..k /\ j + 1 \in Nat /\ j + 1 <= k
    BY <1>2
  <2>2. PICK a \in Nat, b \in Nat :
            a = j * ByteBits /\ b = count - (j + 1) * ByteBits
            /\ (j + 1) * ByteBits = a + ByteBits /\ count - j * ByteBits = b + ByteBits
    <3>1. PICK B \in Nat \ {0} : B = ByteBits
      BY Widths
    <3>2. PICK d \in Nat : k = (j + 1) + d
      <4>1. k - (j + 1) \in Nat /\ k = (j + 1) + (k - (j + 1))
        BY ONLY <2>1, k \in Nat
      <4> QED
        BY <4>1
    <3>3. ((j + 1) + d) * B = j * B + B + d * B /\ (j + 1) * B = j * B + B
          /\ j * B \in Nat /\ d * B \in Nat
      BY ONLY <2>1, d \in Nat, B \in Nat \ {0}, Product
    <3>4. PICK a \in Nat, e \in Nat : a = j * B /\ e = d * B
      BY ONLY <3>3
    <3>5. a + B + e <= count
      BY <3>1, <3>2, <3>3, <3>4
    <3>6. PICK b \in Nat : b = count - (a + B)
      BY ONLY <3>5, a \in Nat, e \in Nat, B \in Nat \ {0}, count \in Nat
    <3>7. count - a = b + B
      BY ONLY <3>6, a \in Nat, b \in Nat, B \in Nat \ {0}, count \in Nat
    <3> QED
      BY <3>1, <3>3, <3>4, <3>6, <3>7
  <2>3. PICK Q \in Nat \ {0}, R \in Nat \ {0}, N \in Nat \ {0} :
            Q = ByteBase /\ R = Pow2(a) /\ N = Pow2(b)
    BY Pow2Type, Widths
  <2>4. Pow2(a + ByteBits) = R * Q /\ Pow2(b + ByteBits) = N * Q
    BY <2>3, Pow2Sum, Widths DEF ByteBase
  <2>5. PICK y \in Nat : y = x \div N
    BY DivisionType
  <2>6. PICK z \in Nat, d \in 0..Q-1 : z = y \div Q /\ d = y % Q /\ y = Q * z + d
    <3>1. y = Q * (y \div Q) + (y % Q) /\ y % Q \in 0..Q-1 /\ y \div Q \in Nat
      BY ONLY Division, y \in Nat, Q \in Nat \ {0}
    <3> QED
      BY ONLY <3>1
  <2>7. z = x \div (N * Q)
    <3>1. DividesOnce(x, N, Q)
      BY ONLY x \in Nat, N \in Nat \ {0}, Q \in Nat \ {0}, DivideTwice, SMTT(20)
    <3> QED
      BY ONLY <2>5, <2>6, <3>1, Zenon DEF DividesOnce
  <2>8. number(j) = w * R + z
    BY <2>2, <2>3, <2>4, <2>7
  <2>9. number(j + 1) = w * (R * Q) + y
    BY <2>2, <2>3, <2>4, <2>5
  <2>10. PICK n \in Nat : n = w * R + z
    BY Product
  <2>11. n * Q + d = w * (R * Q) + y
    <3>1. (w * R + z) * Q = w * (R * Q) + Q * z
      BY ONLY w \in Nat, R \in Nat \ {0}, Q \in Nat \ {0}, z \in Nat
    <3>2. PICK e \in Nat, f \in Nat : e = w * (R * Q) /\ f = Q * z
      BY ONLY Product, w \in Nat, R \in Nat \ {0}, Q \in Nat \ {0}, z \in Nat
    <3>3. y = f + d /\ n * Q = e + f
      BY <2>6, <2>10, <3>1, <3>2
    <3>4. n * Q + d = e + y
      BY ONLY <3>3, e \in Nat, f \in Nat, y \in Nat, d \in 0..Q-1, Q \in Nat \ {0}
    <3> QED
      BY <3>2, <3>4
  <2>12. ByteAt(x, count, j + 1) = d /\ d \in Byte /\ d \in Nat
    BY <2>2, <2>3, <2>5, <2>6, Widths DEF ByteAt, ByteBase
  <2>13. PICK t \in Seq(Byte) : t = top(j) /\ Len(t) = Len(q) + j /\ HasValue(ByteBase, t, n)
    BY <2>8, <2>10
  <2>14. top(j + 1) = Append(t, d)
    <3> DEFINE f == TopBytes(x, count, j)
               g == TopBytes(x, count, j + 1)
    <3>1. g = Append(f, d)
      BY <2>1, <2>12 DEF TopBytes
    <3>2. q \o Append(f, d) = Append(q \o f, d)
      BY SMTT(20) DEF TopBytes
    <3> QED
      BY <2>13, <3>1, <3>2
  <2>15. HasValue(ByteBase, Append(t, d), n * ByteBase + d)
    <3>1. t \in Seq(Nat)
      BY Widths, SMTT(20)
    <3> QED
      BY <2>12, <2>13, <3>1, ValueAppend, Widths
  <2>16. Append(t, d) \in Seq(Byte) /\ Len(Append(t, d)) = Len(q) + (j + 1)
    <3>1. Append(t, d) \in Seq(Byte) /\ Len(Append(t, d)) = Len(t) + 1
      BY ONLY t \in Seq(Byte), <2>12
    <3>2. Len(q) \in Nat
      OBVIOUS
    <3> QED
      BY <2>1, <2>13, <3>1, <3>2
  <2>17. n * ByteBase + d = number(j + 1)
    BY <2>3, <2>9, <2>11
  <2> HIDE DEF top, number
  <2> QED
    BY <2>1, <2>14, <2>15, <2>16, <2>17
<1>3. 0..k \subseteq S
  <2> HIDE DEF S
  <2> QED
    BY <1>1, <1>2, NatInduct
<1>4. k \in S
  <2>1. k \in 0..k
    OBVIOUS
  <2> HIDE DEF S
  <2> QED
    BY <1>3, <2>1
<1> QED
  BY <1>4

\* After m chunks that stand for x: the bytes that are complete, and behind them
\* the bits of the buffer, stand for x as well; less than a byte is open, unless
\* the payload has its length.
TakesNumber(acc, length, m, x) ==
    /\ acc.payload \in Seq(Byte) /\ acc.buffer \in Nat /\ acc.count \in Nat
    /\ Len(acc.payload) <= length /\ acc.buffer < Pow2(acc.count)
    /\ acc.count < ByteBits \/ Len(acc.payload) = length
    /\ Len(acc.payload) * ByteBits + acc.count = m * ChunkBits
    /\ \E w \in Nat : /\ HasValue(ByteBase, acc.payload, w)
                      /\ x = w * Pow2(acc.count) + acc.buffer

LEMMA TakeChunkTakesNumber ==
    ASSUME NEW length \in Nat, NEW acc, NEW chunk \in Chunk, NEW m \in Nat, NEW x \in Nat,
           TakesNumber(acc, length, m, x)
    PROVE  TakesNumber(TakeChunk(length, acc, chunk), length, m + 1, x * ChunkBase + chunk)
<1>1. PICK q \in Seq(Byte), b \in Nat, k \in Nat, w \in Nat, P \in Nat \ {0} :
          /\ q = acc.payload /\ b = acc.buffer /\ k = acc.count
          /\ Len(q) <= length /\ b < P /\ P = Pow2(k)
          /\ k < ByteBits \/ Len(q) = length
          /\ Len(q) * ByteBits + k = m * ChunkBits
          /\ HasValue(ByteBase, q, w)
          /\ x = w * P + b
  <2>1. Pow2(acc.count) \in Nat \ {0}
    BY Pow2Type DEF TakesNumber
  <2> QED
    BY <2>1 DEF TakesNumber
<1>2. PICK C \in Nat \ {0} : C = ChunkBase /\ chunk \in 0..C-1
  BY Widths
<1>3. PICK y \in Nat : y = b * C + chunk
  BY <1>2, Product
<1>4. PICK count \in Nat : count = k + ChunkBits
  BY Widths
<1>5. PICK T \in Nat \ {0} : T = Pow2(count) /\ T = P * C
  <2>1. Pow2(k + ChunkBits) = Pow2(k) * Pow2(ChunkBits)
    BY Pow2Sum, Widths
  <2>2. Pow2(count) \in Nat \ {0}
    BY Pow2Type
  <2> QED
    BY <1>1, <1>2, <1>4, <2>1, <2>2 DEF ChunkBase
<1>6. x * C + chunk = w * T + y /\ y < T
  <2>1. chunk \in Nat /\ chunk < C /\ b < P
    BY <1>1, <1>2
  <2>2. /\ (w * P + b) * C + chunk = w * (P * C) + (b * C + chunk)
        /\ b * C + chunk < P * C
    BY ONLY <2>1, w \in Nat, b \in Nat, P \in Nat \ {0}, C \in Nat \ {0}, Shift
  <2> QED
    BY <1>1, <1>3, <1>5, <2>2
<1>7. PICK l \in Nat, B \in Nat \ {0} : l = Len(q) /\ B = ByteBits
  BY Widths
<1>8. PICK open \in Nat : open = length - l
  <2>1. length - l \in Nat
    BY ONLY <1>1, <1>7, length \in Nat, l \in Nat
  <2> QED
    BY <2>1
<1>9. PICK fit \in Nat, rem \in 0..B-1 : fit = count \div B /\ count = B * fit + rem
  <2>1. count = B * (count \div B) + (count % B) /\ count % B \in 0..B-1 /\ count \div B \in Nat
    BY ONLY Division, count \in Nat, B \in Nat \ {0}
  <2> QED
    BY ONLY <2>1
<1>10. PICK j \in Nat : j = IF fit < open THEN fit ELSE open
  OBVIOUS
<1>11. PICK e \in Nat, s \in Nat : e = j * B /\ s = count - e /\ (s < B \/ j = open)
  <2>1. PICK e \in Nat : e = j * B
    BY Product
  <2>2. CASE fit < open
    <3>1. e = B * fit
      BY <1>10, <2>1, <2>2
    <3>2. count = e + rem
      BY ONLY <1>9, <3>1
    <3>3. count - e \in Nat /\ count - e < B
      BY ONLY <3>2, count \in Nat, e \in Nat, rem \in 0..B-1, B \in Nat \ {0}
    <3> QED
      BY <2>1, <3>3
  <2>3. CASE ~ (fit < open)
    <3>1. PICK d \in Nat : fit = open + d
      <4>1. fit - open \in Nat /\ fit = open + (fit - open)
        BY ONLY <2>3, fit \in Nat, open \in Nat
      <4> QED
        BY <4>1
    <3>2. j = open
      BY <1>10, <2>3
    <3>3. B * (open + d) = open * B + B * d /\ B * d \in Nat
      BY ONLY Product, open \in Nat, d \in Nat, B \in Nat \ {0}
    <3>4. PICK f \in Nat : f = B * d
      BY <3>3
    <3>5. count = e + f + rem
      BY <1>9, <2>1, <3>1, <3>2, <3>3, <3>4
    <3>6. count - e \in Nat
      BY ONLY <3>5, count \in Nat, e \in Nat, f \in Nat, rem \in 0..B-1, B \in Nat \ {0}
    <3> QED
      BY <2>1, <3>2, <3>6
  <2> QED
    BY <2>2, <2>3
<1>12. PICK longer : longer = q \o TopBytes(y, count, j)
  OBVIOUS
<1>13. PICK N \in Nat \ {0}, R \in Nat \ {0} : N = Pow2(s) /\ R = Pow2(e) /\ T = R * N
  <2>1. Pow2(e + s) = Pow2(e) * Pow2(s) /\ Pow2(e) \in Nat \ {0} /\ Pow2(s) \in Nat \ {0}
    BY Pow2Sum, Pow2Type
  <2>2. e + s = count
    BY ONLY <1>11, e \in Nat, s \in Nat, count \in Nat
  <2> QED
    BY <1>5, <2>1, <2>2
<1>14. PICK z \in Nat, r \in 0..N-1 : z = y \div N /\ r = y % N /\ y = N * z + r
  <2>1. y = N * (y \div N) + (y % N) /\ y % N \in 0..N-1 /\ y \div N \in Nat
    BY ONLY Division, y \in Nat, N \in Nat \ {0}
  <2> QED
    BY ONLY <2>1
<1>15. /\ longer \in Seq(Byte) /\ Len(longer) = l + j
       /\ HasValue(ByteBase, longer, w * R + z)
  <2>1. e <= count /\ count - e = s
    BY ONLY <1>11, e \in Nat, s \in Nat, count \in Nat
  <2>2. y < Pow2(count) /\ HasValue(ByteBase, q, w) /\ j * ByteBits <= count
    BY <1>1, <1>5, <1>6, <1>7, <1>11, <2>1
  <2>3. /\ longer \in Seq(Byte) /\ Len(longer) = Len(q) + j
        /\ HasValue(ByteBase, longer,
                    w * Pow2(j * ByteBits) + (y \div Pow2(count - j * ByteBits)))
    BY ONLY <1>12, <2>2, q \in Seq(Byte), w \in Nat, y \in Nat, count \in Nat,
            j \in Nat, AppendTopBytes
  <2>4. j * ByteBits = e
    BY <1>7, <1>11
  <2> QED
    BY <1>7, <1>13, <1>14, <2>1, <2>3, <2>4
<1>16. PICK v \in Nat : v = w * R + z
  BY Product
<1>17. x * ChunkBase + chunk = v * N + r
  <2>1. (w * R + z) * N = w * (R * N) + N * z
    BY ONLY w \in Nat, R \in Nat \ {0}, N \in Nat \ {0}, z \in Nat
  <2>2. PICK f \in Nat, g \in Nat : f = w * (R * N) /\ g = N * z
    BY ONLY Product, w \in Nat, R \in Nat \ {0}, N \in Nat \ {0}, z \in Nat
  <2>3. v * N = f + g /\ y = g + r /\ x * C + chunk = f + y
    BY <1>6, <1>13, <1>14, <1>16, <2>1, <2>2
  <2>4. f + y = v * N + r
    BY ONLY <2>3, f \in Nat, g \in Nat, y \in Nat, r \in 0..N-1, N \in Nat \ {0}
  <2> QED
    BY <1>2, <2>3, <2>4
<1>18. TakeChunk(length, acc, chunk) = [payload |-> longer, buffer |-> r, count |-> s]
  <2>1. y = acc.buffer * Pow2(ChunkBits) + chunk /\ count = acc.count + ChunkBits
        /\ open = length - Len(acc.payload) /\ fit = count \div ByteBits
    BY <1>1, <1>2, <1>3, <1>4, <1>7, <1>8, <1>9 DEF ChunkBase
  <2>2. j = IF count \div ByteBits < open THEN count \div ByteBits ELSE open
    BY <1>10, <2>1
  <2>3. TakeChunk(length, acc, chunk) =
            [payload |-> acc.payload \o TopBytes(y, count, j),
             buffer |-> y % Pow2(count - j * ByteBits), count |-> count - j * ByteBits]
    BY <2>1, <2>2 DEF TakeChunk, TopBytes, ByteAt
  <2> QED
    BY <1>1, <1>7, <1>11, <1>12, <1>13, <1>14, <2>3
<1>19. (l + j) * ByteBits + s = (m + 1) * ChunkBits
  <2>1. (l + j) * B = l * B + j * B /\ (m + 1) * ChunkBits = m * ChunkBits + ChunkBits
    BY ONLY l \in Nat, j \in Nat, B \in Nat \ {0}, m \in Nat, Widths
  <2>2. PICK f \in Nat, g \in Nat : f = l * B /\ g = m * ChunkBits
    BY Product, Widths
  <2>3. f + k = g
    BY <1>1, <1>7, <2>2
  <2>4. f + e + s = g + ChunkBits
    BY ONLY <2>3, <1>4, <1>11, f \in Nat, g \in Nat, e \in Nat, s \in Nat, k \in Nat, Widths,
            count \in Nat
  <2> QED
    BY <1>7, <1>11, <2>1, <2>2, <2>4
<1>20. l + j <= length /\ (s < ByteBits \/ l + j = length)
  <2>1. j <= open
    BY ONLY <1>10, fit \in Nat, open \in Nat, j \in Nat
  <2>2. open + l = length
    BY ONLY <1>8, open \in Nat, l \in Nat, length \in Nat
  <2>3. l + j <= length /\ (j = open => l + j = length)
    BY ONLY <2>1, <2>2, open \in Nat, l \in Nat, length \in Nat, j \in Nat
  <2> QED
    BY <1>7, <1>11, <2>3
<1>21. r \in Nat /\ r < Pow2(s)
  BY <1>13
<1>22. PICK a : a = TakeChunk(length, acc, chunk)
  OBVIOUS
<1>23. a.payload = longer /\ a.buffer = r /\ a.count = s
  BY <1>18, <1>22
<1>24. TakesNumber(a, length, m + 1, x * ChunkBase + chunk)
  <2>1. HasValue(ByteBase, longer, v)
    BY <1>15, <1>16
  <2>2. longer \in Seq(Byte) /\ Len(longer) = l + j
    BY <1>15
  <2>3. x * ChunkBase + chunk = v * Pow2(s) + r
    BY <1>13, <1>17
  <2> QED
    BY ONLY <1>19, <1>20, <1>21, <1>23, <2>1, <2>2, <2>3, s \in Nat, v \in Nat DEF TakesNumber
<1> QED
  BY <1>22, <1>24

TakeAcc(length) ==
    {acc \in [payload: Seq(Byte), buffer: Nat, count: Nat] :
        \E m, x \in Nat : TakesNumber(acc, length, m, x)}

NothingTaken == [payload |-> <<>>, buffer |-> 0, count |-> 0]

LEMMA NothingTakenStart ==
    ASSUME NEW length \in Nat
    PROVE  TakesNumber(NothingTaken, length, 0, 0) /\ NothingTaken \in TakeAcc(length)
<1>1. HasValue(ByteBase, <<>>, 0)
  BY ValueEmpty, Widths
<1>2. <<>> \in Seq(Byte) /\ Len(<<>>) = 0 /\ 0 \in Nat
  OBVIOUS
<1>3. 0 < Pow2(0) /\ 0 * ByteBits + 0 = 0 * ChunkBits /\ 0 = 0 * Pow2(0) + 0
  <2>1. Pow2(0) = 1
    BY Pow2Next
  <2>2. \A a, b \in Nat : 0 * a + 0 = 0 * b
    OBVIOUS
  <2> QED
    BY ONLY <2>1, <2>2, Widths
<1>4. NothingTaken.payload = <<>> /\ NothingTaken.buffer = 0 /\ NothingTaken.count = 0
      /\ NothingTaken \in [payload: Seq(Byte), buffer: Nat, count: Nat]
  BY <1>2 DEF NothingTaken
<1>5. 0 < ByteBits /\ 0 <= length
  BY Widths
<1>6. TakesNumber(NothingTaken, length, 0, 0)
  BY ONLY <1>1, <1>2, <1>3, <1>4, <1>5 DEF TakesNumber
<1> QED
  BY <1>2, <1>4, <1>6 DEF TakeAcc

LEMMA TakeChunkType ==
    ASSUME NEW length \in Nat, NEW acc \in TakeAcc(length), NEW chunk \in Chunk
    PROVE  TakeChunk(length, acc, chunk) \in TakeAcc(length)
<1>1. PICK m \in Nat, x \in Nat : TakesNumber(acc, length, m, x)
  BY DEF TakeAcc
<1>2. PICK y \in Nat, n \in Nat : y = x * ChunkBase + chunk /\ n = m + 1
  <2>1. chunk \in Nat /\ ChunkBase \in Nat
    BY Widths
  <2>2. x * ChunkBase + chunk \in Nat /\ m + 1 \in Nat
    BY <2>1, Product
  <2> QED
    BY <2>2
<1>3. PICK a : a = TakeChunk(length, acc, chunk)
  OBVIOUS
<1>4. TakesNumber(a, length, n, y)
  BY <1>1, <1>2, <1>3, TakeChunkTakesNumber
<1>5. a = [payload |-> a.payload, buffer |-> a.buffer, count |-> a.count]
  BY <1>3 DEF TakeChunk
<1>6. a.payload \in Seq(Byte) /\ a.buffer \in Nat /\ a.count \in Nat
  BY <1>4 DEF TakesNumber
<1>7. a \in [payload: Seq(Byte), buffer: Nat, count: Nat]
  BY <1>5, <1>6
<1> QED
  BY <1>3, <1>4, <1>7 DEF TakeAcc

\* The recursion of TakeChunks is defined.
LEMMA TakeChunksRun ==
    ASSUME NEW length \in Nat, NEW chunks \in Seq(Chunk)
    PROVE  \E run \in [0..Len(chunks) -> TakeAcc(length)] :
              /\ run[0] = NothingTaken
              /\ \A i \in 1..Len(chunks) : run[i] = TakeChunk(length, run[i - 1], chunks[i])
              /\ TakeChunks(length, chunks) = run[Len(chunks)]
<1>1. PICK n \in Nat : n = Len(chunks)
  OBVIOUS
<1>2. PICK A : A = TakeAcc(length)
  OBVIOUS
<1> DEFINE Follows(r) == r = [i \in 0..n |-> IF i = 0 THEN NothingTaken
                                              ELSE TakeChunk(length, r[i - 1], chunks[i])]
<1>3. \E r : Follows(r) /\ r \in [0..n -> A]
  <2> DEFINE step == [i \in 1..n |-> [acc \in A |-> TakeChunk(length, acc, chunks[i])]]
  <2>1. step \in [1..n -> [A -> A]]
    <3>1. \A i \in 1..n : chunks[i] \in Chunk
      BY <1>1
    <3> QED
      BY <1>2, <3>1, TakeChunkType
  <2>2. NothingTaken \in A
    BY <1>2, NothingTakenStart
  <2>3. PICK r : IsIteration(r, A, NothingTaken, n, step)
    <3> HIDE DEF step
    <3> QED
      BY <2>1, <2>2, RunExists
  <2>4. \A i \in 0..n : i = 0 \/ (i \in 1..n /\ i - 1 \in 0..n)
    OBVIOUS
  <2>5. \A i \in 0..n : r[i] = IF i = 0 THEN NothingTaken
                                ELSE TakeChunk(length, r[i - 1], chunks[i])
    BY <2>3, <2>4 DEF IsIteration
  <2>6. r = [i \in 0..n |-> r[i]] /\ r \in [0..n -> A]
    BY <2>3 DEF IsIteration
  <2> QED
    BY <2>5, <2>6
<1>4. PICK run : run = CHOOSE r : Follows(r)
  OBVIOUS
<1>5. Follows(run)
  <2>1. \E r : Follows(r)
    BY <1>3
  <2> HIDE DEF Follows
  <2> QED
    BY <1>4, <2>1
<1>6. TakeChunks(length, chunks) = run[n]
  BY <1>1, <1>4 DEF TakeChunks, NothingTaken
<1>7. run[0] = NothingTaken /\ \A i \in 1..n : run[i] = TakeChunk(length, run[i - 1], chunks[i])
  BY <1>5
<1>8. \A i \in 0..n : run[i] \in A
  <2>1. run[0] \in A
    BY <1>2, <1>7, NothingTakenStart
  <2>2. \A i \in 1..n : run[i - 1] \in A => run[i] \in A
    BY <1>1, <1>2, <1>7, TakeChunkType
  <2> QED
    BY ONLY n \in Nat, <2>1, <2>2, StaysIn
<1> QED
  BY <1>1, <1>2, <1>5, <1>6, <1>7, <1>8

\* The number the chunks stand for is the number of what was taken.
LEMMA TakeChunksTakesNumber ==
    ASSUME NEW length \in Nat, NEW chunks \in Seq(Chunk)
    PROVE  \E x \in Nat : /\ HasValue(ChunkBase, chunks, x)
                          /\ TakesNumber(TakeChunks(length, chunks), length, Len(chunks), x)
<1>1. PICK n \in Nat : n = Len(chunks)
  OBVIOUS
<1>2. chunks \in Seq(Nat)
  BY Widths
<1>3. PICK x \in Nat : HasValue(ChunkBase, chunks, x)
  BY <1>2, ValueExists, Widths
<1>4. PICK v \in [0..n -> Nat] : /\ v[0] = 0
                                 /\ \A i \in 1..n : v[i] = v[i - 1] * ChunkBase + chunks[i]
                                 /\ v[n] = x
  BY <1>1, <1>3 DEF HasValue
<1>5. PICK run : /\ run[0] = NothingTaken
                 /\ \A i \in 1..n : run[i] = TakeChunk(length, run[i - 1], chunks[i])
                 /\ TakeChunks(length, chunks) = run[n]
  BY <1>1, TakeChunksRun
<1> DEFINE S == {i \in 0..n : TakesNumber(run[i], length, i, v[i])}
<1>6. 0 \in S
  BY <1>4, <1>5, NothingTakenStart
<1>7. ASSUME NEW i \in S, i \in 0..n-1
      PROVE  i + 1 \in S
  <2>1. i \in 0..n /\ i \in Nat /\ i + 1 \in 1..n /\ (i + 1) - 1 = i /\ i + 1 \in 0..n
    BY <1>7
  <2>2. v[i] \in Nat /\ chunks[i + 1] \in Chunk
    BY <1>1, <1>4, <2>1
  <2>3. run[i + 1] = TakeChunk(length, run[i], chunks[i + 1])
        /\ v[i + 1] = v[i] * ChunkBase + chunks[i + 1]
    BY <1>4, <1>5, <2>1
  <2>4. TakesNumber(run[i], length, i, v[i])
    OBVIOUS
  <2>5. PICK y \in Chunk, z \in Nat : y = chunks[i + 1] /\ z = v[i]
    BY <2>2
  <2>6. PICK a : a = run[i]
    OBVIOUS
  <2>7. TakesNumber(TakeChunk(length, a, y), length, i + 1, z * ChunkBase + y)
    BY <2>1, <2>4, <2>5, <2>6, TakeChunkTakesNumber
  <2> QED
    BY <2>1, <2>3, <2>5, <2>6, <2>7
<1>8. 0..n \subseteq S
  <2> HIDE DEF S
  <2> QED
    BY <1>6, <1>7, NatInduct
<1>9. TakesNumber(run[n], length, n, v[n])
  BY <1>8
<1> QED
  BY <1>1, <1>3, <1>4, <1>5, <1>9

\* With chunks enough for the payload, all of it comes out, and what is left are
\* the bits of the padding.
LEMMA TakenBytes ==
    ASSUME NEW length \in Nat, NEW chunks \in Seq(Chunk), NEW pad \in Nat,
           Len(chunks) * ChunkBits = length * ByteBits + pad,
           NEW acc, acc = TakeChunks(length, chunks)
    PROVE  \E x \in Nat :
              /\ acc.payload \in Seq(Byte) /\ Len(acc.payload) = length
              /\ acc.buffer \in Nat /\ acc.buffer < Pow2(pad)
              /\ HasValue(ByteBase, acc.payload, x)
              /\ HasValue(ChunkBase, chunks, x * Pow2(pad) + acc.buffer)
<1>1. PICK n \in Nat, z \in Nat : /\ HasValue(ChunkBase, chunks, z)
                                  /\ TakesNumber(acc, length, n, z)
                                  /\ n = Len(chunks)
  BY TakeChunksTakesNumber
<1>2. PICK q \in Seq(Byte), b \in Nat, k \in Nat, w \in Nat :
          /\ q = acc.payload /\ b = acc.buffer /\ k = acc.count
          /\ Len(q) <= length /\ b < Pow2(k)
          /\ k < ByteBits \/ Len(q) = length
          /\ Len(q) * ByteBits + k = n * ChunkBits
          /\ HasValue(ByteBase, q, w)
          /\ z = w * Pow2(k) + b
  BY <1>1 DEF TakesNumber
<1>3. PICK l \in Nat, B \in Nat \ {0} : l = Len(q) /\ B = ByteBits
  BY Widths
<1>4. l * B + k = length * B + pad
  BY <1>1, <1>2, <1>3
<1>5. l = length /\ k = pad
  <2>1. PICK d \in Nat : length = l + d
    <3>1. length - l \in Nat /\ length = l + (length - l)
      BY ONLY <1>2, <1>3, length \in Nat, l \in Nat
    <3> QED
      BY <3>1
  <2>2. (l + d) * B = l * B + d * B
    BY ONLY l \in Nat, d \in Nat, B \in Nat \ {0}
  <2>3. PICK e \in Nat, f \in Nat : e = l * B /\ f = d * B
    BY Product
  <2>4. e + k = e + f + pad
    BY <1>4, <2>1, <2>2, <2>3
  <2>5. k = f + pad
    BY ONLY <2>4, e \in Nat, f \in Nat, k \in Nat, pad \in Nat
  <2>6. d = 0
    <3>1. CASE d = 0
      BY <3>1
    <3>2. CASE d # 0
      <4>1. PICK c \in Nat : d = c + 1
        <5>1. d - 1 \in Nat /\ d = (d - 1) + 1
          BY ONLY <3>2, d \in Nat
        <5> QED
          BY <5>1
      <4>2. (c + 1) * B = c * B + B /\ c * B \in Nat
        BY ONLY Product, c \in Nat, B \in Nat \ {0}
      <4>3. f >= B
        BY <2>3, <4>1, <4>2
      <4>4. ~ (k < B)
        BY ONLY <2>5, <4>3, f \in Nat, pad \in Nat, k \in Nat, B \in Nat \ {0}
      <4>5. l = length
        BY <1>2, <1>3, <4>4
      <4> QED
        BY ONLY <2>1, <3>2, <4>5, l \in Nat, length \in Nat, d \in Nat
    <3> QED
      BY <3>1, <3>2
  <2>7. f = 0
    BY ONLY <2>3, <2>6, B \in Nat \ {0}
  <2> QED
    BY ONLY <2>1, <2>5, <2>6, <2>7, l \in Nat, length \in Nat, k \in Nat, pad \in Nat
<1> QED
  BY <1>1, <1>2, <1>3, <1>5

-----------------------------------------------------------------------------
\* Framing and unframing.

\* The number of chunks that a bits fill.
ChunkCount(a) == (a + ChunkBits - 1) \div ChunkBits

LEMMA ChunkCountIsLeast ==
    ASSUME NEW a \in Nat
    PROVE  /\ ChunkCount(a) \in Nat
           /\ \E pad \in 0..ChunkBits-1 : ChunkCount(a) * ChunkBits = a + pad
           /\ \A n \in Nat, pad \in 0..ChunkBits-1 :
                 n * ChunkBits = a + pad => ChunkCount(a) = n
<1>0. PICK y \in Nat \ {0} : y = ChunkBits
  BY Widths
<1>1. PICK x \in Nat : x = a + y - 1
  <2>1. a + y - 1 \in Nat
    OBVIOUS
  <2> QED
    BY <2>1
<1>2. PICK q \in Nat, r \in 0..y-1 : q = x \div y /\ x = y * q + r
  <2>1. x = y * (x \div y) + (x % y) /\ x % y \in 0..y-1 /\ x \div y \in Nat
    BY ONLY Division, x \in Nat, y \in Nat \ {0}
  <2> QED
    BY ONLY <2>1
<1>3. \E pad \in 0..y-1 : q * y = a + pad
  <2>1. PICK e \in Nat : e = y * q /\ e = q * y
    BY ONLY Product, y \in Nat \ {0}, q \in Nat
  <2>2. PICK pad \in 0..y-1 : pad = y - 1 - r
    OBVIOUS
  <2>3. e = a + pad
    BY ONLY <1>1, <1>2, <2>1, <2>2, a \in Nat, e \in Nat, y \in Nat \ {0}, r \in 0..y-1,
            pad \in 0..y-1
  <2> QED
    BY <2>1, <2>3
<1>4. ASSUME NEW n \in Nat, NEW pad \in 0..y-1, n * y = a + pad
      PROVE  q = n
  <2>1. PICK e \in Nat : e = y * n /\ e = n * y
    BY ONLY Product, y \in Nat \ {0}, n \in Nat
  <2>2. PICK s \in 0..y-1 : s = y - 1 - pad
    OBVIOUS
  <2>3. x = e + s
    BY ONLY <1>1, <1>4, <2>1, <2>2, a \in Nat, e \in Nat, y \in Nat \ {0}, s \in 0..y-1,
            pad \in 0..y-1
  <2>4. y * q + r = y * n + s
    BY <1>2, <2>1, <2>3
  <2> QED
    BY ONLY <2>4, y \in Nat \ {0}, q \in Nat, n \in Nat, r \in 0..y-1, s \in 0..y-1,
            QuotientIsUnique
<1>5. ChunkCount(a) = q
  BY <1>0, <1>1, <1>2 DEF ChunkCount
<1> QED
  BY <1>0, <1>3, <1>4, <1>5

LEMMA WordType == Word \subseteq Nat
<1>1. PICK b \in Nat : b = WordBytes * ByteBits
  BY Widths, Product
<1>2. Pow2(b) \in Nat \ {0}
  BY Pow2Type
<1> QED
  BY <1>1, <1>2 DEF Word

\* What Frame returns for a payload that is not too long.
LEMMA FrameParts ==
    ASSUME NEW bytes \in Seq(Byte), Len(bytes) <= MaxLength
    PROVE  \E c \in Seq(Chunk), x \in Nat, pad \in Nat :
              /\ Frame(bytes) = <<Marker + Len(bytes)>> \o c
              /\ HasValue(ByteBase, bytes, x)
              /\ pad < ChunkBits
              /\ Len(c) * ChunkBits = Len(bytes) * ByteBits + pad
              /\ HasValue(ChunkBase, c, x * Pow2(pad))
<1>1. Frame(bytes) = <<Marker + Len(bytes)>> \o Flush(PutBytes(bytes))
  <2>1. Len(bytes) \in Nat
    OBVIOUS
  <2>2. ~ (Len(bytes) > MaxLength)
    BY <2>1, Widths
  <2> QED
    BY <2>2 DEF Frame
<1> QED
  BY <1>1, FlushedChunks

\* The words of a frame are words, and below Marker + MaxLength.
LEMMA FrameType ==
    ASSUME NEW bytes \in Seq(Byte), Len(bytes) <= MaxLength
    PROVE  /\ Frame(bytes) \in Seq(Word)
           /\ \A i \in DOMAIN Frame(bytes) : Frame(bytes)[i] <= Marker + MaxLength
<1>1. PICK c \in Seq(Chunk) : Frame(bytes) = <<Marker + Len(bytes)>> \o c
  BY FrameParts
<1>2. PICK l \in Nat, M \in Nat \ {0} : l = Len(bytes) /\ M = Marker /\ l <= MaxLength
  BY Widths
<1>3. MaxLength \in Nat /\ MaxLength < M
  BY <1>2, FramingAssumption, Widths DEF FramingAssumption
<1>4. PICK W \in Nat \ {0} : Word = 0..W-1 /\ 2 * M <= W
  <2>1. PICK b \in Nat : b = WordBytes * ByteBits
    BY Widths, Product
  <2>2. ChunkBits < b
    BY <2>1, FramingAssumption DEF FramingAssumption
  <2>3. Pow2(b) \in Nat \ {0}
    BY Pow2Type
  <2>4. 2 * Pow2(ChunkBits) <= Pow2(b)
    BY <2>2, Pow2Less, Widths
  <2> QED
    BY <1>2, <2>1, <2>3, <2>4 DEF Word, Marker
<1>5. M + l \in Word /\ M + l <= M + MaxLength
  BY ONLY <1>2, <1>3, <1>4, l \in Nat, M \in Nat \ {0}, W \in Nat \ {0}
<1>6. ASSUME NEW d \in Chunk PROVE d \in Word /\ d <= M + MaxLength
  <2>1. d \in 0..M-1
    BY <1>2, Widths
  <2> QED
    BY ONLY <1>3, <1>4, <2>1, M \in Nat \ {0}, W \in Nat \ {0}
<1>7. PICK f : f = <<M + l>> \o c /\ f = Frame(bytes)
  BY <1>1, <1>2
<1>8. \A i \in 1..Len(c) : c[i] \in Word /\ c[i] <= M + MaxLength
  BY <1>6
<1>9. c \in Seq(Word)
  BY <1>8
<1>10. f \in Seq(Word)
  BY <1>5, <1>7, <1>9
<1>11. Len(f) = Len(c) + 1 /\ f[1] = M + l /\ \A i \in 2..Len(f) : f[i] = c[i - 1]
  BY <1>7
<1>12. \A i \in 1..Len(f) : f[i] <= M + MaxLength
  <2>1. ASSUME NEW i \in 1..Len(f) PROVE f[i] <= M + MaxLength
    <3>1. CASE i = 1
      BY <1>5, <1>11, <3>1
    <3>2. CASE i # 1
      <4>1. i \in 2..Len(f) /\ i - 1 \in 1..Len(c)
        BY <1>11, <3>2
      <4> QED
        BY <1>8, <1>11, <4>1
    <3> QED
      BY <3>1, <3>2
  <2> QED
    BY <2>1
<1>13. DOMAIN f = 1..Len(f)
  BY <1>10
<1> QED
  BY <1>2, <1>7, <1>10, <1>12, <1>13

\* What Unframe does with field-safe words.
LEMMA UnframeFieldSafe ==
    ASSUME NEW words, words # <<>>, NEW length \in Nat, words[1] = Marker + length
    PROVE  Unframe(words) =
              IF \/ length > MaxLength
                 \/ Len(words) # ChunkCount(length * ByteBits) + 1
                 \/ \E i \in 2..Len(words) : words[i] >= Marker
                 \/ TakeChunks(length, Tail(words)).buffer # 0
              THEN Error ELSE TakeChunks(length, Tail(words)).payload
<1>1. words[1] >= Marker /\ words[1] - Marker = length
  BY Widths
<1>2. Unframe(words) = UnframeChunks(words)
  BY <1>1 DEF Unframe
<1> QED
  BY <1>1, <1>2 DEF UnframeChunks, PaddingClear, ChunkCount

\* A verifier recovers what was framed.
LEMMA FramedIsUnframed ==
    ASSUME NEW bytes \in Seq(Byte), Len(bytes) <= MaxLength
    PROVE  Unframe(Frame(bytes)) = bytes
<1>1. PICK c \in Seq(Chunk), x \in Nat, pad \in Nat :
          /\ Frame(bytes) = <<Marker + Len(bytes)>> \o c
          /\ HasValue(ByteBase, bytes, x)
          /\ pad < ChunkBits
          /\ Len(c) * ChunkBits = Len(bytes) * ByteBits + pad
          /\ HasValue(ChunkBase, c, x * Pow2(pad))
  BY FrameParts
<1>2. PICK l \in Nat : l = Len(bytes)
  OBVIOUS
<1>3. PICK words : words = Frame(bytes)
  OBVIOUS
<1>4. words # <<>> /\ words[1] = Marker + l /\ Tail(words) = c /\ Len(words) = Len(c) + 1
      /\ \A i \in 2..Len(words) : words[i] = c[i - 1]
  <2>1. words = <<Marker + l>> \o c
    BY <1>1, <1>2, <1>3
  <2> QED
    BY ONLY <2>1, c \in Seq(Chunk)
<1>5. PICK acc : acc = TakeChunks(l, c)
  OBVIOUS
<1>6. PICK y \in Nat : /\ acc.payload \in Seq(Byte) /\ Len(acc.payload) = l
                       /\ acc.buffer \in Nat /\ acc.buffer < Pow2(pad)
                       /\ HasValue(ByteBase, acc.payload, y)
                       /\ HasValue(ChunkBase, c, y * Pow2(pad) + acc.buffer)
  BY <1>1, <1>2, <1>5, TakenBytes
<1>7. x = y /\ acc.buffer = 0
  <2>1. PICK P \in Nat \ {0}, b \in Nat : P = Pow2(pad) /\ b = acc.buffer
    BY <1>6, Pow2Type
  <2>2. x * P = y * P + b
    <3>1. c \in Seq(Nat)
      BY Widths
    <3>2. PICK e \in Nat, f \in Nat : e = x * P /\ f = y * P + b
      BY Product
    <3>3. HasValue(ChunkBase, c, e) /\ HasValue(ChunkBase, c, f)
      BY <1>1, <1>6, <2>1, <3>2
    <3>4. e = f
      BY <3>1, <3>3, ValueIsUnique, Widths
    <3> QED
      BY <3>2, <3>4
  <2>3. 0 \in 0..P-1 /\ b \in 0..P-1
    BY <1>6, <2>1, SMTT(20)
  <2>4. P * x + 0 = P * y + b
    BY ONLY <2>2, x \in Nat, y \in Nat, P \in Nat \ {0}, b \in Nat
  <2>5. x = y /\ 0 = b
    BY ONLY <2>3, <2>4, x \in Nat, y \in Nat, P \in Nat \ {0}, QuotientIsUnique
  <2> QED
    BY <2>1, <2>5
<1>8. acc.payload = bytes
  <2>1. PICK q \in Seq(Byte) : q = acc.payload /\ Len(q) = Len(bytes) /\ HasValue(ByteBase, q, x)
    BY <1>2, <1>6, <1>7
  <2>2. q \in Seq(0..ByteBase-1) /\ bytes \in Seq(0..ByteBase-1)
    BY Widths
  <2>3. q = bytes
    BY <1>1, <2>1, <2>2, DigitsAreUnique, Widths
  <2> QED
    BY <2>1, <2>3
<1>9. PICK a \in Nat : a = l * ByteBits
  BY Product, Widths
<1>10. ChunkCount(a) = Len(c)
  <2>1. Len(c) * ChunkBits = a + pad /\ pad \in 0..ChunkBits-1 /\ Len(c) \in Nat
    BY <1>1, <1>2, <1>9, Widths, SMTT(20)
  <2>2. \A k \in Nat, fill \in 0..ChunkBits-1 : k * ChunkBits = a + fill => ChunkCount(a) = k
    BY ChunkCountIsLeast
  <2> QED
    BY ONLY <2>1, <2>2
<1>11. \A i \in 2..Len(words) : ~ (words[i] >= Marker)
  <2>1. ASSUME NEW i \in 2..Len(words) PROVE ~ (words[i] >= Marker)
    <3>1. words[i] = c[i - 1] /\ i - 1 \in 1..Len(c)
      BY <1>4
    <3>2. words[i] \in 0..ChunkBase-1
      BY <3>1, Widths, SMTT(20)
    <3> QED
      BY <3>2, Widths
  <2> QED
    BY <2>1
<1>12. ~ (l > MaxLength)
  BY <1>2, Widths
<1>13. Unframe(words) =
          IF \/ l > MaxLength
             \/ Len(words) # ChunkCount(l * ByteBits) + 1
             \/ \E i \in 2..Len(words) : words[i] >= Marker
             \/ TakeChunks(l, Tail(words)).buffer # 0
          THEN Error ELSE TakeChunks(l, Tail(words)).payload
  BY <1>4, UnframeFieldSafe
<1> QED
  BY <1>3, <1>4, <1>5, <1>7, <1>8, <1>9, <1>10, <1>11, <1>12, <1>13

\* And field-safe words that Unframe takes are the frame of what it returns.
LEMMA UnframedIsFramed ==
    ASSUME NEW words \in Seq(Word), words # <<>>, words[1] >= Marker, Unframe(words) # Error
    PROVE  /\ Unframe(words) \in Seq(Byte) /\ Len(Unframe(words)) <= MaxLength
           /\ Frame(Unframe(words)) = words
<1>1. PICK n \in Nat, length \in Nat :
          Len(words) = n + 1 /\ words[1] = Marker + length
  <2>1. words[1] \in Nat /\ Len(words) \in Nat \ {0}
    <3>1. Word \subseteq Nat
      BY WordType
    <3>2. Len(words) \in Nat \ {0} /\ words[1] \in Word
      OBVIOUS
    <3> QED
      BY <3>1, <3>2
  <2>2. words[1] - Marker \in Nat /\ words[1] = Marker + (words[1] - Marker)
    BY <2>1, Widths
  <2>3. Len(words) - 1 \in Nat /\ Len(words) = (Len(words) - 1) + 1
    BY <2>1
  <2> QED
    BY <2>2, <2>3
<1>2. PICK c : c = Tail(words)
  OBVIOUS
<1>3. Len(c) = n /\ words = <<Marker + length>> \o c
      /\ \A i \in 1..n : c[i] = words[i + 1] /\ i + 1 \in 2..Len(words)
  <2>1. Len(c) = n /\ c \in Seq(Word)
    BY <1>1, <1>2
  <2>2. \A i \in 1..n : c[i] = words[i + 1] /\ i + 1 \in 2..Len(words)
    BY <1>1, <1>2
  <2>3. Len(<<Marker + length>> \o c) = n + 1
        /\ \A i \in 1..n+1 : (<<Marker + length>> \o c)[i] = words[i]
    BY <1>1, <2>1, <2>2
  <2> QED
    BY <1>1, <2>1, <2>2, <2>3
<1>4. PICK acc : acc = TakeChunks(length, c)
  OBVIOUS
<1>5. PICK a \in Nat : a = length * ByteBits
  BY Product, Widths
<1>6. /\ length <= MaxLength /\ n = ChunkCount(a)
      /\ \A i \in 2..Len(words) : ~ (words[i] >= Marker)
      /\ acc.buffer = 0 /\ Unframe(words) = acc.payload
  <2>1. ChunkCount(a) \in Nat
    BY ChunkCountIsLeast
  <2>2. Unframe(words) =
            IF \/ length > MaxLength
               \/ Len(words) # ChunkCount(length * ByteBits) + 1
               \/ \E i \in 2..Len(words) : words[i] >= Marker
               \/ TakeChunks(length, Tail(words)).buffer # 0
            THEN Error ELSE TakeChunks(length, Tail(words)).payload
    BY <1>1, UnframeFieldSafe
  <2> QED
    BY <1>1, <1>2, <1>4, <1>5, <2>1, <2>2, Widths
<1>7. c \in Seq(Chunk)
  <2>1. ASSUME NEW i \in 1..n PROVE c[i] \in Chunk
    <3>1. c[i] \in Word /\ ~ (c[i] >= Marker)
      BY <1>3, <1>6
    <3>2. PICK d \in Nat : d = c[i]
      BY <3>1, WordType
    <3> QED
      BY <3>1, <3>2, Widths
  <2>2. c \in Seq(Word)
    BY <1>2
  <2> QED
    BY <1>3, <2>1, <2>2
<1>8. /\ \E pad \in 0..ChunkBits-1 : n * ChunkBits = a + pad
      /\ \A k \in Nat, fill \in 0..ChunkBits-1 : k * ChunkBits = a + fill => n = k
  <2>1. /\ \E pad \in 0..ChunkBits-1 : ChunkCount(a) * ChunkBits = a + pad
        /\ \A k \in Nat, pad \in 0..ChunkBits-1 :
              k * ChunkBits = a + pad => ChunkCount(a) = k
    BY ONLY a \in Nat, ChunkCountIsLeast, Zenon
  <2> QED
    BY ONLY <1>6, <2>1, Zenon
<1>14. PICK pad \in 0..ChunkBits-1 : n * ChunkBits = a + pad
  BY <1>8
<1>9. PICK q \in Seq(Byte), x \in Nat :
          /\ q = acc.payload /\ Len(q) = length
          /\ HasValue(ByteBase, q, x)
          /\ HasValue(ChunkBase, c, x * Pow2(pad))
  <2>1. Len(c) * ChunkBits = length * ByteBits + pad /\ pad \in Nat
    BY <1>3, <1>5, <1>14, Widths
  <2>2. PICK x \in Nat : /\ acc.payload \in Seq(Byte) /\ Len(acc.payload) = length
                         /\ HasValue(ByteBase, acc.payload, x)
                         /\ HasValue(ChunkBase, c, x * Pow2(pad) + acc.buffer)
    BY <1>4, <1>7, <2>1, TakenBytes
  <2>3. x * Pow2(pad) + acc.buffer = x * Pow2(pad)
    <3>1. PICK e \in Nat : e = x * Pow2(pad)
      BY <2>1, Pow2Type, Product
    <3> QED
      BY <1>6, <3>1
  <2> QED
    BY <2>2, <2>3
<1>10. PICK d \in Seq(Chunk), y \in Nat, fill \in Nat :
           /\ Frame(q) = <<Marker + Len(q)>> \o d
           /\ HasValue(ByteBase, q, y)
           /\ fill < ChunkBits
           /\ Len(d) * ChunkBits = Len(q) * ByteBits + fill
           /\ HasValue(ChunkBase, d, y * Pow2(fill))
  BY <1>6, <1>9, FrameParts
<1>11. Len(d) = n /\ fill = pad
  <2>1. fill \in 0..ChunkBits-1 /\ Len(d) \in Nat /\ Len(d) * ChunkBits = a + fill
    BY <1>5, <1>9, <1>10, Widths
  <2>2. Len(d) = n
    BY ONLY <1>8, <2>1
  <2>3. a + fill = a + pad
    BY <1>14, <2>1, <2>2
  <2> QED
    BY ONLY <2>1, <2>2, <2>3, a \in Nat, pad \in 0..ChunkBits-1, Widths
<1>12. y = x
  <2>1. q \in Seq(Nat)
    BY Widths
  <2> QED
    BY <1>9, <1>10, <2>1, ValueIsUnique, Widths
<1>13. d = c
  <2>1. PICK z \in Nat : z = x * Pow2(pad)
    <3>1. pad \in Nat
      BY Widths
    <3> QED
      BY <3>1, Pow2Type, Product
  <2>2. HasValue(ChunkBase, c, z) /\ HasValue(ChunkBase, d, z)
    BY <1>9, <1>10, <1>11, <1>12, <2>1
  <2>3. c \in Seq(0..ChunkBase-1) /\ d \in Seq(0..ChunkBase-1) /\ Len(d) = Len(c)
    BY <1>3, <1>7, <1>11, Widths
  <2> QED
    BY <2>2, <2>3, DigitsAreUnique, Widths
<1> QED
  BY <1>3, <1>6, <1>9, <1>10, <1>13

-----------------------------------------------------------------------------
\* Parts behind their lengths.

Part == {p \in Seq(Byte) : Len(p) \in Byte}

\* r lists the first parts, the first two, and so on.
Lists(r, parts) ==
    /\ r \in [0..Len(parts) -> Seq(Byte)]
    /\ r[0] = <<>>
    /\ \A i \in 1..Len(parts) : r[i] = r[i - 1] \o <<Len(parts[i])>> \o parts[i]

Regroups(a, b, c, d) == a \o (b \o c \o d) = (a \o b) \o c \o d

LEMMA ConcatOfFour ==
    ASSUME NEW a \in Seq(Nat), NEW b \in Seq(Nat), NEW c \in Seq(Nat), NEW d \in Seq(Nat)
    PROVE  Regroups(a, b, c, d)
<1>1. PICK f \in Seq(Nat) : f = b \o c
  <2>1. b \o c \in Seq(Nat)
    BY SMTT(30)
  <2> QED
    BY <2>1
<1>2. (a \o f) \o d = a \o (f \o d)
  BY SMTT(30)
<1>3. (a \o b) \o c = a \o (b \o c)
  BY SMTT(30)
<1> QED
  BY ONLY <1>1, <1>2, <1>3, Zenon DEF Regroups

LEMMA PartLength ==
    ASSUME NEW p \in Part, NEW e \in Seq(Byte)
    PROVE  /\ p \in Seq(Byte) /\ Len(p) \in Byte /\ Len(p) \in Nat /\ Len(e) \in Nat
           /\ e \o <<Len(p)>> \o p \in Seq(Byte)
           /\ Len(e \o <<Len(p)>> \o p) = Len(e) + 1 + Len(p)
           /\ \A k \in 1..Len(e) : (e \o <<Len(p)>> \o p)[k] = e[k]
           /\ (e \o <<Len(p)>> \o p)[Len(e) + 1] = Len(p)
           /\ \A k \in 1..Len(p) : (e \o <<Len(p)>> \o p)[Len(e) + 1 + k] = p[k]
<1>1. p \in Seq(Byte) /\ Len(p) \in Byte /\ Len(p) \in Nat /\ Len(e) \in Nat
  BY DEF Part
<1>2. PICK n \in Byte, l \in Nat, m \in Nat : n = Len(p) /\ l = Len(p) /\ m = Len(e)
  BY <1>1
<1>3. PICK d \in Seq(Byte) : d = e \o <<n>> /\ Len(d) = m + 1 /\ d[m + 1] = n
                             /\ \A k \in 1..m : d[k] = e[k]
  <2>1. e \o <<n>> \in Seq(Byte) /\ Len(e \o <<n>>) = m + 1 /\ (e \o <<n>>)[m + 1] = n
        /\ \A k \in 1..m : (e \o <<n>>)[k] = e[k]
    BY <1>2
  <2> QED
    BY <2>1
<1>4. PICK f \in Seq(Byte) : f = d \o p /\ Len(f) = (m + 1) + l
                             /\ (\A k \in 1..m+1 : f[k] = d[k])
                             /\ \A k \in 1..l : f[(m + 1) + k] = p[k]
  <2>1. d \o p \in Seq(Byte) /\ Len(d \o p) = (m + 1) + l
        /\ (\A k \in 1..m+1 : (d \o p)[k] = d[k])
        /\ \A k \in 1..l : (d \o p)[(m + 1) + k] = p[k]
    BY <1>1, <1>2, <1>3
  <2> QED
    BY <2>1
<1>5. f = e \o <<Len(p)>> \o p
  BY <1>2, <1>3, <1>4
<1>6. \A k \in 1..m : f[k] = e[k]
  BY <1>3, <1>4
<1>7. f[m + 1] = n
  BY <1>3, <1>4
<1> QED
  BY <1>1, <1>2, <1>4, <1>5, <1>6, <1>7

LEMMA ListsExists ==
    ASSUME NEW parts \in Seq(Part)
    PROVE  \E r : Lists(r, parts)
<1>1. PICK n \in Nat : n = Len(parts)
  OBVIOUS
<1> DEFINE step == [i \in 1..n |-> [e \in Seq(Byte) |-> e \o <<Len(parts[i])>> \o parts[i]]]
<1>2. step \in [1..n -> [Seq(Byte) -> Seq(Byte)]]
  <2>1. \A i \in 1..n : parts[i] \in Part
    BY <1>1
  <2> QED
    BY <2>1, PartLength
<1>3. <<>> \in Seq(Byte)
  OBVIOUS
<1>4. PICK r : IsIteration(r, Seq(Byte), <<>>, n, step)
  <2> HIDE DEF step
  <2> QED
    BY <1>2, <1>3, RunExists
<1>5. ASSUME NEW i \in 1..n
      PROVE  r[i] = r[i - 1] \o <<Len(parts[i])>> \o parts[i]
  <2>1. i - 1 \in 0..n
    OBVIOUS
  <2>2. r[i - 1] \in Seq(Byte)
    BY <1>4, <2>1 DEF IsIteration
  <2> QED
    BY <1>4, <2>2 DEF IsIteration
<1> QED
  BY <1>1, <1>4, <1>5 DEF Lists, IsIteration

\* The recursion of Prefixed is defined, and puts the count before the list.
LEMMA PrefixedLists ==
    ASSUME NEW parts \in Seq(Part), NEW r, Lists(r, parts)
    PROVE  Prefixed(parts) = <<Len(parts)>> \o r[Len(parts)]
<1>1. PICK n \in Nat : n = Len(parts)
  OBVIOUS
<1> DEFINE Follows(q) == q = [i \in 0..n |-> IF i = 0 THEN <<n>>
                                  ELSE q[i - 1] \o <<Len(parts[i])>> \o parts[i]]
           counted == [i \in 0..n |-> <<n>> \o r[i]]
<1>2. r \in [0..n -> Seq(Byte)] /\ r[0] = <<>>
      /\ \A i \in 1..n : r[i] = r[i - 1] \o <<Len(parts[i])>> \o parts[i]
  BY <1>1 DEF Lists
<1>3. ASSUME NEW i \in 1..n
      PROVE  <<n>> \o r[i] = (<<n>> \o r[i - 1]) \o <<Len(parts[i])>> \o parts[i]
  <2>1. PICK e \in Seq(Byte), p \in Part : e = r[i - 1] /\ p = parts[i]
    <3>1. i - 1 \in 0..n /\ parts[i] \in Part
      BY <1>1
    <3> QED
      BY <1>2, <3>1
  <2>2. p \in Seq(Nat) /\ Len(p) \in Nat /\ e \in Seq(Nat)
    <3>1. p \in Seq(Byte)
      BY DEF Part
    <3> QED
      BY <3>1, Widths
  <2>3. PICK a \in Seq(Nat), b \in Seq(Nat) : a = <<n>> /\ b = <<Len(p)>>
    <3>1. <<n>> \in Seq(Nat) /\ <<Len(p)>> \in Seq(Nat)
      BY <2>2
    <3> QED
      BY <3>1
  <2>4. a \o (e \o b \o p) = (a \o e) \o b \o p
    <3>1. Regroups(a, e, b, p)
      BY ONLY <2>2, a \in Seq(Nat), b \in Seq(Nat), ConcatOfFour, SMTT(20)
    <3> QED
      BY ONLY <3>1, Zenon DEF Regroups
  <2> QED
    BY <1>2, <2>1, <2>3, <2>4
<1>4. Follows(counted)
  <2>1. \A i \in 0..n : i = 0 \/ (i \in 1..n /\ i - 1 \in 0..n)
    OBVIOUS
  <2>2. counted[0] = <<n>>
    <3>1. <<n>> \o <<>> = <<n>>
      BY ONLY n \in Nat
    <3>2. counted[0] = <<n>> \o r[0]
      BY <2>1
    <3> HIDE DEF counted
    <3> QED
      BY <1>2, <3>1, <3>2
  <2>3. \A i \in 1..n : counted[i] = counted[i - 1] \o <<Len(parts[i])>> \o parts[i]
    <3>1. \A i \in 1..n : i \in 0..n /\ i - 1 \in 0..n
      OBVIOUS
    <3>2. \A i \in 1..n : counted[i] = <<n>> \o r[i] /\ counted[i - 1] = <<n>> \o r[i - 1]
      BY <3>1
    <3> HIDE DEF counted
    <3> QED
      BY <1>3, <3>2
  <2>4. \A i \in 0..n : counted[i] = IF i = 0 THEN <<n>>
                                      ELSE counted[i - 1] \o <<Len(parts[i])>> \o parts[i]
    BY <2>1, <2>2, <2>3
  <2>5. counted = [i \in 0..n |-> counted[i]]
    OBVIOUS
  <2> QED
    BY <2>4, <2>5
<1>5. PICK run : run = CHOOSE q : Follows(q)
  OBVIOUS
<1>6. Follows(run)
  <2> HIDE DEF Follows, counted
  <2> QED
    BY <1>4, <1>5
<1>7. Prefixed(parts) = run[n]
  BY <1>1, <1>5 DEF Prefixed
<1> DEFINE S == {i \in 0..n : run[i] = counted[i]}
<1>8. 0 \in S
  <2>1. 0 \in 0..n
    OBVIOUS
  <2>2. run[0] = <<n>>
    BY <1>6, <2>1
  <2>3. counted[0] = <<n>>
    <3> HIDE DEF counted
    <3> QED
      BY <1>4, <2>1
  <2> HIDE DEF counted
  <2> QED
    BY <2>1, <2>2, <2>3
<1>9. ASSUME NEW i \in S, i \in 0..n-1
      PROVE  i + 1 \in S
  <2>1. i + 1 \in 0..n /\ i + 1 # 0 /\ (i + 1) - 1 = i
    BY <1>9
  <2>2. run[i + 1] = run[i] \o <<Len(parts[i + 1])>> \o parts[i + 1]
    BY <1>6, <2>1
  <2>3. counted[i + 1] = counted[i] \o <<Len(parts[i + 1])>> \o parts[i + 1]
    <3> HIDE DEF counted
    <3> QED
      BY <1>4, <2>1
  <2>4. run[i] = counted[i]
    OBVIOUS
  <2> HIDE DEF counted
  <2> QED
    BY <2>1, <2>2, <2>3, <2>4
<1>10. 0..n \subseteq S
  <2> HIDE DEF S
  <2> QED
    BY <1>8, <1>9, NatInduct
<1>11. run[n] = <<n>> \o r[n]
  BY <1>10
<1> QED
  BY <1>1, <1>7, <1>11

-----------------------------------------------------------------------------
\* Parts taken.

PartsAcc == [offset: Nat \ {0}, parts: Seq(Part), ok: BOOLEAN]

\* A turn of the loop that finds a length and as many bytes.
TakesOne(bytes, acc) ==
    /\ acc.ok /\ acc.offset <= Len(bytes)
    /\ acc.offset + bytes[acc.offset] <= Len(bytes)

LEMMA TakePartFails ==
    ASSUME NEW bytes, NEW acc \in PartsAcc, ~ TakesOne(bytes, acc)
    PROVE  TakePart(bytes, acc) = [offset |-> acc.offset, parts |-> acc.parts, ok |-> FALSE]
  BY DEF TakePart, TakesOne

LEMMA TakePartSucceeds ==
    ASSUME NEW bytes \in Seq(Byte), NEW acc \in PartsAcc, TakesOne(bytes, acc)
    PROVE  \E o \in 1..Len(bytes), l \in Byte, p \in Part :
              /\ o = acc.offset /\ l = bytes[o] /\ o + l <= Len(bytes)
              /\ p = SubSeq(bytes, o + 1, o + l) /\ Len(p) = l
              /\ \A k \in 1..l : p[k] = bytes[o + k]
              /\ TakePart(bytes, acc) = [offset |-> o + l + 1,
                                         parts |-> Append(acc.parts, p), ok |-> TRUE]
<1>1. PICK n \in Nat : n = Len(bytes)
  OBVIOUS
<1>2. PICK o \in 1..n : o = acc.offset
  BY <1>1 DEF PartsAcc, TakesOne
<1>3. PICK l \in Byte : l = bytes[o] /\ o + l <= n
  BY <1>1, <1>2 DEF TakesOne
<1>4. l \in Nat
  BY Widths
<1>5. PICK p : p = SubSeq(bytes, o + 1, o + l)
  OBVIOUS
<1>6. p \in Seq(Byte) /\ Len(p) = l /\ \A k \in 1..l : p[k] = bytes[o + k]
  <2>1. o + 1 \in 1..n+1 /\ o + l \in o..n
    BY <1>3, <1>4
  <2>2. PICK e \in Nat, f \in Nat : e = o + 1 /\ f = o + l /\ e >= 1 /\ f <= n /\ (f + 1) - e = l
    <3>1. o + 1 \in Nat /\ o + l \in Nat /\ o + 1 >= 1 /\ o + l <= n
          /\ ((o + l) + 1) - (o + 1) = l
      BY <1>3, <1>4
    <3> QED
      BY ONLY <3>1
  <2>3. \A i \in e..f : bytes[i] \in Byte
    BY <1>1, <2>2
  <2>4. SubSeq(bytes, e, f) = [i \in 1..l |-> bytes[e + i - 1]]
    BY <1>4, <2>2
  <2>5. \A i \in 1..l : e + i - 1 \in e..f /\ e + i - 1 = o + i
    BY <1>4, <2>2
  <2>6. p = [i \in 1..l |-> bytes[e + i - 1]]
    BY <1>5, <2>2, <2>4
  <2>7. \A i \in 1..l : p[i] = bytes[o + i] /\ p[i] \in Byte
    BY <2>3, <2>5, <2>6
  <2>8. p \in [1..l -> Byte]
    BY <2>6, <2>7
  <2> QED
    BY <1>4, <2>7, <2>8
<1>7. p \in Part
  BY <1>6 DEF Part
<1>8. acc.offset + bytes[acc.offset] = o + l /\ acc.offset + 1 = o + 1
  BY <1>2, <1>3
<1>9. TakePart(bytes, acc) = [offset |-> o + l + 1, parts |-> Append(acc.parts, p), ok |-> TRUE]
  BY <1>2, <1>3, <1>5, <1>8 DEF TakePart, TakesOne
<1> QED
  BY <1>1, <1>2, <1>3, <1>6, <1>5, <1>7, <1>9

LEMMA TakePartType ==
    ASSUME NEW bytes \in Seq(Byte), NEW acc \in PartsAcc
    PROVE  TakePart(bytes, acc) \in PartsAcc
<1>1. CASE TakesOne(bytes, acc)
  <2>1. PICK o \in 1..Len(bytes), l \in Byte, p \in Part :
            TakePart(bytes, acc) = [offset |-> o + l + 1,
                                    parts |-> Append(acc.parts, p), ok |-> TRUE]
    BY <1>1, TakePartSucceeds
  <2>2. o + l + 1 \in Nat \ {0}
    <3>1. l \in Nat
      BY Widths
    <3> QED
      BY <3>1
  <2>3. Append(acc.parts, p) \in Seq(Part)
    <3>1. acc.parts \in Seq(Part)
      BY DEF PartsAcc
    <3> QED
      BY ONLY <3>1, p \in Part
  <2> QED
    BY <2>1, <2>2, <2>3 DEF PartsAcc
<1>2. CASE ~ TakesOne(bytes, acc)
  <2>1. acc.offset \in Nat \ {0} /\ acc.parts \in Seq(Part)
    BY DEF PartsAcc
  <2>2. [offset |-> acc.offset, parts |-> acc.parts, ok |-> FALSE] \in PartsAcc
    BY <2>1 DEF PartsAcc
  <2> QED
    BY <1>2, <2>2, TakePartFails
<1> QED
  BY <1>1, <1>2

NoParts(first) == [offset |-> first + 1, parts |-> <<>>, ok |-> TRUE]

\* The recursion of TakeParts is defined.
LEMMA TakePartsRun ==
    ASSUME NEW bytes \in Seq(Byte), NEW first \in 1..Len(bytes), NEW n \in Nat, n = bytes[first]
    PROVE  \E run \in [0..n -> PartsAcc] :
              /\ run[0] = NoParts(first)
              /\ \A i \in 1..n : run[i] = TakePart(bytes, run[i - 1])
              /\ TakeParts(bytes, first) = run[n]
<1> DEFINE Follows(r) == r = [i \in 0..n |-> IF i = 0 THEN NoParts(first)
                                              ELSE TakePart(bytes, r[i - 1])]
<1>1. NoParts(first) \in PartsAcc
  <2>1. <<>> \in Seq(Part) /\ first + 1 \in Nat \ {0}
    OBVIOUS
  <2> QED
    BY <2>1 DEF NoParts, PartsAcc
<1>2. \E r : Follows(r) /\ r \in [0..n -> PartsAcc]
  <2> DEFINE step == [i \in 1..n |-> [acc \in PartsAcc |-> TakePart(bytes, acc)]]
  <2>1. step \in [1..n -> [PartsAcc -> PartsAcc]]
    BY TakePartType
  <2>2. PICK a : a = NoParts(first)
    OBVIOUS
  <2>3. PICK r : IsIteration(r, PartsAcc, a, n, step)
    <3> HIDE DEF step
    <3> QED
      BY <1>1, <2>1, <2>2, RunExists
  <2>4. \A i \in 0..n : i = 0 \/ (i \in 1..n /\ i - 1 \in 0..n)
    OBVIOUS
  <2>5. r \in [0..n -> PartsAcc]
    BY <2>3 DEF IsIteration
  <2>6. \A i \in 1..n : r[i] = TakePart(bytes, r[i - 1])
    <3>1. ASSUME NEW i \in 1..n PROVE r[i] = TakePart(bytes, r[i - 1])
      <4>1. i - 1 \in 0..n
        OBVIOUS
      <4>2. r[i - 1] \in PartsAcc
        BY <2>5, <4>1
      <4> QED
        BY <2>3, <4>2 DEF IsIteration
    <3> QED
      BY <3>1
  <2>7. \A i \in 0..n : r[i] = IF i = 0 THEN NoParts(first) ELSE TakePart(bytes, r[i - 1])
    <3>1. r[0] = NoParts(first)
      BY <2>2, <2>3 DEF IsIteration
    <3> QED
      BY <2>4, <2>6, <3>1
  <2>8. r = [i \in 0..n |-> r[i]]
    BY <2>5
  <2> QED
    BY <2>5, <2>7, <2>8
<1>3. PICK run : run = CHOOSE r : Follows(r)
  OBVIOUS
<1>4. Follows(run)
  <2>1. \E r : Follows(r)
    BY <1>2
  <2> HIDE DEF Follows
  <2> QED
    BY <1>3, <2>1
<1>5. TakeParts(bytes, first) = run[n]
  BY <1>3 DEF TakeParts, NoParts
<1>6. run[0] = NoParts(first) /\ \A i \in 1..n : run[i] = TakePart(bytes, run[i - 1])
  BY <1>4
<1>7. \A i \in 0..n : run[i] \in PartsAcc
  <2>1. run[0] \in PartsAcc
    BY <1>1, <1>6
  <2>2. \A i \in 1..n : run[i - 1] \in PartsAcc => run[i] \in PartsAcc
    BY <1>6, TakePartType
  <2> QED
    BY ONLY n \in Nat, <2>1, <2>2, StaysIn
<1> QED
  BY <1>4, <1>5, <1>6, <1>7

LEMMA ListsAppend ==
    ASSUME NEW parts \in Seq(Part), NEW p \in Part, NEW r, Lists(r, parts)
    PROVE  \E q : /\ Lists(q, Append(parts, p))
                  /\ q[Len(parts) + 1] = r[Len(parts)] \o <<Len(p)>> \o p
<1>1. PICK n \in Nat : n = Len(parts)
  OBVIOUS
<1>2. r \in [0..n -> Seq(Byte)] /\ r[0] = <<>>
      /\ \A i \in 1..n : r[i] = r[i - 1] \o <<Len(parts[i])>> \o parts[i]
  BY <1>1 DEF Lists
<1>3. PICK e \in Seq(Byte) : e = r[n]
  BY <1>2
<1>4. PICK f \in Seq(Byte) : f = e \o <<Len(p)>> \o p
  BY PartLength
<1>5. PICK longer \in Seq(Part) : longer = Append(parts, p)
  <2>1. Append(parts, p) \in Seq(Part)
    BY ONLY parts \in Seq(Part), p \in Part
  <2> QED
    BY <2>1
<1>6. Len(longer) = n + 1 /\ longer[n + 1] = p /\ \A i \in 1..n : longer[i] = parts[i]
  BY <1>1, <1>5
<1> DEFINE q == [i \in 0..n+1 |-> IF i = n + 1 THEN f ELSE r[i]]
<1>7. q \in [0..n+1 -> Seq(Byte)] /\ q[0] = <<>> /\ q[n + 1] = f /\ q[n] = e
  BY <1>2, <1>3
<1>8. \A i \in 1..n : q[i] = r[i] /\ q[i - 1] = r[i - 1]
  OBVIOUS
<1> HIDE DEF q
<1>9. \A i \in 1..n+1 : q[i] = q[i - 1] \o <<Len(longer[i])>> \o longer[i]
  <2>1. \A i \in 1..n+1 : i \in 1..n \/ i = n + 1
    OBVIOUS
  <2>2. ASSUME NEW i \in 1..n PROVE q[i] = q[i - 1] \o <<Len(longer[i])>> \o longer[i]
    BY <1>2, <1>6, <1>8
  <2>3. q[n + 1] = q[(n + 1) - 1] \o <<Len(longer[n + 1])>> \o longer[n + 1]
    <3>1. (n + 1) - 1 = n
      OBVIOUS
    <3>2. q[n + 1] = q[n] \o <<Len(longer[n + 1])>> \o longer[n + 1]
      BY ONLY <1>4, <1>6, <1>7
    <3> QED
      BY ONLY <3>1, <3>2
  <2> QED
    BY <2>1, <2>2, <2>3
<1>10. Lists(q, longer)
  BY <1>6, <1>7, <1>9 DEF Lists
<1> QED
  BY <1>1, <1>3, <1>4, <1>5, <1>7, <1>10

\* As long as every turn succeeded, the bytes before the offset list the parts.
TookParts(bytes, first, i, acc) ==
    acc.ok => /\ Len(acc.parts) = i
              /\ acc.offset \in first+1..Len(bytes)+1
              /\ \E r : /\ Lists(r, acc.parts)
                        /\ Len(r[i]) = acc.offset - (first + 1)
                        /\ \A k \in 1..Len(r[i]) : r[i][k] = bytes[first + k]

LEMMA TakePartTookParts ==
    ASSUME NEW bytes \in Seq(Byte), NEW first \in 1..Len(bytes), NEW i \in Nat,
           NEW acc \in PartsAcc, TookParts(bytes, first, i, acc)
    PROVE  TookParts(bytes, first, i + 1, TakePart(bytes, acc))
<1>1. CASE ~ TakesOne(bytes, acc)
  <2>1. TakePart(bytes, acc).ok = FALSE
    BY <1>1, TakePartFails
  <2> QED
    BY <2>1 DEF TookParts
<1>2. CASE TakesOne(bytes, acc)
  <2>1. PICK o \in 1..Len(bytes), l \in Byte, p \in Part :
            /\ o = acc.offset /\ l = bytes[o] /\ o + l <= Len(bytes)
            /\ Len(p) = l /\ (\A k \in 1..l : p[k] = bytes[o + k])
            /\ TakePart(bytes, acc) = [offset |-> o + l + 1,
                                       parts |-> Append(acc.parts, p), ok |-> TRUE]
    BY <1>2, TakePartSucceeds
  <2>2. PICK parts \in Seq(Part) : parts = acc.parts /\ Len(parts) = i /\ o >= first + 1
    BY <1>2, <2>1 DEF PartsAcc, TookParts, TakesOne
  <2>3. PICK r : /\ Lists(r, parts)
                 /\ Len(r[i]) = o - (first + 1)
                 /\ \A k \in 1..Len(r[i]) : r[i][k] = bytes[first + k]
    BY <1>2, <2>1, <2>2 DEF TookParts, TakesOne
  <2>4. PICK e \in Seq(Byte) : e = r[i]
    <3>1. i \in 0..Len(parts)
      BY <2>2
    <3> QED
      BY <2>3, <3>1 DEF Lists
  <2>5. PICK q : /\ Lists(q, Append(parts, p))
                 /\ q[i + 1] = e \o <<Len(p)>> \o p
    <3>1. PICK q : /\ Lists(q, Append(parts, p))
                   /\ q[Len(parts) + 1] = r[Len(parts)] \o <<Len(p)>> \o p
      BY ONLY <2>3, parts \in Seq(Part), p \in Part, ListsAppend
    <3> QED
      BY <2>2, <2>4, <3>1
  <2>5a. PICK f : f = q[i + 1]
    OBVIOUS
  <2>6. PICK m \in Nat : f = e \o <<Len(p)>> \o p /\ f = q[i + 1] /\ m = Len(e)
    <3>1. Len(e) \in Nat
      BY ONLY e \in Seq(Byte)
    <3> QED
      BY <2>5a, <2>5, <3>1
  <2>7. l \in Nat /\ m = o - (first + 1) /\ first + m + 1 = o
    BY <2>2, <2>3, <2>4, <2>6, Widths
  <2>8. /\ Len(f) = m + 1 + l
        /\ \A k \in 1..m : f[k] = e[k]
        /\ f[m + 1] = l
        /\ \A k \in 1..l : f[m + 1 + k] = p[k]
    <3>1. /\ Len(f) = Len(e) + 1 + Len(p)
          /\ \A k \in 1..Len(e) : f[k] = e[k]
          /\ f[Len(e) + 1] = Len(p)
          /\ \A k \in 1..Len(p) : f[Len(e) + 1 + k] = p[k]
      BY ONLY <2>6, e \in Seq(Byte), p \in Part, PartLength, SMTT(20)
    <3> QED
      BY <2>1, <2>6, <3>1
  <2>9. ASSUME NEW k \in 1..Len(f)
        PROVE  f[k] = bytes[first + k]
    <3>1. CASE k \in 1..m
      BY <2>3, <2>4, <2>6, <2>8, <3>1
    <3>2. CASE k = m + 1
      <4>1. first + k = o
        BY <2>7, <3>2
      <4> QED
        BY <2>1, <2>8, <3>2, <4>1
    <3>3. CASE k \notin 1..m /\ k # m + 1
      <4>1. PICK j \in 1..l : k = m + 1 + j
        <5>1. k - (m + 1) \in 1..l /\ k = m + 1 + (k - (m + 1))
          BY <2>7, <2>8, <3>3
        <5> QED
          BY <5>1
      <4>2. first + k = o + j
        BY <2>7, <4>1
      <4> QED
        BY <2>1, <2>8, <4>1, <4>2
    <3> QED
      BY <3>1, <3>2, <3>3
  <2>10. PICK t, longer : t = TakePart(bytes, acc) /\ longer = Append(parts, p)
    OBVIOUS
  <2>11. t.ok /\ t.offset = o + l + 1 /\ t.parts = longer
    BY <2>1, <2>2, <2>10, SMTT(20)
  <2>12. Len(longer) = i + 1
    <3>1. Len(Append(parts, p)) = Len(parts) + 1
      BY ONLY parts \in Seq(Part), p \in Part
    <3> QED
      BY <2>2, <2>10, <3>1
  <2>13. o + l + 1 \in first+1..Len(bytes)+1 /\ Len(f) = (o + l + 1) - (first + 1)
    <3>1. PICK size \in Nat : size = Len(bytes) /\ o + l <= size /\ first \in 1..size
      BY <2>1
    <3>2. o + l + 1 \in first+1..size+1
      BY ONLY <2>2, <2>7, <3>1, o \in Nat
    <3>3. m + 1 + l = (o + l + 1) - (first + 1)
      BY ONLY <2>7, <3>1, o \in Nat, m \in Nat
    <3> QED
      BY <2>8, <3>1, <3>2, <3>3
  <2>14. TookParts(bytes, first, i + 1, t)
    <3>1. Lists(q, longer)
      BY <2>5, <2>10
    <3>2. f = q[i + 1]
      BY <2>6
    <3> QED
      BY ONLY <2>9, <2>11, <2>12, <2>13, <3>1, <3>2 DEF TookParts
  <2> QED
    BY <2>10, <2>14
<1> QED
  BY <1>1, <1>2

\* When all parts are there and nothing follows them, the bytes from their count
\* on are the parts with their prefixes.
LEMMA WholeIsPrefixed ==
    ASSUME NEW bytes \in Seq(Byte), NEW first \in 1..Len(bytes),
           NEW taken, taken = TakeParts(bytes, first), Whole(bytes, taken)
    PROVE  /\ taken.parts \in Seq(Part) /\ Len(taken.parts) = bytes[first]
           /\ Len(Prefixed(taken.parts)) = Len(bytes) - first + 1
           /\ \A k \in 1..Len(Prefixed(taken.parts)) :
                 Prefixed(taken.parts)[k] = bytes[first + k - 1]
<1>1. PICK n \in Byte : n = bytes[first]
  OBVIOUS
<1>2. n \in Nat
  BY Widths
<1>3. PICK run \in [0..n -> PartsAcc] :
          /\ run[0] = NoParts(first)
          /\ \A i \in 1..n : run[i] = TakePart(bytes, run[i - 1])
          /\ taken = run[n]
  <2>1. \E run \in [0..n -> PartsAcc] :
           /\ run[0] = NoParts(first)
           /\ \A i \in 1..n : run[i] = TakePart(bytes, run[i - 1])
           /\ TakeParts(bytes, first) = run[n]
    BY ONLY <1>1, <1>2, bytes \in Seq(Byte), first \in 1..Len(bytes), TakePartsRun, Zenon
  <2> QED
    BY <2>1, Zenon
<1> DEFINE S == {i \in 0..n : TookParts(bytes, first, i, run[i])}
<1>4. 0 \in S
  <2>1. Lists([i \in 0..0 |-> <<>>], <<>>)
    <3>1. PICK r : r = [i \in 0..0 |-> <<>>]
      OBVIOUS
    <3>2. <<>> \in Seq(Byte) /\ Len(<<>>) = 0 /\ 1..0 = {}
      OBVIOUS
    <3>3. r \in [0..0 -> Seq(Byte)] /\ r[0] = <<>>
      BY <3>1, <3>2
    <3>4. Lists(r, <<>>)
      BY <3>2, <3>3 DEF Lists
    <3> QED
      BY <3>1, <3>4
  <2>2. PICK r : Lists(r, <<>>)
    BY <2>1
  <2>3. r[0] = <<>> /\ Len(<<>>) = 0 /\ 1..0 = {}
    BY <2>2 DEF Lists
  <2>4. PICK a : a = NoParts(first)
    OBVIOUS
  <2>5. a.ok /\ a.offset = first + 1 /\ a.parts = <<>>
    BY <2>4 DEF NoParts
  <2>6. first + 1 \in first+1..Len(bytes)+1 /\ 0 = (first + 1) - (first + 1)
    OBVIOUS
  <2>7. TookParts(bytes, first, 0, a)
    BY <2>2, <2>3, <2>5, <2>6 DEF TookParts
  <2> QED
    BY <1>2, <1>3, <2>4, <2>7
<1>5. ASSUME NEW i \in S, i \in 0..n-1
      PROVE  i + 1 \in S
  <2>1. i \in Nat /\ i \in 0..n /\ i + 1 \in 1..n /\ i + 1 \in 0..n /\ (i + 1) - 1 = i
    BY <1>2, <1>5
  <2>2. PICK a \in PartsAcc : a = run[i]
    BY <1>3, <2>1
  <2>3. TookParts(bytes, first, i, a)
    BY <2>2
  <2>4. TookParts(bytes, first, i + 1, TakePart(bytes, a))
    BY <2>1, <2>3, TakePartTookParts
  <2>5. run[i + 1] = TakePart(bytes, a)
    BY <1>3, <2>1, <2>2
  <2> QED
    BY <2>1, <2>4, <2>5
<1>6. 0..n \subseteq S
  <2> HIDE DEF S
  <2> QED
    BY <1>2, <1>4, <1>5, NatInduct
<1>7. TookParts(bytes, first, n, taken)
  <2>1. n \in 0..n
    BY <1>2
  <2>2. n \in S
    BY <1>6, <2>1
  <2> QED
    BY <1>3, <2>2
<1>8. taken.ok /\ taken.offset = Len(bytes) + 1
  BY DEF Whole
<1>8a. PICK r :
          /\ Len(taken.parts) = n
          /\ Lists(r, taken.parts)
          /\ Len(r[n]) = (Len(bytes) + 1) - (first + 1)
          /\ \A k \in 1..Len(r[n]) : r[n][k] = bytes[first + k]
  BY <1>7, <1>8 DEF TookParts
<1>9. PICK parts \in Seq(Part) :
          /\ parts = taken.parts /\ Len(parts) = n
          /\ Lists(r, parts)
          /\ Len(r[n]) = (Len(bytes) + 1) - (first + 1)
          /\ \A k \in 1..Len(r[n]) : r[n][k] = bytes[first + k]
  <2>1. taken \in PartsAcc
    BY <1>2, <1>3
  <2>2. taken.parts \in Seq(Part)
    BY <2>1 DEF PartsAcc
  <2> QED
    BY <1>8a, <2>2
<1>10. PICK e \in Seq(Byte) : e = r[n]
  <2>1. n \in 0..Len(parts)
    BY <1>2, <1>9
  <2> QED
    BY <1>9, <2>1 DEF Lists
<1>11. Prefixed(parts) = <<n>> \o e
  BY <1>9, <1>10, PrefixedLists
<1>12. PICK f : f = <<n>> \o e /\ Len(f) = Len(e) + 1 /\ f[1] = n
                /\ \A k \in 2..Len(f) : f[k] = e[k - 1]
  <2>1. Len(<<n>> \o e) = Len(e) + 1 /\ (<<n>> \o e)[1] = n
        /\ \A k \in 2..Len(<<n>> \o e) : (<<n>> \o e)[k] = e[k - 1]
    BY ONLY n \in Byte, e \in Seq(Byte)
  <2> QED
    BY <2>1
<1>13. Len(f) = Len(bytes) - first + 1
  BY <1>9, <1>10, <1>12
<1>14. ASSUME NEW k \in 1..Len(f) PROVE f[k] = bytes[first + k - 1]
  <2>1. CASE k = 1
    <3>1. first + k - 1 = first
      BY <2>1
    <3> QED
      BY <1>1, <1>12, <2>1, <3>1
  <2>2. CASE k # 1
    <3>1. Len(f) \in Nat /\ Len(f) = Len(e) + 1 /\ Len(e) \in Nat
      BY <1>12
    <3>2. k \in 2..Len(f) /\ k - 1 \in 1..Len(e) /\ first + (k - 1) = first + k - 1
      BY <2>2, <3>1
    <3> QED
      BY <1>9, <1>10, <1>12, <3>2
  <2> QED
    BY <2>1, <2>2
<1> QED
  BY <1>1, <1>9, <1>11, <1>12, <1>13, <1>14

\* Every list is the beginning of the lists after it.
LEMMA ListsArePrefixes ==
    ASSUME NEW parts \in Seq(Part), NEW r, Lists(r, parts), NEW n \in Nat, n = Len(parts)
    PROVE  \A i \in 0..n : /\ r[i] \in Seq(Byte) /\ r[n] \in Seq(Byte)
                           /\ Len(r[i]) <= Len(r[n])
                           /\ \A k \in 1..Len(r[i]) : r[i][k] = r[n][k]
<1>1. r \in [0..n -> Seq(Byte)]
      /\ \A i \in 1..n : r[i] = r[i - 1] \o <<Len(parts[i])>> \o parts[i]
  BY DEF Lists
<1>2. PICK e \in Seq(Byte) : e = r[n]
  BY <1>1
<1> DEFINE Begins(d) == Len(d) <= Len(e) /\ \A k \in 1..Len(d) : d[k] = e[k]
           S == {i \in 0..n : Begins(r[n - i])}
<1>3. 0 \in S
  <2>1. Begins(e)
    OBVIOUS
  <2>2. n - 0 = n /\ 0 \in 0..n
    OBVIOUS
  <2> HIDE DEF Begins
  <2> QED
    BY <1>2, <2>1, <2>2
<1>4. ASSUME NEW i \in S, i \in 0..n-1
      PROVE  i + 1 \in S
  <2>1. PICK j \in 1..n : j = n - i
    <3>1. n - i \in 1..n
      BY <1>4
    <3> QED
      BY <3>1
  <2>2. n - (i + 1) = j - 1 /\ i + 1 \in 0..n /\ j - 1 \in 0..n
    BY <1>4, <2>1
  <2>3. PICK d \in Seq(Byte), p \in Part : d = r[j - 1] /\ p = parts[j]
    <3>1. parts[j] \in Part
      BY ONLY parts \in Seq(Part), n = Len(parts), j \in 1..n
    <3>2. r[j - 1] \in Seq(Byte)
      BY <1>1, <2>2
    <3> QED
      BY <3>1, <3>2
  <2>4. PICK f : f = d \o <<Len(p)>> \o p /\ f = r[j]
    BY <1>1, <2>3
  <2>5. Len(f) = Len(d) + 1 + Len(p) /\ Len(d) \in Nat /\ Len(p) \in Nat
        /\ \A k \in 1..Len(d) : f[k] = d[k]
    BY ONLY <2>4, d \in Seq(Byte), p \in Part, PartLength
  <2>6. Begins(f)
    BY <2>1, <2>4
  <2>7. Begins(d)
    <3>1. PICK a, b, c : a = Len(d) /\ b = Len(p) /\ c = Len(e)
      OBVIOUS
    <3>2. Len(e) \in Nat
      OBVIOUS
    <3>3. a \in Nat /\ b \in Nat /\ c \in Nat /\ a + 1 + b <= c
      BY <2>5, <2>6, <3>1, <3>2
    <3>4. a <= c
      BY ONLY <3>3
    <3>5. \A k \in 1..a : k \in 1..a+1+b
      BY ONLY <3>3
    <3>6. \A k \in 1..a : d[k] = e[k]
      BY <2>5, <2>6, <3>1, <3>5
    <3> QED
      BY <3>1, <3>4, <3>6
  <2> HIDE DEF Begins
  <2> QED
    BY <2>2, <2>3, <2>7
<1>5. 0..n \subseteq S
  <2> HIDE DEF S
  <2> QED
    BY <1>3, <1>4, NatInduct
<1>6. ASSUME NEW i \in 0..n PROVE Begins(r[i])
  <2>1. n - i \in 0..n /\ n - (n - i) = i
    OBVIOUS
  <2> HIDE DEF Begins
  <2> QED
    BY <1>5, <2>1
<1> QED
  BY <1>1, <1>2, <1>6

\* The parts are found in the bytes from their count at "first" to the end.
Holds(bytes, head, first, parts) ==
    /\ bytes \in Seq(Byte) /\ first \in 1..Len(bytes) /\ bytes[first] = Len(parts)
    /\ \A k \in 1..Len(head) : bytes[k] = head[k]
    /\ Whole(bytes, TakeParts(bytes, first))
    /\ TakeParts(bytes, first).parts = parts

\* What was listed behind other bytes is taken, and the end is reached.
LEMMA PrefixedIsTaken ==
    ASSUME NEW parts \in Seq(Part), Len(parts) \in Byte, NEW head \in Seq(Byte),
           NEW bytes, bytes = head \o Prefixed(parts), NEW first, first = Len(head) + 1
    PROVE  Holds(bytes, head, first, parts)
<1>1. PICK n \in Byte : n = Len(parts) /\ n \in Nat
  <2>1. Len(parts) \in Nat
    BY ONLY parts \in Seq(Part)
  <2> QED
    BY <2>1
<1>2. PICK r : Lists(r, parts)
  BY ListsExists
<1>3. PICK e \in Seq(Byte) : e = r[n]
  <2>1. n \in 0..Len(parts)
    BY <1>1
  <2> QED
    BY <1>2, <2>1 DEF Lists
<1>4. Prefixed(parts) = <<n>> \o e
  BY <1>1, <1>2, <1>3, PrefixedLists
<1>5. PICK h \in Nat, m \in Nat : h = Len(head) /\ m = Len(e) /\ first = h + 1
  <2>1. Len(head) \in Nat /\ Len(e) \in Nat
    BY ONLY head \in Seq(Byte), e \in Seq(Byte)
  <2> QED
    BY <2>1
<1>6. /\ bytes \in Seq(Byte) /\ Len(bytes) = h + 1 + m
      /\ (\A k \in 1..h : bytes[k] = head[k])
      /\ bytes[h + 1] = n
      /\ \A k \in 1..m : bytes[h + 1 + k] = e[k]
  <2>1. PICK b : b = <<n>> \o e /\ b \in Seq(Byte) /\ Len(b) = m + 1 /\ b[1] = n
                 /\ \A k \in 1..m : b[k + 1] = e[k]
    <3>1. <<n>> \o e \in Seq(Byte) /\ Len(<<n>> \o e) = m + 1 /\ (<<n>> \o e)[1] = n
          /\ \A k \in 1..m : (<<n>> \o e)[k + 1] = e[k]
      BY ONLY <1>5, n \in Byte, e \in Seq(Byte), m \in Nat
    <3> QED
      BY <3>1
  <2>2. bytes = head \o b
    BY <1>4, <2>1
  <2>3. bytes \in Seq(Byte) /\ Len(bytes) = h + (m + 1)
        /\ (\A k \in 1..h : bytes[k] = head[k])
        /\ \A k \in 1..m+1 : bytes[h + k] = b[k]
    BY ONLY <1>5, <2>1, <2>2, head \in Seq(Byte), h \in Nat, m \in Nat
  <2>4. bytes[h + 1] = n
    <3>1. 1 \in 1..m+1
      OBVIOUS
    <3> QED
      BY <2>1, <2>3, <3>1
  <2>5. ASSUME NEW k \in 1..m PROVE bytes[h + 1 + k] = e[k]
    <3>1. k + 1 \in 1..m+1 /\ h + (k + 1) = h + 1 + k
      BY ONLY k \in 1..m, h \in Nat, m \in Nat
    <3>2. bytes[h + (k + 1)] = b[k + 1]
      BY <2>3, <3>1
    <3> QED
      BY <2>1, <3>1, <3>2
  <2>6. h + (m + 1) = h + 1 + m
    BY ONLY h \in Nat, m \in Nat
  <2> QED
    BY <2>3, <2>4, <2>5, <2>6
<1>7. first \in 1..Len(bytes) /\ n = bytes[first]
  BY ONLY <1>5, <1>6, h \in Nat, m \in Nat
<1>8. PICK run \in [0..n -> PartsAcc] :
          /\ run[0] = NoParts(first)
          /\ \A i \in 1..n : run[i] = TakePart(bytes, run[i - 1])
          /\ TakeParts(bytes, first) = run[n]
  BY ONLY <1>1, <1>6, <1>7, TakePartsRun, ZenonT(60)
<1> DEFINE S == {i \in 0..n : /\ run[i].ok /\ run[i].offset = h + 2 + Len(r[i])
                              /\ run[i].parts = SubSeq(parts, 1, i)}
<1>9. 0 \in S
  <2>1. SubSeq(parts, 1, 0) = <<>>
    OBVIOUS
  <2>2. r[0] = <<>> /\ Len(<<>>) = 0 /\ first + 1 = h + 2 + 0 /\ 0 \in 0..n
    BY <1>1, <1>2, <1>5 DEF Lists
  <2>3. run[0].ok /\ run[0].offset = first + 1 /\ run[0].parts = <<>>
    BY <1>8 DEF NoParts
  <2> QED
    BY <2>1, <2>2, <2>3
<1>10. ASSUME NEW i \in S, i \in 0..n-1
       PROVE  i + 1 \in S
  <2>1. i \in 0..n /\ i \in Nat /\ i + 1 \in 0..n /\ i + 1 \in 1..n /\ (i + 1) - 1 = i
    BY <1>1, <1>10
  <2>2. PICK acc \in PartsAcc : acc = run[i]
    BY <1>8, <2>1
  <2>3. PICK d \in Seq(Byte), p \in Part, f \in Seq(Byte) :
            d = r[i] /\ p = parts[i + 1] /\ f = r[i + 1]
    <3>1. parts[i + 1] \in Part
      BY ONLY <1>1, <2>1, parts \in Seq(Part)
    <3>2. r \in [0..n -> Seq(Byte)]
      BY <1>1, <1>2 DEF Lists
    <3>3. r[i] \in Seq(Byte) /\ r[i + 1] \in Seq(Byte)
      BY <2>1, <3>2
    <3> QED
      BY <3>1, <3>3
  <2>4. f = d \o <<Len(p)>> \o p
    BY <1>1, <1>2, <2>1, <2>3 DEF Lists
  <2>5. PICK a \in Nat, l \in Byte : a = Len(d) /\ l = Len(p) /\ l \in Nat
    BY ONLY d \in Seq(Byte), p \in Part, PartLength
  <2>6. /\ Len(f) = a + 1 + l /\ f[a + 1] = l
        /\ \A k \in 1..l : f[a + 1 + k] = p[k]
    <3>1. /\ Len(f) = Len(d) + 1 + Len(p) /\ f[Len(d) + 1] = Len(p)
          /\ \A k \in 1..Len(p) : f[Len(d) + 1 + k] = p[k]
      BY ONLY <2>4, d \in Seq(Byte), p \in Part, PartLength, SMTT(20)
    <3> QED
      BY <2>5, <3>1
  <2>7. Len(f) <= m /\ \A k \in 1..Len(f) : f[k] = e[k]
    BY <1>1, <1>2, <1>3, <1>5, <2>1, <2>3, ListsArePrefixes, SMTT(20)
  <2>8. acc.ok /\ acc.offset = h + 2 + a /\ acc.parts = SubSeq(parts, 1, i)
    BY <2>2, <2>3, <2>5
  <2>9. PICK o \in Nat : o = h + 2 + a /\ o = h + 1 + (a + 1)
                         /\ o + l <= Len(bytes) /\ o <= Len(bytes) /\ a + 1 \in 1..m
    <3>1. a + 1 + l <= m
      BY <2>6, <2>7
    <3>2. h + 2 + a \in Nat /\ h + 2 + a = h + 1 + (a + 1) /\ (h + 2 + a) + l <= h + 1 + m
          /\ h + 2 + a <= h + 1 + m /\ a + 1 \in 1..m
      BY ONLY <2>5, <3>1, h \in Nat, a \in Nat, m \in Nat
    <3> QED
      BY <1>6, <3>2
  <2>10. bytes[o] = l
    <3>1. bytes[o] = e[a + 1]
      BY <1>6, <2>9
    <3>2. a + 1 \in 1..Len(f)
      BY ONLY <2>5, <2>6, a \in Nat
    <3> QED
      BY <2>6, <2>7, <3>1, <3>2
  <2>11. TakesOne(bytes, acc)
    BY <2>8, <2>9, <2>10 DEF TakesOne
  <2>12. PICK q \in Part : /\ Len(q) = l /\ (\A k \in 1..l : q[k] = bytes[o + k])
                           /\ TakePart(bytes, acc) = [offset |-> o + l + 1,
                                       parts |-> Append(acc.parts, q), ok |-> TRUE]
    <3>1. PICK x \in 1..Len(bytes), y \in Byte, q \in Part :
              /\ x = acc.offset /\ y = bytes[x] /\ x + y <= Len(bytes)
              /\ q = SubSeq(bytes, x + 1, x + y) /\ Len(q) = y
              /\ \A k \in 1..y : q[k] = bytes[x + k]
              /\ TakePart(bytes, acc) = [offset |-> x + y + 1,
                                         parts |-> Append(acc.parts, q), ok |-> TRUE]
      BY ONLY <1>6, <2>11, acc \in PartsAcc, TakePartSucceeds, ZenonT(60)
    <3>2. x = o /\ y = l
      BY <2>8, <2>9, <2>10, <3>1
    <3>3. Len(q) = l /\ \A k \in 1..l : q[k] = bytes[o + k]
      BY ONLY <3>1, <3>2
    <3>4. TakePart(bytes, acc) = [offset |-> o + l + 1, parts |-> Append(acc.parts, q), ok |-> TRUE]
      BY ONLY <3>1, <3>2
    <3> QED
      BY ONLY <3>3, <3>4, q \in Part
  <2>13. q = p
    <3>1. ASSUME NEW k \in 1..l PROVE q[k] = p[k]
      <4>1. a + 1 + k \in 1..Len(f) /\ a + 1 + k \in 1..m /\ o + k = h + 1 + (a + 1 + k)
        <5>1. a + 1 + k \in 1..a+1+l
          BY ONLY <2>5, k \in 1..l, a \in Nat
        <5>2. a + 1 + l <= m
          BY <2>6, <2>7
        <5>3. a + 1 + k \in 1..m
          BY ONLY <2>5, <5>1, <5>2, k \in 1..l, a \in Nat, m \in Nat
        <5>4. o + k = h + 1 + (a + 1 + k)
          BY ONLY <2>5, <2>9, k \in 1..l, a \in Nat, h \in Nat
        <5> QED
          BY <2>6, <5>1, <5>3, <5>4
      <4>2. bytes[o + k] = e[a + 1 + k]
        BY <1>6, <4>1
      <4> QED
        BY <2>6, <2>7, <2>12, <4>1, <4>2
    <3>2. q \in Seq(Byte) /\ p \in Seq(Byte) /\ Len(q) = Len(p)
      BY <2>5, <2>12 DEF Part
    <3>3. Len(q) = l /\ Len(p) = l
      BY <2>5, <2>12
    <3> QED
      BY ONLY <2>5, <3>1, <3>2, <3>3, SMTT(20)
  <2>14. Append(acc.parts, p) = SubSeq(parts, 1, i + 1)
    <3>1. Append(SubSeq(parts, 1, i), parts[i + 1]) = SubSeq(parts, 1, i + 1)
      BY ONLY <1>1, <2>1, parts \in Seq(Part)
    <3> QED
      BY <2>3, <2>8, <3>1
  <2>15. o + l + 1 = h + 2 + Len(f)
    BY ONLY <2>5, <2>6, <2>9, a \in Nat, h \in Nat
  <2>16. PICK t : t = run[i + 1]
    OBVIOUS
  <2>17. t = TakePart(bytes, acc)
    BY <1>8, <2>1, <2>2, <2>16
  <2>18. t.ok /\ t.offset = h + 2 + Len(f) /\ t.parts = SubSeq(parts, 1, i + 1)
    <3>1. PICK longer, k : longer = Append(acc.parts, p) /\ k = o + l + 1
      OBVIOUS
    <3>2. t = [offset |-> k, parts |-> longer, ok |-> TRUE]
      BY <2>12, <2>13, <2>17, <3>1
    <3>3. t.offset = k /\ t.parts = longer /\ t.ok
      BY ONLY <3>2
    <3> QED
      BY <2>14, <2>15, <3>1, <3>3
  <2> QED
    BY <2>1, <2>3, <2>16, <2>18
<1>11. 0..n \subseteq S
  <2> HIDE DEF S
  <2> QED
    BY <1>1, <1>9, <1>10, NatInduct
<1>12. run[n].ok /\ run[n].offset = h + 2 + m /\ run[n].parts = SubSeq(parts, 1, n)
  <2>1. n \in 0..n
    BY <1>1
  <2>2. n \in S
    BY <1>11, <2>1
  <2> QED
    BY <1>3, <1>5, <2>2
<1>13. SubSeq(parts, 1, n) = parts
  BY <1>1
<1>14. h + 2 + m = Len(bytes) + 1
  BY ONLY <1>6, h \in Nat, m \in Nat
<1> QED
  BY <1>1, <1>5, <1>6, <1>7, <1>8, <1>12, <1>13, <1>14 DEF Whole, Holds

-----------------------------------------------------------------------------
\* Transitions and bundles.

\* Writing the texts of actions and parsing them gives the actions.
LEMMA TextsParse ==
    ASSUME NEW actions \in Seq(Action)
    PROVE  /\ TextsOf(actions) \in Seq(Texts) /\ Len(TextsOf(actions)) = Len(actions)
           /\ \A k \in DOMAIN actions : TextsOf(actions)[k] = TextOf[actions[k]]
           /\ ParsedAll(TextsOf(actions)) = actions
<1>1. PICK n \in Nat : n = Len(actions) /\ DOMAIN actions = 1..n
  OBVIOUS
<1>2. \A k \in 1..n : actions[k] \in Action
  BY <1>1
<1>3. \A a \in Action : TextOf[a] \in Texts /\ Parsed[TextOf[a]] = a
  BY FramingAssumption DEF FramingAssumption
<1>4. PICK texts : texts = [k \in 1..n |-> TextOf[actions[k]]] /\ texts = TextsOf(actions)
  BY <1>1 DEF TextsOf
<1>5. \A k \in 1..n : texts[k] = TextOf[actions[k]] /\ texts[k] \in Texts
  BY <1>2, <1>3, <1>4
<1>6. texts \in Seq(Texts) /\ Len(texts) = n /\ DOMAIN texts = 1..n
  BY <1>4, <1>5
<1>7. \A k \in 1..n : Parsed[texts[k]] = actions[k]
  BY <1>2, <1>3, <1>5
<1>8. ParsedAll(texts) = [k \in 1..n |-> actions[k]]
  BY <1>6, <1>7 DEF ParsedAll
<1>9. [k \in 1..n |-> actions[k]] = actions
  BY <1>1
<1> QED
  BY <1>1, <1>4, <1>5, <1>6, <1>8, <1>9

\* A transition that can be written is read back.
LEMMA EncodedTransition ==
    ASSUME NEW t \in Transition, EncodeTransition(t) # Error
    PROVE  /\ EncodeTransition(t) \in Seq(Byte)
           /\ Len(EncodeTransition(t)) > 0 /\ EncodeTransition(t)[1] = t.layer
           /\ DecodeTransition(EncodeTransition(t)) = t
<1>1. /\ t.layer \in Byte /\ t.prev \in Byte /\ t.new \in Byte /\ t.sequence \in Nat
      /\ t.actions \in Seq(Action)
      /\ t = [layer |-> t.layer, sequence |-> t.sequence, prev |-> t.prev, new |-> t.new,
              actions |-> t.actions]
  BY DEF Transition
<1>2. /\ t.sequence > 0 /\ t.sequence \in Byte /\ Len(t.actions) \in Byte
      /\ \A i \in DOMAIN t.actions : Len(TextOf[t.actions[i]]) \in Byte
      /\ EncodeTransition(t) =
             <<t.layer, t.sequence, t.prev, t.new>> \o Prefixed(TextsOf(t.actions))
  BY DEF EncodeTransition, Fits
<1>3. PICK parts \in Seq(Part) :
          /\ parts = TextsOf(t.actions) /\ Len(parts) = Len(t.actions)
          /\ ParsedAll(parts) = t.actions
          /\ \A k \in DOMAIN parts : parts[k] \in Texts
  <2>1. PICK texts \in Seq(Texts) :
            /\ texts = TextsOf(t.actions) /\ Len(texts) = Len(t.actions)
            /\ \A k \in DOMAIN t.actions : texts[k] = TextOf[t.actions[k]]
            /\ ParsedAll(texts) = t.actions
    BY <1>1, TextsParse
  <2>2. Texts \subseteq Seq(Byte)
    BY FramingAssumption DEF FramingAssumption
  <2>3. DOMAIN t.actions = 1..Len(t.actions)
    BY <1>1
  <2>4. \A k \in 1..Len(texts) : texts[k] \in Texts
    BY ONLY texts \in Seq(Texts)
  <2>5. \A k \in 1..Len(texts) : texts[k] \in Part
    BY <1>2, <2>1, <2>2, <2>3, <2>4 DEF Part
  <2>6. texts \in Seq(Part) /\ DOMAIN texts = 1..Len(texts)
    BY ONLY <2>5, texts \in Seq(Texts)
  <2> QED
    BY <2>1, <2>4, <2>6
<1>4. PICK head \in Seq(Byte) : /\ head = <<t.layer, t.sequence, t.prev, t.new>> /\ Len(head) = 4
                                /\ head[1] = t.layer /\ head[2] = t.sequence
                                /\ head[3] = t.prev /\ head[4] = t.new
  <2>1. PICK a, b, c, d \in Byte : a = t.layer /\ b = t.sequence /\ c = t.prev /\ d = t.new
    BY <1>1, <1>2
  <2>2. PICK head \in Seq(Byte) : head = <<a, b, c, d>>
    <3>1. <<a, b, c, d>> \in Seq(Byte)
      OBVIOUS
    <3> QED
      BY <3>1
  <2>3. Len(head) = 4 /\ head[1] = a /\ head[2] = b /\ head[3] = c /\ head[4] = d
    BY <2>2
  <2> QED
    BY <2>1, <2>2, <2>3
<1>5. PICK bytes : bytes = head \o Prefixed(parts)
  OBVIOUS
<1>6. PICK first : first = Len(head) + 1 /\ first = 5
  BY <1>4
<1>7. Len(parts) \in Byte
  BY <1>2, <1>3
<1>8. /\ bytes \in Seq(Byte) /\ first \in 1..Len(bytes) /\ bytes[first] = Len(parts)
      /\ \A k \in 1..Len(head) : bytes[k] = head[k]
      /\ Whole(bytes, TakeParts(bytes, first))
      /\ TakeParts(bytes, first).parts = parts
  <2>1. Holds(bytes, head, first, parts)
    BY <1>5, <1>6, <1>7, PrefixedIsTaken
  <2> QED
    BY <2>1 DEF Holds
<1>9. bytes = EncodeTransition(t)
  BY <1>2, <1>3, <1>4, <1>5
<1>10. /\ bytes[1] = t.layer /\ bytes[2] = t.sequence /\ bytes[3] = t.prev /\ bytes[4] = t.new
       /\ Len(bytes) >= 5
  <2>1. 1 \in 1..4 /\ 2 \in 1..4 /\ 3 \in 1..4 /\ 4 \in 1..4
    OBVIOUS
  <2>2. Len(bytes) >= 5
    BY <1>6, <1>8
  <2> QED
    BY <1>4, <1>8, <2>1, <2>2
<1>11. DecodeTransition(bytes) = t
  <2>1. PICK taken : taken = TakeParts(bytes, 5)
    OBVIOUS
  <2>2. Whole(bytes, taken) /\ taken.parts = parts
    BY <1>3, <1>6, <1>8, <2>1
  <2>3. DecodeTransition(bytes) =
            [layer |-> bytes[1], sequence |-> bytes[2], prev |-> bytes[3],
             new |-> bytes[4], actions |-> ParsedAll(parts)]
    BY <1>2, <1>3, <1>10, <2>1, <2>2 DEF DecodeTransition
  <2> QED
    BY <1>1, <1>3, <1>10, <2>3
<1> QED
  BY <1>8, <1>9, <1>10, <1>11

Rebuilds(bytes, head, taken) ==
    /\ taken.parts \in Seq(Part) /\ Len(taken.parts) \in Byte
    /\ head \o Prefixed(taken.parts) = bytes

\* A header and the parts behind it are all there is.
LEMMA WholeIsRebuilt ==
    ASSUME NEW bytes \in Seq(Byte), NEW head \in Seq(Byte), NEW first \in 1..Len(bytes),
           first = Len(head) + 1, \A k \in 1..Len(head) : bytes[k] = head[k],
           NEW taken, taken = TakeParts(bytes, first), Whole(bytes, taken)
    PROVE  Rebuilds(bytes, head, taken)
<1>1. PICK size \in Nat, h \in Nat : size = Len(bytes) /\ h = Len(head) /\ first = h + 1
                                     /\ size - h \in Nat
  <2>1. Len(bytes) \in Nat /\ Len(head) \in Nat
    BY ONLY bytes \in Seq(Byte), head \in Seq(Byte)
  <2>2. Len(bytes) - Len(head) \in Nat
    BY ONLY <2>1, first \in 1..Len(bytes), first = Len(head) + 1
  <2> QED
    BY <2>1, <2>2
<1>1a. PICK tail : tail = Prefixed(taken.parts)
  OBVIOUS
<1>2. PICK parts \in Seq(Part) :
          /\ parts = taken.parts /\ Len(parts) = bytes[first]
          /\ tail = Prefixed(parts) /\ Len(tail) = size - h
          /\ \A k \in 1..Len(tail) : tail[k] = bytes[h + k]
  <2>1. /\ taken.parts \in Seq(Part) /\ Len(taken.parts) = bytes[first]
        /\ Len(Prefixed(taken.parts)) = Len(bytes) - first + 1
        /\ \A k \in 1..Len(Prefixed(taken.parts)) :
              Prefixed(taken.parts)[k] = bytes[first + k - 1]
    BY WholeIsPrefixed, SMTT(20)
  <2>2. size - first + 1 = size - h
    BY ONLY <1>1, size \in Nat, h \in Nat
  <2>4. Len(tail) = size - h
    BY <1>1, <2>1, <2>2, <1>1a
  <2>5. \A k \in 1..size-h : first + k - 1 = h + k
    BY ONLY <1>1, size \in Nat, h \in Nat
  <2>6. \A k \in 1..Len(tail) : tail[k] = bytes[h + k]
    BY <2>1, <1>1a, <2>4, <2>5
  <2> QED
    BY <2>1, <1>1a, <2>4, <2>6
<1>3. bytes[first] \in Byte
  OBVIOUS
<1>4. tail \in Seq(Byte)
  <2>1. PICK r : Lists(r, parts)
    BY ListsExists
  <2>2. r[Len(parts)] \in Seq(Byte)
    <3>1. Len(parts) \in 0..Len(parts)
      BY ONLY parts \in Seq(Part)
    <3> QED
      BY ONLY <2>1, <3>1 DEF Lists
  <2>3. PICK n \in Byte, e \in Seq(Byte) : n = Len(parts) /\ e = r[Len(parts)]
    BY <1>2, <1>3, <2>2
  <2>4. <<n>> \o e \in Seq(Byte)
    BY ONLY n \in Byte, e \in Seq(Byte)
  <2> QED
    BY <1>2, <2>1, <2>3, <2>4, PrefixedLists
<1>5. PICK b \in Seq(Byte) : b = head \o tail /\ Len(b) = size
                             /\ (\A k \in 1..h : b[k] = head[k])
                             /\ \A j \in 1..size-h : b[h + j] = tail[j]
  <2>1. PICK l \in Nat : l = Len(tail) /\ l = size - h /\ h + l = size
    <3>1. size - h \in Nat /\ h + (size - h) = size
      BY ONLY <1>1, size \in Nat, h \in Nat
    <3> QED
      BY <1>2, <3>1
  <2>2. head \o tail \in Seq(Byte) /\ Len(head \o tail) = h + l
        /\ (\A k \in 1..h : (head \o tail)[k] = head[k])
        /\ \A j \in 1..l : (head \o tail)[h + j] = tail[j]
    <3>1. h = Len(head) /\ l = Len(tail) /\ h \in Nat /\ l \in Nat
      BY <1>1, <2>1
    <3>2. head \o tail \in Seq(Byte) /\ Len(head \o tail) = h + l
      BY ONLY <1>4, <3>1, head \in Seq(Byte)
    <3>3. \A k \in 1..h : (head \o tail)[k] = head[k]
      BY ONLY <1>4, <3>1, head \in Seq(Byte)
    <3>4. \A j \in 1..l : (head \o tail)[h + j] = tail[j]
      BY ONLY <1>4, <3>1, head \in Seq(Byte)
    <3> QED
      BY ONLY <3>2, <3>3, <3>4
  <2> QED
    BY <2>1, <2>2
<1>6. ASSUME NEW k \in 1..size PROVE b[k] = bytes[k]
  <2>1. CASE k \in 1..h
    BY <1>1, <1>5, <2>1
  <2>2. CASE k \notin 1..h
    <3>1. PICK j \in 1..size-h : k = h + j
      <4>1. k - h \in 1..size-h /\ k = h + (k - h)
        BY ONLY <1>1, <2>2, k \in 1..size, h \in Nat, size \in Nat
      <4> QED
        BY <4>1
    <3>2. b[k] = tail[j]
      BY <1>5, <3>1
    <3>3. tail[j] = bytes[k]
      BY <1>2, <3>1
    <3> QED
      BY <3>2, <3>3
  <2> QED
    BY <2>1, <2>2
<1>7. b = bytes
  <2>1. Len(b) = size /\ Len(bytes) = size
    BY <1>1, <1>5
  <2> QED
    BY ONLY <1>6, <2>1, bytes \in Seq(Byte), b \in Seq(Byte)
<1>8. head \o Prefixed(taken.parts) = bytes
  BY <1>2, <1>5, <1>7
<1> QED
  BY <1>2, <1>3, <1>8 DEF Rebuilds

\* Header and parts of what a decoder takes bytes for are all the bytes.
Reads(bytes, d) ==
    IF "children" \in DOMAIN d
    THEN bytes = <<BundleId, d.id>> \o Prefixed(d.children)
    ELSE \E texts \in [DOMAIN d.actions -> Texts] :
             /\ d.actions = ParsedAll(texts)
             /\ bytes = <<d.layer, d.sequence, d.prev, d.new>> \o Prefixed(texts)

\* What a verifier takes for a transition is read to the end.
LEMMA DecodedTransition ==
    ASSUME NEW bytes \in Seq(Byte), DecodeTransition(bytes) # Error
    PROVE  Reads(bytes, DecodeTransition(bytes))
<1>1. PICK taken : taken = TakeParts(bytes, 5)
  OBVIOUS
<1>2. PICK t : t = [layer |-> bytes[1], sequence |-> bytes[2], prev |-> bytes[3],
                    new |-> bytes[4], actions |-> ParsedAll(taken.parts)]
  OBVIOUS
<1>3. /\ Len(bytes) >= 5 /\ bytes[2] > 0 /\ Whole(bytes, taken) /\ DecodeTransition(bytes) = t
      /\ \A i \in DOMAIN taken.parts : taken.parts[i] \in Texts
  BY <1>1, <1>2 DEF DecodeTransition
<1>4. /\ t.sequence = bytes[2] /\ t.actions = ParsedAll(taken.parts) /\ t.layer = bytes[1]
      /\ t.prev = bytes[3] /\ t.new = bytes[4] /\ "children" \notin DOMAIN t
  BY <1>2
<1>5. PICK head \in Seq(Byte) : /\ head = <<t.layer, t.sequence, t.prev, t.new>> /\ Len(head) = 4
                                /\ \A k \in 1..4 : bytes[k] = head[k]
  <2>1. PICK a, b, c, d \in Byte : a = bytes[1] /\ b = bytes[2] /\ c = bytes[3] /\ d = bytes[4]
    BY <1>3
  <2>2. PICK head \in Seq(Byte) : head = <<a, b, c, d>>
    <3>1. <<a, b, c, d>> \in Seq(Byte)
      OBVIOUS
    <3> QED
      BY <3>1
  <2>3. Len(head) = 4 /\ head[1] = a /\ head[2] = b /\ head[3] = c /\ head[4] = d
    BY <2>2
  <2>4. \A k \in 1..4 : k = 1 \/ k = 2 \/ k = 3 \/ k = 4
    OBVIOUS
  <2>5. \A k \in 1..4 : bytes[k] = head[k]
    BY <2>1, <2>3, <2>4
  <2> QED
    BY <1>4, <2>1, <2>2, <2>3, <2>5
<1>6. PICK first \in 1..Len(bytes) : first = 5 /\ first = Len(head) + 1
  BY <1>3, <1>5
<1>7. /\ taken.parts \in Seq(Part) /\ Len(taken.parts) \in Byte
      /\ head \o Prefixed(taken.parts) = bytes
  <2>1. Rebuilds(bytes, head, taken)
    BY <1>1, <1>3, <1>5, <1>6, WholeIsRebuilt
  <2> QED
    BY <2>1 DEF Rebuilds
<1>8. DOMAIN t.actions = DOMAIN taken.parts
  BY <1>4 DEF ParsedAll
<1>9. taken.parts \in [DOMAIN t.actions -> Texts]
  <2>1. PICK parts \in Seq(Part) : parts = taken.parts
    BY <1>7
  <2>2. parts = [i \in DOMAIN parts |-> parts[i]]
    BY ONLY parts \in Seq(Part)
  <2> QED
    BY <1>3, <1>8, <2>1, <2>2
<1>10. bytes = <<t.layer, t.sequence, t.prev, t.new>> \o Prefixed(taken.parts)
  BY <1>5, <1>7
<1>11. Reads(bytes, t)
  BY <1>4, <1>9, <1>10 DEF Reads
<1> QED
  BY <1>3, <1>11

\* A bundle that can be written is read back, if its children have headers.
LEMMA EncodedBundle ==
    ASSUME NEW b \in Bundle, EncodeBundle(b) # Error
    PROVE  /\ EncodeBundle(b) \in Seq(Byte)
           /\ Len(EncodeBundle(b)) > 0 /\ EncodeBundle(b)[1] = BundleId
           /\ (\A k \in DOMAIN b.children : Len(b.children[k]) >= MinChild)
                 => DecodeBundle(EncodeBundle(b)) = b
<1>1. /\ b.id \in Byte /\ b.children \in Seq(Seq(Byte))
      /\ b = [id |-> b.id, children |-> b.children]
  BY DEF Bundle
<1>2. /\ b.children # <<>> /\ Len(b.children) \in Byte
      /\ \A i \in DOMAIN b.children : Len(b.children[i]) \in Byte
      /\ EncodeBundle(b) = <<BundleId, b.id>> \o Prefixed(b.children)
  BY DEF EncodeBundle, Fits
<1>3. PICK parts \in Seq(Part) : parts = b.children /\ Len(parts) > 0
  <2>1. \A i \in 1..Len(b.children) : b.children[i] \in Part
    BY <1>1, <1>2 DEF Part
  <2>2. PICK q \in Seq(Seq(Byte)) : q = b.children
    BY <1>1
  <2>3. q \in Seq(Part)
    BY ONLY <2>1, <2>2, q \in Seq(Seq(Byte)), SMTT(20)
  <2>4. Len(q) > 0
    BY ONLY <1>2, <2>2, q \in Seq(Seq(Byte))
  <2> QED
    BY <2>2, <2>3, <2>4
<1>4. PICK head \in Seq(Byte) : /\ head = <<BundleId, b.id>> /\ Len(head) = 2
                                /\ head[1] = BundleId /\ head[2] = b.id
  <2>1. PICK c, d \in Byte : c = BundleId /\ d = b.id
    BY <1>1, FramingAssumption DEF FramingAssumption
  <2>2. PICK head \in Seq(Byte) : head = <<c, d>>
    <3>1. <<c, d>> \in Seq(Byte)
      OBVIOUS
    <3> QED
      BY <3>1
  <2>3. Len(head) = 2 /\ head[1] = c /\ head[2] = d
    BY <2>2
  <2> QED
    BY <2>1, <2>2, <2>3
<1>5. PICK bytes : bytes = head \o Prefixed(parts)
  OBVIOUS
<1>6. PICK first : first = Len(head) + 1 /\ first = 3
  BY <1>4
<1>7. Len(parts) \in Byte
  BY <1>2, <1>3
<1>8. /\ bytes \in Seq(Byte) /\ first \in 1..Len(bytes) /\ bytes[first] = Len(parts)
      /\ \A k \in 1..Len(head) : bytes[k] = head[k]
      /\ Whole(bytes, TakeParts(bytes, first))
      /\ TakeParts(bytes, first).parts = parts
  <2>1. Holds(bytes, head, first, parts)
    BY <1>5, <1>6, <1>7, PrefixedIsTaken
  <2> QED
    BY <2>1 DEF Holds
<1>9. bytes = EncodeBundle(b)
  BY <1>2, <1>3, <1>4, <1>5
<1>10. bytes[1] = BundleId /\ bytes[2] = b.id /\ Len(bytes) >= 3 /\ bytes[3] > 0
  <2>1. 1 \in 1..2 /\ 2 \in 1..2
    OBVIOUS
  <2>2. Len(bytes) >= 3 /\ bytes[3] > 0
    BY <1>3, <1>6, <1>8
  <2> QED
    BY <1>4, <1>8, <2>1, <2>2
<1>11. ASSUME \A k \in DOMAIN b.children : Len(b.children[k]) >= MinChild
       PROVE  DecodeBundle(bytes) = b
  <2>1. PICK taken : taken = TakeParts(bytes, 3)
    OBVIOUS
  <2>2. Whole(bytes, taken) /\ taken.parts = b.children
    BY <1>3, <1>6, <1>8, <2>1
  <2>3. DecodeBundle(bytes) = [id |-> bytes[2], children |-> taken.parts]
    BY <1>10, <1>11, <2>1, <2>2 DEF DecodeBundle
  <2> QED
    BY <1>1, <1>10, <2>2, <2>3
<1> QED
  BY <1>8, <1>9, <1>10, <1>11

\* What a verifier takes for a bundle is read to the end.
LEMMA DecodedBundle ==
    ASSUME NEW bytes \in Seq(Byte), IsBundle(bytes), DecodeBundle(bytes) # Error
    PROVE  Reads(bytes, DecodeBundle(bytes))
<1>1. PICK taken : taken = TakeParts(bytes, 3)
  OBVIOUS
<1>2. PICK b : b = [id |-> bytes[2], children |-> taken.parts]
  OBVIOUS
<1>3. Len(bytes) >= 3 /\ bytes[3] > 0 /\ Whole(bytes, taken) /\ DecodeBundle(bytes) = b
      /\ bytes[1] = BundleId
  BY <1>1, <1>2 DEF DecodeBundle, IsBundle
<1>4. b.id = bytes[2] /\ b.children = taken.parts /\ "children" \in DOMAIN b
  BY <1>2
<1>5. PICK head \in Seq(Byte) : /\ head = <<BundleId, b.id>> /\ Len(head) = 2
                                /\ \A k \in 1..2 : bytes[k] = head[k]
  <2>1. PICK c, d \in Byte : c = bytes[1] /\ d = bytes[2]
    BY <1>3
  <2>2. PICK head \in Seq(Byte) : head = <<c, d>>
    <3>1. <<c, d>> \in Seq(Byte)
      OBVIOUS
    <3> QED
      BY <3>1
  <2>3. Len(head) = 2 /\ head[1] = c /\ head[2] = d
    BY <2>2
  <2>4. \A k \in 1..2 : k = 1 \/ k = 2
    OBVIOUS
  <2>5. \A k \in 1..2 : bytes[k] = head[k]
    BY <2>1, <2>3, <2>4
  <2> QED
    BY <1>3, <1>4, <2>1, <2>2, <2>3, <2>5
<1>6. PICK first \in 1..Len(bytes) : first = 3 /\ first = Len(head) + 1
  BY <1>3, <1>5
<1>7. /\ taken.parts \in Seq(Part) /\ Len(taken.parts) \in Byte
      /\ head \o Prefixed(taken.parts) = bytes
  <2>1. Rebuilds(bytes, head, taken)
    BY <1>1, <1>3, <1>5, <1>6, WholeIsRebuilt
  <2> QED
    BY <2>1 DEF Rebuilds
<1>8. bytes = <<BundleId, b.id>> \o Prefixed(b.children)
  BY <1>4, <1>5, <1>7
<1> QED
  BY <1>3, <1>4, <1>8 DEF Reads

-----------------------------------------------------------------------------
\* The values of the variables.

LEMMA RawBytesType ==
    ASSUME NEW words \in Seq(Word), words # <<>>
    PROVE  RawBytes(words) \in Seq(Byte)
<1>1. PICK n \in Nat \ {0}, w \in Nat \ {0}, B \in Nat \ {0} :
          n = Len(words) /\ w = WordBytes /\ B = ByteBits
  <2>1. Len(words) \in Nat \ {0}
    OBVIOUS
  <2> QED
    BY <2>1, Widths
<1>2. PICK size \in Nat : size = w * n
  BY Product
<1> DEFINE byte(i) == (words[(i - 1) \div w + 1]
                          \div Pow2(ByteBits * (w - 1 - ((i - 1) % w)))) % Pow2(ByteBits)
<1>3. ASSUME NEW i \in 1..size
      PROVE  byte(i) \in Byte
  <2>1. PICK x \in Nat : x = i - 1 /\ x < n * w
    <3>1. i - 1 \in Nat /\ i - 1 < size
      BY ONLY i \in 1..size, size \in Nat
    <3>2. w * n = n * w
      OBVIOUS
    <3> QED
      BY <1>2, <3>1, <3>2
  <2>2. PICK q \in Nat, r \in 0..w-1 : q = x \div w /\ r = x % w /\ x = w * q + r
    <3>1. x = w * (x \div w) + (x % w) /\ x % w \in 0..w-1 /\ x \div w \in Nat
      BY ONLY Division, x \in Nat, w \in Nat \ {0}
    <3> QED
      BY ONLY <3>1
  <2>3. q < n
    <3>1. r \in Nat /\ x < n * w /\ x = w * q + r
      BY <2>1, <2>2
    <3>2. q < n /\ (0 * n + q) * w + r = 0 * (n * w) + x
      BY ONLY <3>1, q \in Nat, n \in Nat \ {0}, w \in Nat \ {0}, x \in Nat, 0 \in Nat, Split
    <3> QED
      BY <3>2
  <2>4. words[q + 1] \in Word
    <3>1. q + 1 \in 1..n
      BY ONLY <2>3, q \in Nat, n \in Nat \ {0}
    <3> QED
      BY <1>1, <3>1
  <2>5. PICK e \in Nat : e = ByteBits * (w - 1 - r)
    <3>1. PICK f \in Nat : f = w - 1 - r
      OBVIOUS
    <3> QED
      BY <3>1, Product, Widths
  <2>6. PICK d \in Nat, P \in Nat \ {0} : d = words[q + 1] /\ P = Pow2(e)
    <3>1. words[q + 1] \in Nat
      BY <2>4, WordType
    <3>2. Pow2(e) \in Nat \ {0}
      BY Pow2Type
    <3> QED
      BY <3>1, <3>2
  <2>7. PICK y \in Nat : y = d \div P
    <3>1. d \div P \in Nat
      BY ONLY DivisionType, d \in Nat, P \in Nat \ {0}
    <3> QED
      BY <3>1
  <2>8. y % ByteBase \in 0..ByteBase-1
    BY ONLY Division, y \in Nat, Widths
  <2>9. byte(i) = y % ByteBase
    BY <2>1, <2>2, <2>5, <2>6, <2>7 DEF ByteBase
  <2> HIDE DEF byte
  <2> QED
    BY <2>8, <2>9, Widths
<1>4. RawBytes(words) = [i \in 1..size |-> byte(i)]
  BY <1>1, <1>2 DEF RawBytes
<1> HIDE DEF byte
<1>5. [i \in 1..size |-> byte(i)] \in Seq(Byte)
  BY <1>3
<1> QED
  BY <1>4, <1>5

LEMMA UnframeType ==
    ASSUME NEW words \in Seq(Word)
    PROVE  Unframe(words) \in {Error} \cup Seq(Byte)
<1>1. CASE words = <<>>
  BY <1>1 DEF Unframe
<1>2. CASE words # <<>> /\ words[1] >= Marker
  BY <1>2, UnframedIsFramed
<1>3. CASE words # <<>> /\ ~ (words[1] >= Marker)
  <2>1. Unframe(words) = UnframeWords(words)
    BY <1>3 DEF Unframe
  <2>2. PICK raw \in Seq(Byte) : raw = RawBytes(words)
    BY <1>3, RawBytesType
  <2>3. PICK end \in Nat, w \in Nat \ {0} : end = WordBytes + words[1] /\ w = WordBytes
    <3>1. words[1] \in Word
      BY <1>3
    <3>2. PICK x \in Nat : x = words[1]
      BY <3>1, WordType
    <3>3. WordBytes + x \in Nat
      BY ONLY x \in Nat, Widths
    <3> QED
      BY <3>2, <3>3, Widths
  <2>4. UnframeWords(words) = Error
        \/ (UnframeWords(words) = SubSeq(raw, w + 1, end) /\ end <= Len(raw))
    BY <2>2, <2>3 DEF UnframeWords
  <2>5. ASSUME end <= Len(raw)
        PROVE  SubSeq(raw, w + 1, end) \in Seq(Byte)
    <3>1. w + 1 \in Nat /\ w + 1 >= 1
      OBVIOUS
    <3> QED
      BY ONLY <2>5, <3>1, raw \in Seq(Byte), end \in Nat
  <2> QED
    BY <2>1, <2>4, <2>5
<1> QED
  BY <1>1, <1>2, <1>3

LEMMA KindsOfItems ==
    /\ \A t \in Transition : "children" \notin DOMAIN t
    /\ \A b \in Bundle : "children" \in DOMAIN b
  BY DEF Transition, Bundle

\* Encode and Decode, for items of either kind.
LEMMA Encoded ==
    ASSUME NEW i \in Transitions \cup Bundles, Encode(i) # Error
    PROVE  Encode(i) \in Seq(Byte) /\ (Decodable(i) => Decode(Encode(i)) = i)
<1>1. CASE i \in Transition
  <2>1. Encode(i) = EncodeTransition(i)
    BY <1>1, KindsOfItems DEF Encode
  <2>2. /\ EncodeTransition(i) \in Seq(Byte)
        /\ Len(EncodeTransition(i)) > 0 /\ EncodeTransition(i)[1] = i.layer
        /\ DecodeTransition(EncodeTransition(i)) = i
    BY <1>1, <2>1, EncodedTransition
  <2>3. ASSUME Decodable(i)
        PROVE  Decode(Encode(i)) = i
    <3>1. i.layer # BundleId
      BY <1>1, <2>3, KindsOfItems DEF Decodable
    <3>2. ~ IsBundle(EncodeTransition(i))
      BY <2>2, <3>1 DEF IsBundle
    <3> QED
      BY <2>1, <2>2, <3>1, <3>2 DEF Decode
  <2> QED
    BY <2>1, <2>2, <2>3
<1>2. CASE i \in Bundle
  <2>1. Encode(i) = EncodeBundle(i)
    BY <1>2, KindsOfItems DEF Encode
  <2>2. /\ EncodeBundle(i) \in Seq(Byte)
        /\ Len(EncodeBundle(i)) > 0 /\ EncodeBundle(i)[1] = BundleId
        /\ (\A k \in DOMAIN i.children : Len(i.children[k]) >= MinChild)
              => DecodeBundle(EncodeBundle(i)) = i
    BY <1>2, <2>1, EncodedBundle
  <2>3. ASSUME Decodable(i)
        PROVE  Decode(Encode(i)) = i
    <3>1. \A k \in DOMAIN i.children : Len(i.children[k]) >= MinChild
      BY <1>2, <2>3, KindsOfItems DEF Decodable
    <3>2. IsBundle(EncodeBundle(i))
      BY <2>2 DEF IsBundle
    <3> QED
      BY <2>1, <2>2, <3>1, <3>2 DEF Decode
  <2> QED
    BY <2>1, <2>2, <2>3
<1>3. i \in Transition \/ i \in Bundle
  BY FramingAssumption DEF FramingAssumption
<1> QED
  BY <1>1, <1>2, <1>3

LEMMA Decoded ==
    ASSUME NEW bytes \in Seq(Byte), Decode(bytes) # Error
    PROVE  Reads(bytes, Decode(bytes))
<1>1. CASE IsBundle(bytes)
  <2>1. Decode(bytes) = DecodeBundle(bytes)
    BY <1>1 DEF Decode
  <2> QED
    BY <1>1, <2>1, DecodedBundle
<1>2. CASE ~ IsBundle(bytes)
  <2>1. Decode(bytes) = DecodeTransition(bytes)
    BY <1>2 DEF Decode
  <2> QED
    BY <1>2, <2>1, DecodedTransition
<1> QED
  BY <1>1, <1>2

-----------------------------------------------------------------------------
\* The inductive invariant: what the variables hold is what the operations so far
\* made of each other.

Values ==
    /\ payload \in {Error} \cup Seq(Byte)
    /\ scalars \in {Error} \cup Seq(Word)
    /\ received \in {Error} \cup Seq(Byte)

\* What is not there yet.
Pending ==
    /\ next \in {"post", "frame", "unframe", "decode", "none"}
    /\ next = "post" => item = Error /\ payload = Error /\ scalars = Error
    /\ next = "frame" => /\ payload \in Seq(Byte) /\ scalars = Error
                         /\ item # Error => payload # Error
    /\ next = "unframe" => scalars \in Seq(Word)
    /\ next \in {"post", "frame", "unframe"} => received = Error
    /\ next = "decode" => received \in Seq(Byte) /\ received # Error
    /\ next # "none" => decoded = Error

\* Where what is there came from.
Made ==
    /\ item # Error => item \in Transitions \cup Bundles /\ payload = Encode(item)
    /\ scalars # Error =>
           \/ item = Error /\ payload = Error
           \/ /\ payload \in Seq(Byte) /\ Len(payload) <= MaxLength
              /\ scalars = Frame(payload)
              /\ item # Error => payload # Error
    /\ received # Error => scalars \in Seq(Word) /\ received = Unframe(scalars)
    /\ next = "none" /\ scalars # Error => received = Unframe(scalars)
    /\ decoded # Error => received \in Seq(Byte) /\ decoded = Decode(received)
    /\ next = "none" /\ received # Error => decoded = Decode(received)

IInv == Values /\ Pending /\ Made

LEMMA InitIInv == Init => IInv
  BY DEF Init, IInv, Values, Pending, Made

LEMMA FramedIsShort ==
    ASSUME NEW bytes \in Seq(Byte), Frame(bytes) # Error
    PROVE  Len(bytes) <= MaxLength
<1>1. PICK l \in Nat : l = Len(bytes)
  OBVIOUS
<1>2. ~ (l > MaxLength)
  BY <1>1 DEF Frame
<1> QED
  BY ONLY <1>1, <1>2, l \in Nat, Widths

LEMMA NextIInv == IInv /\ [Next]_vars => IInv'
<1> SUFFICES ASSUME IInv, [Next]_vars PROVE IInv'
  OBVIOUS
<1> USE DEF IInv
<1>1. CASE EncodeItem
  <2>1. PICK i \in Transitions \cup Bundles : item' = i /\ payload' = Encode(i)
    BY <1>1 DEF EncodeItem
  <2>2. next = "post" /\ scalars' = Error /\ received' = Error /\ decoded' = Error
    BY <1>1 DEF EncodeItem, Pending
  <2>3. Encode(i) # Error => Encode(i) \in Seq(Byte)
    BY Encoded
  <2>4. IF payload' = Error THEN next' = "none" ELSE next' = "frame"
    BY <1>1 DEF EncodeItem, Proceed
  <2>5. Values'
    BY <2>1, <2>2, <2>3 DEF Values
  <2>6. Pending'
    BY <2>1, <2>2, <2>3, <2>4 DEF Pending
  <2>7. Made'
    BY <2>1, <2>2 DEF Made
  <2> QED
    BY <2>5, <2>6, <2>7
<1>2. CASE PostBytes
  <2>1. payload' \in Seq(Byte) /\ next' = "frame"
    BY <1>2, FramingAssumption DEF PostBytes, FramingAssumption
  <2>2. item' = Error /\ scalars' = Error /\ received' = Error /\ decoded' = Error
    BY <1>2 DEF PostBytes, Pending
  <2>3. Values'
    BY <2>1, <2>2 DEF Values
  <2>4. Pending'
    BY <2>1, <2>2 DEF Pending
  <2>5. Made'
    BY <2>1, <2>2 DEF Made
  <2> QED
    BY <2>3, <2>4, <2>5
<1>3. CASE PostWords
  <2>1. scalars' \in Seq(Word) /\ next' = "unframe"
    BY <1>3, FramingAssumption DEF PostWords, FramingAssumption
  <2>2. item' = Error /\ payload' = Error /\ received' = Error /\ decoded' = Error
    BY <1>3 DEF PostWords, Pending
  <2>3. Values'
    BY <2>1, <2>2 DEF Values
  <2>4. Pending'
    BY <2>1, <2>2 DEF Pending
  <2>5. Made'
    BY <2>1, <2>2 DEF Made
  <2> QED
    BY <2>3, <2>4, <2>5
<1>4. CASE FramePayload
  <2>1. PICK b \in Seq(Byte) : payload = b
    BY <1>4 DEF FramePayload, Pending
  <2>2. scalars' = Frame(b) /\ payload' = b /\ item' = item
        /\ received' = Error /\ decoded' = Error
    BY <1>4, <2>1 DEF FramePayload, Pending
  <2>3. item # Error => b # Error
    BY <1>4, <2>1 DEF FramePayload, Pending
  <2>4. Frame(b) # Error => Len(b) <= MaxLength /\ Frame(b) \in Seq(Word)
    BY FramedIsShort, FrameType
  <2>5. IF scalars' = Error THEN next' = "none" ELSE next' = "unframe"
    BY <1>4 DEF FramePayload, Proceed
  <2>6. Values'
    BY <2>1, <2>2, <2>4 DEF Values
  <2>7. Pending'
    BY <2>1, <2>2, <2>4, <2>5 DEF Pending
  <2>8. item' # Error => item' \in Transitions \cup Bundles /\ payload' = Encode(item')
    BY <2>1, <2>2 DEF Made
  <2>9. scalars' # Error =>
            \/ item' = Error /\ payload' = Error
            \/ /\ payload' \in Seq(Byte) /\ Len(payload') <= MaxLength
               /\ scalars' = Frame(payload')
               /\ item' # Error => payload' # Error
    <3>1. PICK f : f = Frame(b)
      OBVIOUS
    <3>2. PICK l : l = Len(b)
      OBVIOUS
    <3>3. payload' = b /\ Frame(payload') = f /\ Len(payload') = l
      BY <2>2, <3>1, <3>2
    <3>4. scalars' = f /\ (f # Error => l <= MaxLength)
      BY <2>2, <2>4, <3>1, <3>2
    <3>5. item' # Error => payload' # Error
      BY <2>2, <2>3
    <3> QED
      BY ONLY <3>3, <3>4, <3>5, b \in Seq(Byte)
  <2>10. Made'
    BY <2>2, <2>5, <2>8, <2>9, Zenon DEF Made
  <2> QED
    BY <2>6, <2>7, <2>10
<1>5. CASE UnframeData
  <2>1. PICK s \in Seq(Word) : scalars = s
    BY <1>5 DEF UnframeData, Pending
  <2>2. received' = Unframe(s) /\ item' = item /\ payload' = payload /\ scalars' = s
        /\ decoded' = Error
    BY <1>5, <2>1 DEF UnframeData, Pending
  <2>3. Unframe(s) \in {Error} \cup Seq(Byte)
    BY UnframeType
  <2>4. IF received' = Error THEN next' = "none" ELSE next' = "decode"
    BY <1>5 DEF UnframeData, Proceed
  <2>5. Values'
    BY <2>1, <2>2, <2>3 DEF Values
  <2>6. Pending'
    BY <2>2, <2>3, <2>4 DEF Pending
  <2>7. Made'
    BY <2>1, <2>2, <2>4 DEF Made
  <2> QED
    BY <2>5, <2>6, <2>7
<1>6. CASE DecodePayload
  <2>1. PICK b \in Seq(Byte) : received = b /\ b # Error
    BY <1>6 DEF DecodePayload, Pending
  <2>2. decoded' = Decode(b) /\ next' = "none"
        /\ item' = item /\ payload' = payload /\ scalars' = scalars /\ received' = b
    BY <1>6, <2>1 DEF DecodePayload
  <2>3. Values'
    BY <2>2 DEF Values
  <2>4. Pending'
    BY <2>2 DEF Pending
  <2>5. Made'
    BY <2>1, <2>2 DEF Made
  <2> QED
    BY <2>3, <2>4, <2>5
<1>7. CASE UNCHANGED vars
  BY <1>7 DEF vars, Values, Pending, Made
<1> QED
  BY <1>1, <1>2, <1>3, <1>4, <1>5, <1>6, <1>7 DEF Next

\* What is on its way is what the operations before made of what was posted.
THEOREM IInvHolds == Spec => []IInv
<1>1. Init => IInv
  BY InitIInv
<1>2. IInv /\ [Next]_vars => IInv'
  BY NextIInv
<1> QED
  BY <1>1, <1>2, PTL DEF Spec

-----------------------------------------------------------------------------
\* The theorems.

\* Bytes stay bytes and words words, and no word the framing makes exceeds Marker +
\* MaxLength, at any widths with MaxLength below the marker.
THEOREM TypeCorrect == Spec => []TypeOK
<1>1. IInv => TypeOK
  <2> SUFFICES ASSUME IInv PROVE TypeOK
    OBVIOUS
  <2>1. ASSUME payload # Error, scalars # Error
        PROVE  \A i \in DOMAIN scalars : scalars[i] <= Marker + MaxLength
    <3>1. payload \in Seq(Byte) /\ Len(payload) <= MaxLength /\ scalars = Frame(payload)
      BY <2>1 DEF IInv, Made
    <3>2. \A i \in DOMAIN Frame(payload) : Frame(payload)[i] <= Marker + MaxLength
      BY <3>1, FrameType
    <3> QED
      BY <3>1, <3>2, Zenon
  <2>2. Values
    BY DEF IInv
  <2> QED
    BY <2>1, <2>2 DEF Values, TypeOK
<1> QED
  BY <1>1, IInvHolds, PTL

\* What an operator encodes and frames, a verifier recovers (RoundTrip), for
\* payloads of every length up to MaxLength and bytes and chunks of every width.
THEOREM RoundTripHolds == Spec => []RoundTrip
<1>1. IInv => RoundTrip
  <2> SUFFICES ASSUME IInv, next = "none", item # Error, scalars # Error
               PROVE  received = payload /\ (Decodable(item) => decoded = item)
    BY DEF RoundTrip
  <2>1. /\ payload \in Seq(Byte) /\ Len(payload) <= MaxLength
        /\ scalars = Frame(payload) /\ payload # Error
        /\ received = Unframe(scalars)
        /\ item \in Transitions \cup Bundles /\ payload = Encode(item)
    BY DEF IInv, Made
  <2>2. received = payload
    BY <2>1, FramedIsUnframed
  <2>3. decoded = Decode(payload)
    BY <2>1, <2>2 DEF IInv, Made
  <2>4. Decodable(item) => Decode(Encode(item)) = item
    BY <2>1, Encoded
  <2> QED
    BY <2>1, <2>2, <2>3, <2>4
<1> QED
  BY <1>1, IInvHolds, PTL

\* The field-safe words a verifier takes are those the framing makes of the payload
\* it takes them for (OneFraming): among such words there is no second way to write it.
THEOREM OneFramingHolds == Spec => []OneFraming
<1>1. IInv => OneFraming
  <2> SUFFICES ASSUME IInv, received # Error, scalars[1] >= Marker
               PROVE  Frame(received) = scalars
    BY DEF OneFraming
  <2>1. scalars \in Seq(Word) /\ received = Unframe(scalars)
    BY DEF IInv, Made
  <2>2. scalars # <<>>
    BY <2>1 DEF Unframe
  <2> QED
    BY <2>1, <2>2, UnframedIsFramed
<1> QED
  BY <1>1, IInvHolds, PTL

\* Header and parts of what a verifier takes bytes for are all its bytes (NoByteUnread),
\* for any number and length of parts and any JSON.
THEOREM NoByteUnreadHolds == Spec => []NoByteUnread
<1>1. IInv => NoByteUnread
  <2> SUFFICES ASSUME IInv, decoded # Error PROVE Reads(received, decoded)
    BY DEF NoByteUnread, Reads
  <2>1. received \in Seq(Byte) /\ decoded = Decode(received)
    BY DEF IInv, Made
  <2> QED
    BY <2>1, Decoded
<1> QED
  BY <1>1, IInvHolds, PTL

=============================================================================
