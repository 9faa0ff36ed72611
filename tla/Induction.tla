----------------------------- MODULE Induction ------------------------------
(***************************************************************************)
(* Induction over the naturals as facts about sets.  A claim about every   *)
(* number is proved by taking the least number for which it fails; that a  *)
(* recursive function is what its equation says, by taking the least       *)
(* domain on which no function satisfies the equation.                     *)
(***************************************************************************)
EXTENDS Integers, SequencesExt, WellFoundedInduction, TLAPS

\* The least element of a set of naturals.
LEMMA Least ==
  ASSUME NEW S \in SUBSET Nat, S # {}
  PROVE  \E m \in S : \A n \in S : m <= n
<1>1. PICK m \in S : \A n \in S : <<n, m>> \notin OpToRel(<, Nat)
  BY WFMin, NatLessThanWellFounded, Zenon
<1>2. \A n \in S : ~(n < m)
  BY <1>1 DEF OpToRel
<1> QED
  BY <1>2

\* The greatest element of a bounded one.
LEMMA Greatest ==
  ASSUME NEW bound \in Nat, NEW S \in SUBSET (0 .. bound), S # {}
  PROVE  \E m \in S : \A n \in S : n <= m
<1> DEFINE T == {bound - n : n \in S}
<1>1. T \in SUBSET Nat
  <2>1. \A n \in S : bound - n \in Nat
    OBVIOUS
  <2> QED
    BY <2>1
<1>2. T # {}
  OBVIOUS
<1>3. PICK t \in T : \A n \in T : t <= n
  BY <1>1, <1>2, Least
<1>4. PICK m \in S : t = bound - m
  OBVIOUS
<1>5. \A n \in S : bound - m <= bound - n
  BY <1>3, <1>4
<1> QED
  BY <1>5

\* What is one sequence and then another is their concatenation.
LEMMA Concatenation ==
  ASSUME NEW S, NEW x \in Seq(S), NEW y \in Seq(S), NEW z \in Seq(S),
         Len(z) = Len(x) + Len(y), \A k \in 1 .. Len(x) : z[k] = x[k],
         \A k \in 1 .. Len(y) : z[Len(x) + k] = y[k]
  PROVE  z = x \o y
<1>1. Len(x) \in Nat /\ Len(y) \in Nat /\ x \o y \in Seq(S) /\ Len(x \o y) = Len(z)
  OBVIOUS
<1>2. ASSUME NEW k \in 1 .. Len(z) PROVE z[k] = (x \o y)[k]
  <2>1. CASE k <= Len(x)
    BY <1>1, <2>1
  <2>2. CASE k > Len(x)
    <3>1. k - Len(x) \in 1 .. Len(y) /\ Len(x) + (k - Len(x)) = k
      BY <1>1, <2>2
    <3>2. z[k] = y[k - Len(x)]
      BY <3>1
    <3>3. (x \o y)[k] = y[k - Len(x)]
      BY <1>1, <2>2
    <3> QED
      BY <3>2, <3>3
  <2> QED
    BY <1>1, <2>1, <2>2
<1> QED
  BY <1>1, <1>2

-----------------------------------------------------------------------------
(* A sequence of sequences as one. *)

\* The elements of a concatenation.
LEMMA ToSetConcat ==
  ASSUME NEW S, NEW x \in Seq(S), NEW y \in Seq(S)
  PROVE  ToSet(x \o y) = ToSet(x) \cup ToSet(y)
<1>1. Len(x) \in Nat /\ Len(y) \in Nat /\ x \o y \in Seq(S) /\ Len(x \o y) = Len(x) + Len(y)
  OBVIOUS
<1>2. /\ \A k \in 1 .. Len(x) : (x \o y)[k] = x[k]
      /\ \A k \in 1 .. Len(y) : (x \o y)[Len(x) + k] = y[k] /\ Len(x) + k \in 1 .. Len(x \o y)
      /\ \A k \in 1 .. Len(x \o y) : k > Len(x) => (x \o y)[k] = y[k - Len(x)] /\ k - Len(x) \in 1 .. Len(y)
      /\ \A k \in 1 .. Len(x) : k \in 1 .. Len(x \o y)
      /\ \A k \in 1 .. Len(x \o y) : k > Len(x) \/ k \in 1 .. Len(x)
  BY <1>1
<1>3. ASSUME NEW e \in ToSet(x) \cup ToSet(y) PROVE e \in ToSet(x \o y)
  <2>1. CASE e \in ToSet(x)
    <3>1. PICK k \in 1 .. Len(x) : e = x[k]
      BY <1>1, <2>1 DEF ToSet
    <3>2. e = (x \o y)[k] /\ k \in 1 .. Len(x \o y)
      BY <1>2, <3>1
    <3> QED
      BY <1>1, <3>2 DEF ToSet
  <2>2. CASE e \in ToSet(y)
    <3>1. PICK k \in 1 .. Len(y) : e = y[k]
      BY <1>1, <2>2 DEF ToSet
    <3>2. e = (x \o y)[Len(x) + k] /\ Len(x) + k \in 1 .. Len(x \o y)
      BY <1>2, <3>1
    <3> QED
      BY <1>1, <3>2 DEF ToSet
  <2> QED
    BY <2>1, <2>2
<1>4. ASSUME NEW e \in ToSet(x \o y) PROVE e \in ToSet(x) \cup ToSet(y)
  BY <1>1, <1>2 DEF ToSet
<1> QED
  BY <1>3, <1>4

\* The first i of the sequences s as one, if f has those for fewer.
Flat(s, f, i) == IF i = 1 THEN s[i] ELSE f[i - 1] \o s[i]

Flattening(s, f) == \A i \in 1 .. Len(s) : f[i] = Flat(s, f, i)

\* What FlattenSeq computes step by step.
LEMMA FlatExists ==
  ASSUME NEW s, Len(s) \in Nat
  PROVE  \E f : f = [i \in 1 .. Len(s) |-> Flat(s, f, i)]
<1> DEFINE Upto(n, f) == f = [i \in 1 .. n |-> Flat(s, f, i)]
           Missing == {n \in 0 .. Len(s) : ~\E f : Upto(n, f)}
<1>1. Missing = {}
  <2> SUFFICES ASSUME Missing # {} PROVE FALSE
    OBVIOUS
  <2>1. Missing \in SUBSET Nat
    OBVIOUS
  <2> HIDE DEF Missing
  <2>2. PICK m \in Missing : \A n \in Missing : m <= n
    BY <2>1, Least
  <2> USE DEF Missing
  <2>3. m \in 0 .. Len(s) /\ ~\E f : Upto(m, f)
    BY <2>2
  <2>4. m # 0
    <3>1. Upto(0, << >>)
      OBVIOUS
    <3> QED
      BY <2>3, <3>1
  <2>5. PICK f : Upto(m - 1, f)
    BY <2>1, <2>2, <2>3, <2>4
  <2> DEFINE g == [i \in 1 .. m |-> Flat(s, f, i)]
  <2>6. \A i \in 1 .. m - 1 : g[i] = f[i]
    <3> HIDE DEF g
    <3>1. \A i \in 1 .. m - 1 : f[i] = Flat(s, f, i)
      BY <2>5
    <3> QED
      BY <3>1, <2>3 DEF g
  <2>7. \A i \in 1 .. m : Flat(s, f, i) = Flat(s, g, i)
    <3> HIDE DEF g
    <3> QED
      BY <2>3, <2>6 DEF Flat
  <2>8. g = [i \in 1 .. m |-> Flat(s, g, i)]
    BY <2>7
  <2> QED
    BY <2>3, <2>8
<1> QED
  BY <1>1

\* What it computes are sequences, each beginning with the one before.
Grows(S, s, f) ==
  /\ \A n \in 1 .. Len(s) : f[n] \in Seq(S) /\ (n # 1 => f[n] = f[n - 1] \o s[n])
  /\ Len(s) # 0 => f[1] = s[1]

LEMMA FlatGrows ==
  ASSUME NEW S, NEW s \in Seq(Seq(S)), NEW f, Flattening(s, f)
  PROVE  Grows(S, s, f)
<1> DEFINE Bad == {n \in 1 .. Len(s) : f[n] \notin Seq(S)}
<1>0. Len(s) \in Nat
  OBVIOUS
<1>1. \A n \in 1 .. Len(s) : f[n] = IF n = 1 THEN s[n] ELSE f[n - 1] \o s[n]
  BY DEF Flattening, Flat
<1>2. Bad = {}
  <2> SUFFICES ASSUME Bad # {} PROVE FALSE
    OBVIOUS
  <2>1. PICK m \in Bad : \A n \in Bad : m <= n
    <3>1. Bad \in SUBSET Nat
      OBVIOUS
    <3> HIDE DEF Bad
    <3> QED
      BY <3>1, Least
  <2>2. m \in 1 .. Len(s) /\ s[m] \in Seq(S)
    BY <2>1
  <2>3. m # 1 => f[m - 1] \in Seq(S)
    BY <2>1, <2>2
  <2>4. f[m] = IF m = 1 THEN s[m] ELSE f[m - 1] \o s[m]
    BY <1>1, <2>2
  <2>5. f[m] \in Seq(S)
    BY <2>2, <2>3, <2>4
  <2> QED
    BY <2>1, <2>5
<1>3. \A n \in 1 .. Len(s) : f[n] \in Seq(S)
  BY <1>2
<1>4. Len(s) # 0 => 1 \in 1 .. Len(s)
  BY <1>0
<1> QED
  BY <1>1, <1>3, <1>4 DEF Grows

\* A sequence of sequences becomes one.
LEMMA FlattenSeqType ==
  ASSUME NEW S, NEW s \in Seq(Seq(S))
  PROVE  FlattenSeq(s) \in Seq(S)
<1> DEFINE F == CHOOSE f : f = [i \in 1 .. Len(s) |-> Flat(s, f, i)]
<1>0. Len(s) \in Nat
  OBVIOUS
<1>1. Flattening(s, F)
  <2>1. F = [i \in 1 .. Len(s) |-> Flat(s, F, i)]
    BY <1>0, FlatExists
  <2> HIDE DEF F
  <2> QED
    BY <2>1 DEF Flattening
<1>2. Len(s) # 0 => FlattenSeq(s) = F[Len(s)]
  BY DEF FlattenSeq, Flat
<1> HIDE DEF F
<1>3. Grows(S, s, F)
  BY <1>1, FlatGrows, Zenon
<1>4. CASE Len(s) = 0
  BY <1>4 DEF FlattenSeq
<1>5. CASE Len(s) # 0
  <2>1. Len(s) \in 1 .. Len(s)
    BY <1>0, <1>5
  <2>2. F[Len(s)] \in Seq(S)
    BY <1>3, <2>1 DEF Grows
  <2> QED
    BY <1>2, <1>5, <2>2
<1> QED
  BY <1>4, <1>5

\* What is in one of the sequences is in the whole.
LEMMA FlattenSeqElements ==
  ASSUME NEW S, NEW s \in Seq(Seq(S)), NEW k \in 1 .. Len(s), NEW x \in ToSet(s[k])
  PROVE  x \in ToSet(FlattenSeq(s))
<1> DEFINE F == CHOOSE f : f = [i \in 1 .. Len(s) |-> Flat(s, f, i)]
           Bad == {n \in k .. Len(s) : x \notin ToSet(F[n])}
<1>0. Len(s) \in Nat /\ k \in Nat /\ k >= 1 /\ k <= Len(s)
  OBVIOUS
<1>1. Flattening(s, F)
  <2>1. F = [i \in 1 .. Len(s) |-> Flat(s, F, i)]
    BY <1>0, FlatExists
  <2> HIDE DEF F
  <2> QED
    BY <2>1 DEF Flattening
<1>2. Len(s) # 0 => FlattenSeq(s) = F[Len(s)]
  BY DEF FlattenSeq, Flat
<1> HIDE DEF F
<1>3. Grows(S, s, F)
  BY <1>1, FlatGrows, Zenon
<1>4. Bad = {}
  <2> SUFFICES ASSUME Bad # {} PROVE FALSE
    OBVIOUS
  <2>1. PICK m \in Bad : \A n \in Bad : m <= n
    <3>1. Bad \in SUBSET Nat
      BY <1>0
    <3> HIDE DEF Bad
    <3> QED
      BY <3>1, Least
  <2>2. m \in 1 .. Len(s) /\ m >= k /\ x \notin ToSet(F[m]) /\ s[m] \in Seq(S)
    BY <1>0, <2>1
  <2>3. m # 1
    BY <1>0, <1>3, <2>2 DEF Grows
  <2>4. m - 1 \in 1 .. Len(s)
    BY <1>0, <2>2, <2>3
  <2>5. F[m - 1] \in Seq(S) /\ F[m] = F[m - 1] \o s[m]
    BY <1>3, <2>2, <2>3, <2>4 DEF Grows
  <2>6. x \in ToSet(F[m - 1]) \/ x \in ToSet(s[m])
    BY <1>0, <2>1, <2>2, <2>4
  <2>7. x \in ToSet(F[m - 1] \o s[m])
    BY <2>2, <2>5, <2>6, ToSetConcat
  <2> QED
    BY <2>2, <2>5, <2>7
<1>5. x \in ToSet(F[Len(s)])
  <2>1. \A n \in k .. Len(s) : x \in ToSet(F[n])
    BY <1>4
  <2>2. Len(s) \in k .. Len(s)
    BY <1>0
  <2> HIDE DEF Bad
  <2> QED
    BY <2>1, <2>2, Zenon
<1> QED
  BY <1>0, <1>2, <1>5

-----------------------------------------------------------------------------
(* A counter along a sequence of steps, each a pair: what it takes from    *)
(* the counter, which must be there, and what it then adds.                *)

Path(m, a, c) ==
  \E r \in [1 .. Len(m) + 1 -> Nat] :
    /\ r[1] = a /\ r[Len(m) + 1] = c
    /\ \A k \in 1 .. Len(m) : m[k][1] <= r[k] /\ r[k + 1] = r[k] - m[k][1] + m[k][2]

Steps == Nat \X Nat

\* No steps: the counter stays.
LEMMA PathEmpty ==
  ASSUME NEW a \in Nat
  PROVE  Path(<< >>, a, a) /\ \A c : Path(<< >>, a, c) => c = a
<1>1. Path(<< >>, a, a)
  <2> DEFINE r == [k \in 1 .. 1 |-> a]
  <2>1. r \in [1 .. Len(<< >>) + 1 -> Nat] /\ r[1] = a /\ Len(<< >>) = 0
    OBVIOUS
  <2> HIDE DEF r
  <2> QED
    BY <2>1 DEF Path
<1>2. \A c : Path(<< >>, a, c) => c = a
  BY DEF Path
<1> QED
  BY <1>1, <1>2

\* One step.
LEMMA PathOne ==
  ASSUME NEW a \in Nat, NEW x \in Steps, x[1] <= a
  PROVE  Path(<<x>>, a, a - x[1] + x[2])
<1> DEFINE r == [k \in 1 .. 2 |-> IF k = 1 THEN a ELSE a - x[1] + x[2]]
<1>1. a - x[1] + x[2] \in Nat
  BY DEF Steps
<1>2. r \in [1 .. Len(<<x>>) + 1 -> Nat]
  BY <1>1
<1>3. r[1] = a /\ r[2] = a - x[1] + x[2]
  OBVIOUS
<1>4. \A k \in 1 .. Len(<<x>>) : k = 1 /\ <<x>>[k] = x
  OBVIOUS
<1> HIDE DEF r
<1> QED
  BY <1>2, <1>3, <1>4 DEF Path

\* The first step, and the others.
LEMMA PathHead ==
  ASSUME NEW a \in Nat, NEW c, NEW m \in Seq(Steps), m # << >>, Path(m, a, c)
  PROVE  /\ Head(m)[1] <= a /\ a - Head(m)[1] + Head(m)[2] \in Nat
         /\ Path(Tail(m), a - Head(m)[1] + Head(m)[2], c)
<1>1. PICK r \in [1 .. Len(m) + 1 -> Nat] :
        /\ r[1] = a /\ r[Len(m) + 1] = c
        /\ \A k \in 1 .. Len(m) : m[k][1] <= r[k] /\ r[k + 1] = r[k] - m[k][1] + m[k][2]
  BY DEF Path
<1> DEFINE t == [k \in 1 .. Len(m) |-> r[k + 1]]
<1>2. Len(m) \in Nat /\ Len(m) >= 1 /\ Head(m) = m[1] /\ m[1] \in Steps
  OBVIOUS
<1>3. Head(m)[1] <= a /\ t[1] = a - Head(m)[1] + Head(m)[2]
  BY <1>1, <1>2
<1>4. Len(Tail(m)) = Len(m) - 1 /\ \A k \in 1 .. Len(m) - 1 : Tail(m)[k] = m[k + 1]
  BY <1>2
<1>5. t \in [1 .. Len(Tail(m)) + 1 -> Nat]
  BY <1>2, <1>4
<1>6. t[Len(Tail(m)) + 1] = c
  BY <1>1, <1>2, <1>4
<1>7. \A k \in 1 .. Len(Tail(m)) : Tail(m)[k][1] <= t[k] /\ t[k + 1] = t[k] - Tail(m)[k][1] + Tail(m)[k][2]
  BY <1>1, <1>2, <1>4
<1>8. t[1] \in Nat
  BY <1>2, <1>5
<1> HIDE DEF t
<1> QED
  BY <1>3, <1>5, <1>6, <1>7, <1>8 DEF Path

\* Some steps, and then others.
LEMMA PathConcat ==
  ASSUME NEW a, NEW b, NEW c, NEW m \in Seq(Steps), NEW n \in Seq(Steps),
         Path(m, a, b), Path(n, b, c)
  PROVE  Path(m \o n, a, c)
<1>1. PICK r \in [1 .. Len(m) + 1 -> Nat] :
        /\ r[1] = a /\ r[Len(m) + 1] = b
        /\ \A k \in 1 .. Len(m) : m[k][1] <= r[k] /\ r[k + 1] = r[k] - m[k][1] + m[k][2]
  BY DEF Path
<1>2. PICK s \in [1 .. Len(n) + 1 -> Nat] :
        /\ s[1] = b /\ s[Len(n) + 1] = c
        /\ \A k \in 1 .. Len(n) : n[k][1] <= s[k] /\ s[k + 1] = s[k] - n[k][1] + n[k][2]
  BY DEF Path
<1> DEFINE t == [k \in 1 .. Len(m) + Len(n) + 1 |-> IF k <= Len(m) THEN r[k] ELSE s[k - Len(m)]]
<1>3. Len(m) \in Nat /\ Len(n) \in Nat /\ m \o n \in Seq(Steps) /\ Len(m \o n) = Len(m) + Len(n)
  OBVIOUS
<1>4. /\ \A k \in 1 .. Len(m) : (m \o n)[k] = m[k]
      /\ \A k \in Len(m) + 1 .. Len(m) + Len(n) : (m \o n)[k] = n[k - Len(m)]
  BY <1>3
<1>5. t \in [1 .. Len(m \o n) + 1 -> Nat] /\ t[Len(m \o n) + 1] = c
  BY <1>2, <1>3
<1>6. t[1] = a
  BY <1>1, <1>2, <1>3
<1>7. \A k \in 1 .. Len(m) + 1 : t[k] = r[k]
  BY <1>1, <1>2, <1>3
<1>8. \A k \in Len(m) + 1 .. Len(m) + Len(n) + 1 : t[k] = s[k - Len(m)]
  BY <1>3
<1> HIDE DEF t
<1>9. ASSUME NEW k \in 1 .. Len(m \o n)
      PROVE  (m \o n)[k][1] <= t[k] /\ t[k + 1] = t[k] - (m \o n)[k][1] + (m \o n)[k][2]
  <2>1. CASE k <= Len(m)
    <3>1. t[k] = r[k] /\ t[k + 1] = r[k + 1] /\ (m \o n)[k] = m[k]
      BY <1>3, <1>4, <1>7, <2>1
    <3> QED
      BY <1>1, <1>3, <2>1, <3>1
  <2>2. CASE k > Len(m)
    <3> DEFINE j == k - Len(m)
    <3>1. /\ j \in 1 .. Len(n) /\ k + 1 - Len(m) = j + 1 /\ k \in Len(m) + 1 .. Len(m) + Len(n)
          /\ k \in Len(m) + 1 .. Len(m) + Len(n) + 1 /\ k + 1 \in Len(m) + 1 .. Len(m) + Len(n) + 1
      BY <1>3, <2>2
    <3>2. t[k] = s[j] /\ t[k + 1] = s[j + 1] /\ (m \o n)[k] = n[j]
      BY <1>4, <1>8, <3>1
    <3>3. n[j][1] <= s[j] /\ s[j + 1] = s[j] - n[j][1] + n[j][2]
      BY <1>2, <3>1
    <3> HIDE DEF j
    <3> QED
      BY <3>2, <3>3
  <2> QED
    BY <1>3, <2>1, <2>2
<1> QED
  BY <1>5, <1>6, <1>9 DEF Path

\* Steps that take nothing and add g each.
LEMMA PathUp ==
  ASSUME NEW a \in Nat, NEW m \in Seq(Steps), NEW g \in {0, 1},
         \A k \in 1 .. Len(m) : m[k] = <<0, g>>
  PROVE  Path(m, a, IF g = 0 THEN a ELSE a + Len(m))
<1> DEFINE r == [k \in 1 .. Len(m) + 1 |-> IF g = 0 THEN a ELSE a + k - 1]
<1>1. Len(m) \in Nat
  OBVIOUS
<1>2. r \in [1 .. Len(m) + 1 -> Nat] /\ r[1] = a /\ r[Len(m) + 1] = IF g = 0 THEN a ELSE a + Len(m)
  BY <1>1
<1>3. \A k \in 1 .. Len(m) : m[k][1] <= r[k] /\ r[k + 1] = r[k] - m[k][1] + m[k][2]
  BY <1>1
<1> HIDE DEF r
<1> QED
  BY <1>2, <1>3 DEF Path

\* Pairs of steps of which the second takes what the first adds.
LEMMA PathPairs ==
  ASSUME NEW a \in Nat, NEW m \in Seq(Steps), NEW n \in Nat, Len(m) = 2 * n,
         \A k \in 1 .. Len(m) : m[k] = IF k % 2 = 1 THEN <<0, 1>> ELSE <<1, 0>>
  PROVE  Path(m, a, a)
<1> DEFINE r == [k \in 1 .. Len(m) + 1 |-> IF k % 2 = 1 THEN a ELSE a + 1]
<1>1. Len(m) \in Nat
  OBVIOUS
<1>2. r \in [1 .. Len(m) + 1 -> Nat] /\ r[1] = a /\ r[Len(m) + 1] = a
  BY <1>1
<1>3. \A k \in 1 .. Len(m) : m[k][1] <= r[k] /\ r[k + 1] = r[k] - m[k][1] + m[k][2]
  <2> SUFFICES ASSUME NEW k \in 1 .. Len(m)
               PROVE  m[k][1] <= r[k] /\ r[k + 1] = r[k] - m[k][1] + m[k][2]
    OBVIOUS
  <2>1. CASE k % 2 = 1
    <3>1. (k + 1) % 2 # 1
      BY <2>1
    <3>2. r[k] = a /\ r[k + 1] = a + 1
      BY <1>1, <2>1, <3>1
    <3>3. m[k][1] = 0 /\ m[k][2] = 1
      BY <2>1
    <3> HIDE DEF r
    <3> QED
      BY <3>2, <3>3
  <2>2. CASE k % 2 # 1
    <3>1. (k + 1) % 2 = 1
      BY <2>2
    <3>2. r[k] = a + 1 /\ r[k + 1] = a
      BY <1>1, <2>2, <3>1
    <3>3. m[k][1] = 1 /\ m[k][2] = 0
      BY <2>2
    <3> HIDE DEF r
    <3> QED
      BY <3>2, <3>3
  <2> QED
    BY <2>1, <2>2
<1> HIDE DEF r
<1> QED
  BY <1>2, <1>3 DEF Path
=============================================================================
