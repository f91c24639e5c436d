--------------------------- MODULE PlanningProofs ---------------------------
(***************************************************************************)
(* Theorems about the answers of Planning for every fleet, load, storage    *)
(* and record, and however they change while an answer is computed.  The    *)
(* price comes first, of any job at all; then induction, sums and what a    *)
(* carrier's record says; then that what Planning asks a price for is such  *)
(* a job; and then the storage an owner is shown, the route a truck takes,  *)
(* and how a load is divided.                                               *)
(***************************************************************************)
EXTENDS Planning, FiniteSetTheorems, SequenceTheorems, WellFoundedInduction, TLAPS

Job == [km : Nat, class : DOMAIN Rate, volume : Nat, weight : Nat, minutes : Int,
        nearby : Nat, value : Nat, trust : Int]

-----------------------------------------------------------------------------
(* Rounding and the factors.                                                *)

LEMMA ProductOfNats == \A a, b \in Nat : a * b \in Nat
OBVIOUS

\* A factor of a larger amount is not smaller.
LEMMA ProductGrows ==
  ASSUME NEW x \in Nat, NEW y \in Nat, NEW n \in Nat, NEW m \in Nat, x <= y, n <= m
  PROVE  x * n <= y * m
<1>1. x * n <= y * n
  <2>1. y * n = x * n + (y - x) * n
    OBVIOUS
  <2>2. (y - x) * n >= 0
    BY ProductOfNats
  <2> QED  BY <2>1, <2>2
<1>2. y * n <= y * m
  <2>1. y * m = y * n + y * (m - n)
    OBVIOUS
  <2>2. y * (m - n) >= 0
    BY ProductOfNats
  <2> QED  BY <2>1, <2>2
<1> QED  BY <1>1, <1>2

\* Rounded to the nearest, too.
LEMMA ScaledGrows ==
  ASSUME NEW x \in Nat, NEW y \in Nat, NEW n \in Nat, NEW m \in Nat, x <= y, n <= m,
         NEW den \in {25, 100, 4000, 4800}
  PROVE  /\ Scaled(x, n, den) \in Nat /\ Scaled(y, m, den) \in Nat
         /\ Scaled(x, n, den) <= Scaled(y, m, den)
<1>1. x * n \in Nat /\ y * m \in Nat /\ x * n <= y * m
  BY ProductOfNats, ProductGrows
<1>2. \A a, b \in Nat : a <= b => /\ (a + den \div 2) \div den \in Nat
                                 /\ (a + den \div 2) \div den <= (b + den \div 2) \div den
  OBVIOUS
<1> QED  BY <1>1, <1>2 DEF Scaled

LEMMA FactorTypes ==
  ASSUME NEW job \in Job
  PROVE  /\ Urgency(job) \in Nat /\ Scarcity(job) \in Nat /\ Reputed(job) \in Nat
         /\ Condition[job.class] \in Nat /\ Rate[job.class] \in Nat
<1>1. job.minutes \in Int /\ job.nearby \in Nat /\ job.trust \in Int
      /\ job.class \in {"standard", "refrigerated", "hazmat", "fragile"}
  BY DEF Job, Rate
<1>2. Urgency(job) \in Nat
  BY <1>1 DEF Urgency, Larger, Smaller, Horizon
<1>3. Scarcity(job) \in Nat
  BY <1>1 DEF Scarcity, Larger, Smaller
<1>4. Reputed(job) \in Nat
  BY <1>1 DEF Reputed, Larger, Smaller
<1> QED  BY <1>1, <1>2, <1>3, <1>4 DEF Condition, Rate

LEMMA SubtotalType ==
  ASSUME NEW job \in Job
  PROVE  Subtotal(job) \in Nat /\ NormalFreight(job) \in Nat
<1>1. job.km \in Nat /\ job.weight \in Nat /\ job.volume \in Nat
  BY DEF Job
<1>2. job.km * Rate[job.class] \in Nat
  BY <1>1, FactorTypes, ProductOfNats
<1>3. TransferFee(job) \in Nat
  BY <1>1 DEF TransferFee
<1>4. Subtotal(job) \in Nat
  BY <1>2, <1>3 DEF Subtotal, Callout
<1>5. NormalFreight(job) \in Nat
  BY <1>1 DEF NormalFreight, Rate, Callout, Larger
<1> QED  BY <1>4, <1>5

LEMMA UncappedType ==
  ASSUME NEW job \in Job
  PROVE  Uncapped(job) \in Nat
<1> DEFINE c == Condition[job.class]
<1>0. c \in Nat
  BY FactorTypes
<1> HIDE DEF c
<1>1. Scaled(Subtotal(job), Urgency(job), 4800) \in Nat
  BY SubtotalType, FactorTypes, ScaledGrows
<1>2. Scaled(Scaled(Subtotal(job), Urgency(job), 4800), Scarcity(job), 25) \in Nat
  BY <1>1, FactorTypes, ScaledGrows
<1>3. Scaled(Scaled(Scaled(Subtotal(job), Urgency(job), 4800), Scarcity(job), 25),
             c, 100) \in Nat
  <2> DEFINE v == Scaled(Scaled(Subtotal(job), Urgency(job), 4800), Scarcity(job), 25)
  <2>1. v \in Nat /\ v <= v /\ c <= c /\ 100 \in {25, 100, 4000, 4800}
    BY <1>0, <1>2
  <2> HIDE DEF v
  <2>2. Scaled(v, c, 100) \in Nat
    BY <2>1, <1>0, ScaledGrows
  <2> QED  BY <2>2 DEF v
<1> QED  BY <1>3, FactorTypes, ScaledGrows DEF Uncapped, c

LEMMA TotalType ==
  ASSUME NEW job \in Job
  PROVE  Total(job) \in Nat /\ Total(job) >= 118 * Subtotal(job)
<1>1. job.value \in Nat
  BY DEF Job
<1>2. Capped(job) \in Int
  BY <1>1, UncappedType, SubtotalType
     DEF Capped, FreightCap, ValueCap, FreightMultiple, ValueShare, Smaller
<1> QED  BY <1>2, SubtotalType DEF Total, Floor, MarginFloor, Larger

-----------------------------------------------------------------------------
(* Theorems.                                                                *)

\* Whatever the caps of the policy take away, a carrier is paid more than the
\* kilometres, the callout and the transfer cost it, and the platform never pays in.
THEOREM EveryRunIsCovered ==
  ASSUME NEW job \in Job
  PROVE  Payout(job) >= 100 * Subtotal(job) /\ PlatformFee(job) >= 0
<1> DEFINE t == Total(job)
           s == Subtotal(job)
<1>1. t \in Nat /\ s \in Nat /\ t >= 118 * s
  BY TotalType, SubtotalType
<1>2. Payout(job) = (t * 88 + 50) \div 100
  BY DEF Payout, Scaled, CarrierShare
<1> HIDE DEF t, s
<1>3. (t * 88 + 50) \div 100 >= 100 * s
  BY <1>1
<1>4. (t * 88 + 50) \div 100 <= t
  BY <1>1
<1> QED  BY <1>1, <1>2, <1>3, <1>4 DEF PlatformFee, t, s

\* Of two owners who differ in nothing but their hurry, the one with less time is never
\* asked for less, through every rounding, cap and floor.
THEOREM HurryIsNeverCheaper ==
  ASSUME NEW job \in Job, NEW m \in Int, m <= job.minutes, m # Unknown
  PROVE  Total([job EXCEPT !.minutes = m]) >= Total(job)
<1> DEFINE other == [job EXCEPT !.minutes = m]
<1>1. other \in Job
  BY DEF Job
<1>2. /\ other.km = job.km /\ other.class = job.class /\ other.volume = job.volume
      /\ other.weight = job.weight /\ other.nearby = job.nearby
      /\ other.value = job.value /\ other.trust = job.trust /\ other.minutes = m
  BY DEF Job
<1> HIDE DEF other
<1>3. /\ Subtotal(other) = Subtotal(job) /\ NormalFreight(other) = NormalFreight(job)
      /\ Scarcity(other) = Scarcity(job) /\ Reputed(other) = Reputed(job)
  BY <1>2 DEF Subtotal, TransferFee, NormalFreight, Scarcity, Reputed
<1>4. Urgency(job) <= Urgency(other)
  <2>1. job.minutes \in Int
    BY DEF Job
  <2> QED  BY <1>2, <2>1 DEF Urgency, Horizon, Larger, Smaller
<1>5. Uncapped(job) <= Uncapped(other)
  <2> DEFINE c == Condition[job.class]
             u(x) == Scaled(Subtotal(x), Urgency(x), 4800)
             v(x) == Scaled(u(x), Scarcity(x), 25)
             w(x) == Scaled(v(x), c, 100)
  <2>1. u(job) \in Nat /\ u(other) \in Nat /\ u(job) <= u(other)
    BY <1>1, <1>3, <1>4, SubtotalType, FactorTypes, ScaledGrows
  <2>2. Uncapped(job) = Scaled(w(job), Reputed(job), 4000)
        /\ Uncapped(other) = Scaled(w(other), Reputed(other), 4000)
    BY <1>2 DEF Uncapped
  <2>5. c \in Nat
    BY FactorTypes
  <2> HIDE DEF u, c
  <2>3. v(job) \in Nat /\ v(other) \in Nat /\ v(job) <= v(other)
    BY <2>1, <1>1, <1>3, FactorTypes, ScaledGrows
  <2> HIDE DEF v
  <2>4. w(job) \in Nat /\ w(other) \in Nat /\ w(job) <= w(other)
    <3>1. c <= c /\ 100 \in {25, 100, 4000, 4800}
      BY <2>5
    <3>2. ASSUME NEW x \in Nat, NEW y \in Nat, x <= y
          PROVE  /\ Scaled(x, c, 100) \in Nat /\ Scaled(y, c, 100) \in Nat
                 /\ Scaled(x, c, 100) <= Scaled(y, c, 100)
      BY <2>5, <3>1, <3>2, ScaledGrows
    <3> QED  BY <2>3, <3>2
  <2> HIDE DEF w
  <2> QED  BY <2>2, <2>4, <1>1, <1>3, FactorTypes, ScaledGrows
<1>6. Capped(job) <= Capped(other) /\ Capped(job) \in Int /\ Capped(other) \in Int
  <2>1. job.value \in Nat
    BY DEF Job
  <2> QED  BY <2>1, <1>1, <1>2, <1>3, <1>5, UncappedType, SubtotalType
           DEF Capped, FreightCap, ValueCap, FreightMultiple, ValueShare, Smaller
<1>7. Total(other) >= Total(job)
  BY <1>3, <1>6, SubtotalType DEF Total, Floor, MarginFloor, Larger
<1> QED  BY <1>7 DEF other

-----------------------------------------------------------------------------
(* Lists.                                                                   *)

\* A list of a finite set without repetition has all of it.
LEMMA ListingIsComplete ==
  ASSUME NEW S, IsFiniteSet(S), NEW s \in [1 .. Cardinality(S) -> S],
         \A i, j \in DOMAIN s : i < j => s[i] # s[j]
  PROVE  \A x \in S : \E i \in 1 .. Cardinality(S) : s[i] = x
<1>1. Cardinality(S) \in Nat
  BY FS_CardinalityType
<1>2. s \in Injection(1 .. Cardinality(S), S)
  <2>1. ASSUME NEW i \in 1 .. Cardinality(S), NEW j \in 1 .. Cardinality(S), s[i] = s[j]
        PROVE  i = j
    <3>1. ~(i < j) /\ ~(j < i)
      BY <2>1
    <3> QED BY <1>1, <3>1
  <2> QED BY <2>1 DEF Injection, IsInjective
<1>3. Cardinality(1 .. Cardinality(S)) = Cardinality(S)
  BY <1>1, FS_Interval
<1>4. s \in Surjection(1 .. Cardinality(S), S)
  BY <1>2, <1>3, FS_Injection
<1> QED BY <1>4 DEF Surjection

\* The first of a list.
ListOf(S, n) == [1 .. n -> S]

LEMMA FirstElements ==
  \A S : \A n \in Nat : \A s \in ListOf(S, n) : \A k \in Nat :
    /\ FirstOf(s, k) \in Seq(S)
    /\ Len(FirstOf(s, k)) = Smaller(k, n)
    /\ \A i \in 1 .. Smaller(k, n) : FirstOf(s, k)[i] = s[i]
<1> SUFFICES ASSUME NEW S, NEW n \in Nat, NEW s \in ListOf(S, n), NEW k \in Nat
             PROVE  /\ FirstOf(s, k) \in Seq(S)
                    /\ Len(FirstOf(s, k)) = Smaller(k, n)
                    /\ \A i \in 1 .. Smaller(k, n) : FirstOf(s, k)[i] = s[i]
  OBVIOUS
<1>1. s \in Seq(S) /\ Len(s) = n
  BY DEF ListOf
<1>2. Smaller(k, n) \in Nat /\ Smaller(k, n) <= n
  BY DEF Smaller
<1>3. \A i \in 1 .. Smaller(k, n) : s[i] \in S
  BY <1>2 DEF ListOf
<1> QED BY <1>1, <1>2, <1>3, SubSeqProperties DEF FirstOf

-----------------------------------------------------------------------------
(* Induction and recursion.  That the numbers are well founded needs no     *)
(* operator as a parameter, and a set of numbers does as a hypothesis.      *)

LEMMA LeastNumber ==
  ASSUME NEW T, T \subseteq Nat, T # {}
  PROVE  \E n \in T : \A m \in T : n <= m
<1> DEFINE Less == {ss \in Nat \X Nat : ss[1] < ss[2]}
<1>1. IsWellFoundedOn(Less, Nat)
  BY NatLessThanWellFounded DEF OpToRel
<1> HIDE DEF Less
<1>2. PICK n \in T : \A m \in T : ~(<<m, n>> \in Less)
  BY <1>1, WFMin
<1>3. ASSUME NEW m \in T
      PROVE  n <= m
  <2>1. n \in Nat /\ m \in Nat /\ ~(m < n)
    BY <1>2 DEF Less
  <2> QED BY <2>1
<1> QED BY <1>3

\* What holds of 0 and is handed on holds up to n.
LEMMA UpTo ==
  ASSUME NEW n \in Nat, NEW G, 0 \in G, \A i \in 1 .. n : i - 1 \in G => i \in G
  PROVE  0 .. n \subseteq G
<1> DEFINE T == {i \in 0 .. n : i \notin G}
<1>1. ASSUME T # {}
      PROVE  FALSE
  <2>1. PICK i \in T : \A m \in T : i <= m
    <3>1. T \subseteq Nat
      OBVIOUS
    <3> HIDE DEF T
    <3> QED BY <1>1, <3>1, LeastNumber
  <2>2. i # 0 /\ i \in 1 .. n /\ i - 1 \in 0 .. n
    BY <2>1
  <2>3. i - 1 \notin T
    BY <2>1, <2>2
  <2> QED BY <2>1, <2>2, <2>3
<1> QED BY <1>1

\* Any first value and steps from value to value make a sequence of values.
StepsOn(n, S) == [1 .. n -> [S -> S]]

IsRun(f, n, S, base, step) ==
  /\ f \in [0 .. n -> S]
  /\ f[0] = base
  /\ \A i \in 1 .. n : f[i] = step[i][f[i - 1]]

LEMMA Iteration ==
  ASSUME NEW n \in Nat, NEW S, NEW base \in S, NEW step \in StepsOn(n, S)
  PROVE  \E f : IsRun(f, n, S, base, step)
<1> DEFINE G == {k \in 0 .. n : \E f : IsRun(f, k, S, base, step)}
<1>1. 0 \in G
  <2>1. IsRun([i \in 0 .. 0 |-> base], 0, S, base, step)
    BY DEF IsRun
  <2> QED BY <2>1
<1>2. ASSUME NEW k \in 1 .. n, k - 1 \in G
      PROVE  k \in G
  <2>1. PICK f : IsRun(f, k - 1, S, base, step)
    BY <1>2
  <2> DEFINE g == [i \in 0 .. k |-> IF i = k THEN step[k][f[k - 1]] ELSE f[i]]
  <2>2. f \in [0 .. k - 1 -> S] /\ f[0] = base
        /\ \A i \in 1 .. k - 1 : f[i] = step[i][f[i - 1]]
    BY <2>1 DEF IsRun
  <2>3. step[k][f[k - 1]] \in S
    BY <2>2 DEF StepsOn
  <2>4. g \in [0 .. k -> S] /\ g[0] = base
    BY <2>2, <2>3
  <2>5. ASSUME NEW i \in 1 .. k
        PROVE  g[i] = step[i][g[i - 1]]
    BY <2>2
  <2>6. IsRun(g, k, S, base, step)
    BY <2>4, <2>5 DEF IsRun
  <2> QED BY <2>6
<1>3. 0 .. n \subseteq G
  <2> HIDE DEF G
  <2> QED BY <1>1, <1>2, UpTo
<1> QED BY <1>3

-----------------------------------------------------------------------------
(* Sums.                                                                    *)

\* The running totals of a sequence.
IsRunning(t, w) ==
  /\ t \in [0 .. Len(w) -> Int]
  /\ t[0] = 0
  /\ \A i \in 1 .. Len(w) : t[i] = t[i - 1] + w[i]

LEMMA RunningExists ==
  ASSUME NEW w \in Seq(Int)
  PROVE  \E t : IsRunning(t, w)
<1> DEFINE step == [i \in 1 .. Len(w) |-> [x \in Int |-> x + w[i]]]
<1>1. step \in StepsOn(Len(w), Int) /\ Len(w) \in Nat /\ 0 \in Int
  BY DEF StepsOn
<1>2. PICK t : IsRun(t, Len(w), Int, 0, step)
  <2> HIDE DEF step
  <2> QED BY <1>1, Iteration
<1>3. t \in [0 .. Len(w) -> Int] /\ t[0] = 0
      /\ \A i \in 1 .. Len(w) : t[i] = step[i][t[i - 1]]
  <2> HIDE DEF step
  <2> QED BY <1>2 DEF IsRun
<1>4. ASSUME NEW i \in 1 .. Len(w)
      PROVE  t[i] = t[i - 1] + w[i]
  <2>1. i - 1 \in 0 .. Len(w)
    BY <1>1
  <2>2. t[i - 1] \in Int
    BY <1>3, <2>1
  <2> QED BY <1>3, <2>2
<1> QED BY <1>3, <1>4 DEF IsRunning

LEMMA RunningIsUnique ==
  ASSUME NEW w \in Seq(Int), NEW t, NEW u, IsRunning(t, w), IsRunning(u, w)
  PROVE  t[Len(w)] = u[Len(w)]
<1> DEFINE G == {i \in 0 .. Len(w) : t[i] = u[i]}
<1>1. 0 \in G /\ Len(w) \in Nat
  BY DEF IsRunning
<1>2. ASSUME NEW i \in 1 .. Len(w), i - 1 \in G
      PROVE  i \in G
  BY <1>2 DEF IsRunning
<1>3. 0 .. Len(w) \subseteq G
  <2> HIDE DEF G
  <2> QED BY <1>1, <1>2, UpTo
<1> QED BY <1>1, <1>3

\* The sum is the last running total.
LEMMA SummedIs ==
  ASSUME NEW w \in Seq(Int), NEW t, IsRunning(t, w)
  PROVE  Summed(w) = t[Len(w)]
<1> DEFINE Sums(f) == f = [i \in 0 .. Len(w) |-> IF i = 0 THEN 0 ELSE f[i - 1] + w[i]]
           sum == CHOOSE f : Sums(f)
<1>1. Summed(w) = sum[Len(w)]
  BY DEF Summed
<1>2. Sums(t)
  <2>1. t = [i \in 0 .. Len(w) |-> t[i]]
    BY DEF IsRunning
  <2>2. \A i \in 0 .. Len(w) : t[i] = IF i = 0 THEN 0 ELSE t[i - 1] + w[i]
    BY DEF IsRunning
  <2> QED BY <2>1, <2>2
<1>3. Sums(sum)
  <2> HIDE DEF Sums
  <2> QED BY <1>2
<1> HIDE DEF sum
<1>4. IsRunning(sum, w)
  <2>1. DOMAIN sum = 0 .. Len(w) /\ sum[0] = 0 /\ Len(w) \in Nat
    BY <1>3
  <2>2. ASSUME NEW i \in 1 .. Len(w)
        PROVE  sum[i] = sum[i - 1] + w[i]
    <3>1. i \in 0 .. Len(w) /\ i # 0
      BY <2>1
    <3> QED BY <1>3, <3>1
  <2> DEFINE G == {i \in 0 .. Len(w) : sum[i] \in Int}
  <2>3. 0 \in G
    BY <2>1
  <2>4. ASSUME NEW i \in 1 .. Len(w), i - 1 \in G
        PROVE  i \in G
    BY <2>2, <2>4
  <2>5. 0 .. Len(w) \subseteq G
    <3> HIDE DEF G
    <3> QED BY <2>1, <2>3, <2>4, UpTo
  <2>6. sum = [i \in 0 .. Len(w) |-> sum[i]]
    BY <1>3
  <2>7. sum \in [0 .. Len(w) -> Int]
    BY <2>5, <2>6
  <2> QED BY <2>1, <2>2, <2>7 DEF IsRunning
<1> QED BY <1>1, <1>4, RunningIsUnique

LEMMA SummedType ==
  ASSUME NEW w \in Seq(Int)
  PROVE  Summed(w) \in Int
<1>1. PICK t : IsRunning(t, w)
  BY RunningExists
<1>2. t[Len(w)] \in Int
  BY <1>1 DEF IsRunning
<1> QED BY <1>1, <1>2, SummedIs

LEMMA SummedEmpty == Summed(<<>>) = 0
<1> DEFINE t == [i \in 0 .. 0 |-> 0]
<1>1. IsRunning(t, <<>>) /\ <<>> \in Seq(Int) /\ Len(<<>>) = 0
  BY DEF IsRunning
<1> QED BY <1>1, SummedIs

LEMMA SummedAppend ==
  ASSUME NEW w \in Seq(Int), NEW v \in Int
  PROVE  Summed(Append(w, v)) = Summed(w) + v
<1>1. PICK t : IsRunning(t, w)
  BY RunningExists
<1> DEFINE n == Len(w)
           u == [i \in 0 .. n + 1 |-> IF i = n + 1 THEN t[n] + v ELSE t[i]]
<1>2. /\ Append(w, v) \in Seq(Int) /\ Len(Append(w, v)) = n + 1 /\ n \in Nat
      /\ Append(w, v)[n + 1] = v /\ \A i \in 1 .. n : Append(w, v)[i] = w[i]
  BY AppendProperties
<1>3. IsRunning(u, Append(w, v))
  <2>1. t \in [0 .. n -> Int]
    BY <1>1 DEF IsRunning
  <2>2. u \in [0 .. n + 1 -> Int]
    BY <1>2, <2>1
  <2>3. ASSUME NEW i \in 1 .. n + 1
        PROVE  u[i] = u[i - 1] + Append(w, v)[i]
    <3>1. CASE i = n + 1
      BY <1>2, <3>1
    <3>2. CASE i # n + 1
      <4>1. i \in 1 .. n
        BY <1>2, <3>2
      <4>2. t[i] = t[i - 1] + w[i]
        BY <1>1, <4>1 DEF IsRunning
      <4> QED BY <1>2, <4>1, <4>2
    <3> QED BY <3>1, <3>2
  <2>4. u[0] = 0
    BY <1>1, <1>2 DEF IsRunning
  <2> QED BY <1>2, <2>2, <2>3, <2>4 DEF IsRunning
<1>4. Summed(Append(w, v)) = u[n + 1]
  <2> HIDE DEF u
  <2> QED BY <1>2, <1>3, SummedIs
<1>5. Summed(w) = t[n]
  BY <1>1, SummedIs
<1> QED BY <1>2, <1>4, <1>5

\* One element more by d makes the sum more by d.
LEMMA SummedChanged ==
  ASSUME NEW w \in Seq(Int), NEW k \in 1 .. Len(w), NEW d \in Int,
         NEW x \in Seq(Int), Len(x) = Len(w), x[k] = w[k] + d,
         \A i \in 1 .. Len(w) : i # k => x[i] = w[i]
  PROVE  Summed(x) = Summed(w) + d
<1>1. PICK t : IsRunning(t, w)
  BY RunningExists
<1> DEFINE u == [i \in 0 .. Len(x) |-> IF i < k THEN t[i] ELSE t[i] + d]
<1>2. IsRunning(u, x)
  <2> DEFINE n == Len(w)
  <2>1. n \in Nat /\ t \in [0 .. n -> Int] /\ t[0] = 0 /\ w \in [1 .. n -> Int] /\ k \in 1 .. n
    BY <1>1 DEF IsRunning
  <2>2. /\ u = [i \in 0 .. n |-> IF i < k THEN t[i] ELSE t[i] + d]
        /\ \A i \in 1 .. n : t[i] = t[i - 1] + w[i]
        /\ \A i \in 1 .. n : x[i] = IF i = k THEN w[i] + d ELSE w[i]
    BY <1>1 DEF IsRunning
  <2> HIDE DEF u, n
  <2>3. u \in [0 .. n -> Int] /\ u[0] = 0
    <3>1. \A i \in 0 .. n : t[i] \in Int /\ (IF i < k THEN t[i] ELSE t[i] + d) \in Int
      BY <2>1
    <3>2. u \in [0 .. n -> Int]
      BY <2>2, <3>1
    <3>3. u[0] = t[0]
      BY <2>1, <2>2
    <3> QED BY <2>1, <3>2, <3>3
  <2>4. ASSUME NEW i \in 1 .. n
        PROVE  u[i] = u[i - 1] + x[i]
    <3>1. i \in 0 .. n /\ i - 1 \in 0 .. n /\ i - 1 \in Int /\ i \in Int
      BY <2>1
    <3>2. t[i] = t[i - 1] + w[i] /\ t[i - 1] \in Int /\ w[i] \in Int
      BY <2>1, <2>2, <3>1
    <3>3. /\ u[i] = IF i < k THEN t[i] ELSE t[i] + d
          /\ u[i - 1] = IF i - 1 < k THEN t[i - 1] ELSE t[i - 1] + d
      BY <2>2, <3>1
    <3>4. x[i] = IF i = k THEN w[i] + d ELSE w[i]
      BY <2>2
    <3>5. CASE i < k
      BY <2>1, <3>1, <3>2, <3>3, <3>4, <3>5
    <3>6. CASE i = k
      BY <2>1, <3>1, <3>2, <3>3, <3>4, <3>6
    <3>7. CASE i > k
      BY <2>1, <3>1, <3>2, <3>3, <3>4, <3>7
    <3> QED BY <2>1, <3>1, <3>5, <3>6, <3>7
  <2> QED BY <2>3, <2>4 DEF IsRunning, n
<1>3. Summed(x) = u[Len(x)] /\ Summed(w) = t[Len(w)]
  <2> HIDE DEF u
  <2> QED BY <1>1, <1>2, SummedIs
<1> QED BY <1>3

-----------------------------------------------------------------------------
(* A carrier's record.                                                      *)

\* A quotient is bounded by what its dividend is bounded by.
LEMMA QuotientBound ==
  ASSUME NEW s \in Nat, NEW r \in Nat \ {0}, s <= 5 * r
  PROVE  (60 * s) \div r \in Nat /\ (60 * s) \div r <= 300
<1> DEFINE q == (60 * s) \div r
<1>1. q \in Int /\ q * r <= 60 * s /\ 60 * s < q * r + r
  OBVIOUS
<1> HIDE DEF q
<1>2. ASSUME q >= 301
      PROVE  FALSE
  <2>1. q * r = 301 * r + (q - 301) * r
    BY <1>1
  <2>2. (q - 301) * r >= 0
    BY <1>1, <1>2, ProductOfNats
  <2> QED BY <1>1, <2>1, <2>2
<1>3. ASSUME q <= -1
      PROVE  FALSE
  <2>1. q * r + r = -((-1 - q) * r)
    BY <1>1
  <2>2. (-1 - q) * r >= 0
    BY <1>1, <1>3, ProductOfNats
  <2> QED BY <1>1, <2>1, <2>2
<1> QED BY <1>1, <1>2, <1>3 DEF q

LEMMA RecordFields ==
  ASSUME NEW p \in Record
  PROVE  /\ p.received \in Nat /\ p.accepted \in Nat /\ p.expired \in Nat /\ p.bound \in Nat
         /\ p.cancelled \in Nat /\ p.ratings \in Nat /\ p.stars \in Nat /\ p.quick \in BOOLEAN
         /\ p.stars <= 5 * p.ratings
BY DEF Record, Counts

\* The events that change a record leave it one.
LEMMA EventTypes ==
  ASSUME NEW p \in Record
  PROVE  /\ Received(p) \in Record /\ Accepted(p) \in Record /\ Expired(p) \in Record
         /\ Bound(p) \in Record
         /\ p.bound > 0 => Abandoned(p) \in Record
<1>1. p \in Counts
  BY DEF Record
<1>2. /\ Received(p) \in Counts /\ Accepted(p) \in Counts /\ Expired(p) \in Counts
      /\ Bound(p) \in Counts
      /\ p.bound > 0 => Abandoned(p) \in Counts
  <2>1. \A n \in Nat : /\ [p EXCEPT !.received = n] \in Counts
                        /\ [p EXCEPT !.accepted = n] \in Counts
                        /\ [p EXCEPT !.expired = n] \in Counts
                        /\ [p EXCEPT !.bound = n] \in Counts
    BY <1>1 DEF Counts
  <2>2. \A m, n \in Nat : [p EXCEPT !.bound = m, !.cancelled = n] \in Counts
    BY <1>1 DEF Counts
  <2>3. /\ p.received + 1 \in Nat /\ p.accepted + 1 \in Nat /\ p.expired + 1 \in Nat
        /\ p.bound + 1 \in Nat /\ p.cancelled + 1 \in Nat
        /\ p.bound > 0 => p.bound - 1 \in Nat
    BY RecordFields
  <2> QED BY <2>1, <2>2, <2>3, Zenon DEF Received, Accepted, Expired, Bound, Abandoned
<1>3. \A q \in {Received(p), Accepted(p), Expired(p), Bound(p), Abandoned(p)} :
        q.stars = p.stars /\ q.ratings = p.ratings
  BY <1>1 DEF Received, Accepted, Expired, Bound, Abandoned, Counts
<1> HIDE DEF Received, Accepted, Expired, Bound, Abandoned
<1>4. \A q \in Counts : q.stars = p.stars /\ q.ratings = p.ratings => q \in Record
  BY RecordFields DEF Record
<1> QED BY <1>2, <1>3, <1>4

\* What a past earns, gains and loses is bounded.
LEMMA EarnedBound ==
  ASSUME NEW p \in Record
  PROVE  /\ Earned(p) \in Int /\ Earned(p) <= 280
         /\ Availability(p) \in Int /\ Availability(p) <= 50
         /\ Penalties(p) \in Nat
<1> DEFINE stars == IF p.ratings = 0 THEN 0 ELSE (60 * p.stars) \div p.ratings - 180
<1>1. stars \in Int /\ stars <= 120
  <2>1. CASE p.ratings = 0
    BY <2>1
  <2>2. CASE p.ratings # 0
    BY <2>2, RecordFields, QuotientBound
  <2> QED BY <2>1, <2>2
<1>2. Earned(p) = AtMost(120, 6 * p.bound) + stars
                    + (IF p.quick /\ p.accepted >= 3 THEN 40 ELSE 0)
  BY DEF Earned
<1> HIDE DEF stars
<1>3. Earned(p) \in Int /\ Earned(p) <= 280
  BY <1>1, <1>2, RecordFields DEF AtMost
<1>4. Availability(p) \in Int /\ Availability(p) <= 50
  BY DEF Availability
<1>5. Penalties(p) \in Nat
  BY RecordFields DEF Penalties, AtMost
<1> QED BY <1>3, <1>4, <1>5

LEMMA ScoreBound ==
  ASSUME NEW p \in Record
  PROVE  ScoreOf(p) \in 0 .. 1000
BY EarnedBound DEF ScoreOf, Clamped, Baseline

\* Giving up a bound rescue costs more than the rescue had earned above the best score.
LEMMA AbandoningCosts ==
  ASSUME NEW p \in Record, p.bound >= 2 \/ (p.bound = 1 /\ p.ratings > 0)
  PROVE  /\ ScoreOf(Abandoned(p)) \in 0 .. 1000 /\ ScoreOf(p) \in 0 .. 1000
         /\ ScoreOf(Abandoned(p)) + 10 <= ScoreOf(p) \/ ScoreOf(Abandoned(p)) = 0
<1> DEFINE q == Abandoned(p)
<1>1. /\ q.received = p.received /\ q.accepted = p.accepted /\ q.expired = p.expired
      /\ q.bound = p.bound - 1 /\ q.cancelled = p.cancelled + 1
      /\ q.ratings = p.ratings /\ q.stars = p.stars /\ q.quick = p.quick
  BY DEF Abandoned, Record, Counts
<1>2. q \in Record
  <2>1. p.bound > 0
    BY RecordFields
  <2>2. p.bound > 0 => Abandoned(p) \in Record
    BY EventTypes, Zenon
  <2> QED BY <2>1, <2>2
<1> HIDE DEF q
<1>3. ~IsNew(p) /\ ~IsNew(q)
  BY <1>1, RecordFields DEF IsNew
<1>4. Earned(q) <= Earned(p)
  <2> DEFINE stars == IF p.ratings = 0 THEN 0 ELSE (60 * p.stars) \div p.ratings - 180
  <2>1. stars \in Int
    <3>1. CASE p.ratings = 0
      BY <3>1
    <3>2. CASE p.ratings # 0
      BY <3>2, RecordFields, QuotientBound
    <3> QED BY <3>1, <3>2
  <2>2. /\ Earned(p) = AtMost(120, 6 * p.bound) + stars
                         + (IF p.quick /\ p.accepted >= 3 THEN 40 ELSE 0)
        /\ Earned(q) = AtMost(120, 6 * (p.bound - 1)) + stars
                         + (IF p.quick /\ p.accepted >= 3 THEN 40 ELSE 0)
    BY <1>1 DEF Earned
  <2> HIDE DEF stars
  <2>3. AtMost(120, 6 * (p.bound - 1)) <= AtMost(120, 6 * p.bound)
        /\ AtMost(120, 6 * (p.bound - 1)) \in Int /\ AtMost(120, 6 * p.bound) \in Int
    BY RecordFields DEF AtMost
  <2> QED BY <2>1, <2>2, <2>3
<1>5. Availability(q) = Availability(p)
  BY <1>1 DEF Availability
<1>6. Penalties(q) = Penalties(p) + 90
  BY <1>1, RecordFields DEF Penalties, AtMost
<1> DEFINE raw(x) == Baseline + Earned(x) + Availability(x) - Penalties(x)
<1>7. /\ raw(p) \in Int /\ raw(q) \in Int /\ raw(p) <= 1080 /\ raw(q) <= raw(p) - 90
  BY <1>2, <1>4, <1>5, <1>6, EarnedBound DEF Baseline
<1>8. ScoreOf(p) = Clamped(raw(p)) /\ ScoreOf(q) = Clamped(raw(q))
  BY <1>3 DEF ScoreOf
<1> HIDE DEF raw
<1>9. /\ ScoreOf(q) \in 0 .. 1000 /\ ScoreOf(p) \in 0 .. 1000
      /\ ScoreOf(q) + 10 <= ScoreOf(p) \/ ScoreOf(q) = 0
  BY <1>7, <1>8 DEF Clamped
<1> QED BY <1>9 DEF q

-----------------------------------------------------------------------------
(* The fleet, the case and the names keep their types while a question is   *)
(* open.                                                                    *)

CaseTypes ==
  /\ fleet \in [Truck -> TruckRow(Company)]
  /\ load \in Consignment
  /\ minutes \in Int
  /\ past \in [Company -> Record]
  /\ row \in [Company -> Record \cup {NoRow}]

\* A candidate as it was found, before the road service was asked.
Seen == [truck : TruckRow(Company), away : Nat, trust : Int, accepts : Int]

DeskTypes ==
  /\ "at" \in DOMAIN desk
  /\ desk.at = "FOUND" => desk.raw \in Seq(Seen)
  /\ desk.at = "RANKED" => \A i \in DOMAIN desk.ranked : desk.ranked[i].job \in Job

LEMMA CaseStep == CaseTypes /\ [Next]_vars => CaseTypes'
<1> SUFFICES ASSUME CaseTypes, [Next]_vars
             PROVE  CaseTypes'
  OBVIOUS
<1>1. ASSUME UNCHANGED <<fleet, case, past, row>>
      PROVE  CaseTypes'
  BY <1>1 DEF CaseTypes, case
<1>2. ASSUME UNCHANGED <<load, minutes, past, row>>, NEW t \in Truck,
             \/ fleet' = [fleet EXCEPT ![t].idle = ~fleet[t].idle]
             \/ fleet' = [fleet EXCEPT ![t].fresh = FALSE]
      PROVE  CaseTypes'
  <2>1. fleet' \in [Truck -> TruckRow(Company)]
    <3>1. \A x \in TruckRow(Company) : /\ [x EXCEPT !.idle = ~x.idle] \in TruckRow(Company)
                                       /\ [x EXCEPT !.fresh = FALSE] \in TruckRow(Company)
      BY DEF TruckRow
    <3>2. \/ fleet' = [fleet EXCEPT ![t] = [fleet[t] EXCEPT !.idle = ~fleet[t].idle]]
          \/ fleet' = [fleet EXCEPT ![t] = [fleet[t] EXCEPT !.fresh = FALSE]]
      BY <1>2
    <3>3. fleet[t] \in TruckRow(Company)
      BY DEF CaseTypes
    <3> QED BY <3>1, <3>2, <3>3, Zenon DEF CaseTypes
  <2> QED BY <1>2, <2>1 DEF CaseTypes
<1>3. ASSUME NEW c \in Company, OfferEvent(c)
      PROVE  CaseTypes'
  <2>1. PICK new \in Record : Happens(c, new)
    BY <1>3, EventTypes DEF OfferEvent, CaseTypes
  <2> QED BY <2>1 DEF Happens, CaseTypes, case
<1>4. ASSUME NEW c \in Company, LookUp(c)
      PROVE  CaseTypes'
  <2>1. past[c] \in Record
    BY DEF CaseTypes
  <2>2. /\ fleet' = fleet /\ load' = load /\ minutes' = minutes /\ past' = past
        /\ row' = [row EXCEPT ![c] = past[c]]
    BY <1>4 DEF LookUp, case
  <2>3. row' \in [Company -> Record \cup {NoRow}]
    <3>1. row \in [Company -> Record \cup {NoRow}]
      BY DEF CaseTypes
    <3> QED BY <2>1, <2>2, <3>1
  <2> QED BY <2>2, <2>3, Zenon DEF CaseTypes
<1>5. CASE Search \/ Rank \/ AskSplit \/ Divide \/ AskRelay \/ Turn \/ Answered
  <2>1. UNCHANGED <<fleet, case, names>>
    BY <1>5 DEF Search, Rank, AskSplit, Divide, AskRelay, Turn, Answered
  <2> QED BY <1>1, <2>1 DEF names
<1>6. ASSUME NEW f \in Facility, CommitRelay(f)
      PROVE  CaseTypes'
  BY <1>6 DEF CommitRelay, CaseTypes, names
<1>7. ASSUME NEW t \in Truck, AskRoute(t) \/ TakeOrFree(t) \/ Ages(t)
      PROVE  CaseTypes'
  BY <1>1, <1>2, <1>7 DEF AskRoute, TakeOrFree, Ages, case, names
<1>8. CASE UNCHANGED vars
  BY <1>1, <1>8 DEF vars, case
<1> QED BY <1>3, <1>4, <1>5, <1>6, <1>7, <1>8 DEF Next

LEMMA CaseInvariant == Spec => []CaseTypes
<1>1. Init => CaseTypes
  BY PlanningAssumption DEF Init, CaseTypes, Unknown
<1> QED BY <1>1, CaseStep, PTL DEF Spec

-----------------------------------------------------------------------------
(* What a candidate is priced for is a job, whatever the road service says. *)

\* Where a truck is thought to be, and how far that is.
LEMMA AwayType ==
  ASSUME NEW truck \in TruckRow(Company)
  PROVE  Away(truck, Spot) \in Nat
<1>1. truck.home \in Place /\ truck.fix \in Place \cup {Nowhere}
  BY DEF TruckRow
<1>2. Whereabouts(truck) \in Place
  BY <1>1 DEF Whereabouts
<1> QED BY <1>2, PlanningAssumption, MatchingAssumption DEF Away

LEMMA NamesTypes ==
  ASSUME NEW r \in Record \cup {NoRow}
  PROVE  TrustOf(r) \in Int /\ AcceptsOf(r) \in Int
<1>1. CASE r = NoRow
  BY <1>1 DEF TrustOf, AcceptsOf
<1>2. CASE r # NoRow
  <2>1. r \in Record /\ ScoreOf(r) \in Int
    BY <1>2, ScoreBound
  <2>2. r.received \in Nat /\ r.accepted \in Nat
    BY <2>1, RecordFields
  <2>3. r.received # 0 => (100 * r.accepted) \div r.received \in Int
    BY <2>2
  <2> QED BY <1>2, <2>1, <2>2, <2>3 DEF TrustOf, AcceptsOf
<1> QED BY <1>1, <1>2

\* The rows of a search are trucks of the fleet, those that suit it.
LEMMA FoundSuited ==
  ASSUME CaseTypes, NEW whole \in BOOLEAN, NEW limit \in Nat, NEW raw \in Found(whole, limit)
  PROVE  raw \in Seq(Suited(fleet, Stranded, load, Spot, Radius, whole))
<1> DEFINE S == Suited(fleet, Stranded, load, Spot, Radius, whole)
<1>1. S \subseteq Truck
  BY DEF Suited, CaseTypes
<1>2. Cardinality(S) \in Nat
  BY <1>1, PlanningAssumption, FS_Subset, FS_CardinalityType
<1> HIDE DEF S
<1>3. PICK s \in [1 .. Cardinality(S) -> S] : raw = FirstOf(s, limit)
  BY DEF Found, Candidates, Listings, S
<1>4. raw \in Seq(S)
  <2>1. s \in ListOf(S, Cardinality(S))
    BY <1>3 DEF ListOf
  <2> QED BY <1>2, <1>3, <2>1, FirstElements, Zenon
<1> QED BY <1>4 DEF S

LEMMA FoundTrucks ==
  ASSUME CaseTypes, NEW whole \in BOOLEAN, NEW limit \in Nat, NEW raw \in Found(whole, limit)
  PROVE  raw \in Seq(Truck)
<1> DEFINE S == Suited(fleet, Stranded, load, Spot, Radius, whole)
<1>1. S \subseteq Truck
  BY DEF Suited, CaseTypes
<1>2. raw \in Seq(S)
  BY FoundSuited
<1> HIDE DEF S
<1> QED BY <1>1, <1>2

\* The estimate of the road, and the road itself, are in whole kilometres.
LEMMA RoadType ==
  ASSUME NEW km \in Nat
  PROVE  /\ Fallback(km).km \in Nat
         /\ ByRoad(km, 10).km \in Nat /\ ByRoad(km, 20).km \in Nat
<1>1. /\ (km * 13 + 10 \div 2) \div 10 \in Nat
      /\ (km * 10 + 10 \div 2) \div 10 \in Nat
      /\ (km * 20 + 10 \div 2) \div 10 \in Nat
  OBVIOUS
<1> QED BY <1>1 DEF Fallback, ByRoad, Scaled

LEMMA JobType ==
  ASSUME NEW road, road.km \in Nat, load \in Consignment, minutes \in Int,
         NEW rivals \in Nat, NEW trust \in Int
  PROVE  JobOf(load, road, minutes, rivals, trust) \in Job
<1>1. CargoClass(load.cold, load.hazmat) \in DOMAIN Rate
  <2>1. load.cold \in BOOLEAN /\ load.hazmat \in BOOLEAN
    BY DEF Consignment
  <2> QED BY <2>1 DEF CargoClass, Rate
<1>2. load.volume \in Nat /\ load.weight \in Nat /\ load.value \in Nat
  BY DEF Consignment
<1> QED BY <1>1, <1>2 DEF JobOf, Job

LEMMA RankedJobs ==
  ASSUME CaseTypes, DeskTypes, Rank
  PROVE  /\ "at" \in DOMAIN desk' /\ desk'.at = "RANKED"
         /\ \A i \in DOMAIN desk'.ranked : desk'.ranked[i].job \in Job
<1> DEFINE way(road, i) == CASE road[i] = "unreached" -> Fallback(desk.raw[i].away)
                             [] road[i] = "straight"  -> ByRoad(desk.raw[i].away, 10)
                             [] OTHER                 -> ByRoad(desk.raw[i].away, 20)
           rated(road) == [i \in DOMAIN desk.raw |->
                             Rated(desk.raw[i], way(road, i), Len(desk.raw))]
<1>1. desk.raw \in Seq(Seen) /\ Len(desk.raw) \in Nat
  BY DEF Rank, DeskTypes
<1>2. PICK road \in [DOMAIN desk.raw -> {"unreached", "straight", "winding"}] :
        \E ranked \in Ranking(rated(road)) : desk' = [at |-> "RANKED", ranked |-> ranked]
  BY Zenon DEF Rank
<1>3. PICK ranked \in Ranking(rated(road)) : desk' = [at |-> "RANKED", ranked |-> ranked]
  BY <1>2
<1>4. ASSUME NEW i \in DOMAIN desk.raw
      PROVE  rated(road)[i].job \in Job
  <2>1. desk.raw[i] \in Seen
    BY <1>1
  <2>2. desk.raw[i].away \in Nat /\ desk.raw[i].trust \in Int
    BY <2>1 DEF Seen
  <2>3. way(road, i).km \in Nat
    BY <2>2, RoadType, Zenon
  <2>4. rated(road)[i].job
          = JobOf(load, way(road, i), minutes, Len(desk.raw), desk.raw[i].trust)
    BY DEF Rated
  <2> QED BY <1>1, <2>2, <2>3, <2>4, JobType DEF CaseTypes
<1>5. DOMAIN rated(road) = DOMAIN desk.raw
  OBVIOUS
<1> HIDE DEF rated
<1>6. PICK order \in [1 .. Cardinality(DOMAIN rated(road)) -> DOMAIN rated(road)] :
        ranked = [i \in DOMAIN order |-> rated(road)[order[i]]]
  BY <1>3 DEF Ranking, Listings
<1> QED BY <1>3, <1>4, <1>5, <1>6

\* A search lists candidates as they were found.
LEMMA SearchFinds ==
  ASSUME CaseTypes, Search
  PROVE  /\ "at" \in DOMAIN desk' /\ desk'.at \in {"NOMATCH", "FOUND"}
         /\ desk'.at = "FOUND" => desk'.raw \in Seq(Seen)
<1>1. PICK raw \in Found(TRUE, Limit) :
        desk' = IF raw = <<>>
                THEN [at |-> "NOMATCH", why |-> NoMatch(fleet, load, Spot, Radius)]
                ELSE [at |-> "FOUND",
                 raw |-> [i \in DOMAIN raw |->
                            [truck |-> fleet[raw[i]], away |-> Away(fleet[raw[i]], Spot),
                             trust |-> TrustOf(row[fleet[raw[i]].company]),
                             accepts |-> AcceptsOf(row[fleet[raw[i]].company])]]]
  BY Zenon DEF Search
<1>2. raw \in Seq(Truck)
  BY PlanningAssumption, FoundTrucks
<1> DEFINE listed == [i \in DOMAIN raw |->
                        [truck |-> fleet[raw[i]], away |-> Away(fleet[raw[i]], Spot),
                         trust |-> TrustOf(row[fleet[raw[i]].company]),
                         accepts |-> AcceptsOf(row[fleet[raw[i]].company])]]
<1>3. ASSUME NEW i \in DOMAIN raw
      PROVE  listed[i] \in Seen
  <2>1. raw[i] \in Truck
    BY <1>2
  <2>2. fleet[raw[i]] \in TruckRow(Company)
    BY <2>1 DEF CaseTypes
  <2>3. fleet[raw[i]].company \in Company
    BY <2>2 DEF TruckRow
  <2>4. row[fleet[raw[i]].company] \in Record \cup {NoRow}
    BY <2>3 DEF CaseTypes
  <2> DEFINE truck == fleet[raw[i]]
             known == row[fleet[raw[i]].company]
  <2>5. truck \in TruckRow(Company) /\ known \in Record \cup {NoRow}
    BY <2>2, <2>4
  <2>6. listed[i] = [truck |-> truck, away |-> Away(truck, Spot),
                     trust |-> TrustOf(known), accepts |-> AcceptsOf(known)]
    OBVIOUS
  <2> HIDE DEF listed, truck, known
  <2>7. Away(truck, Spot) \in Nat /\ TrustOf(known) \in Int /\ AcceptsOf(known) \in Int
    BY <2>5, AwayType, NamesTypes
  <2> QED BY <2>5, <2>6, <2>7 DEF Seen
<1>4. listed \in Seq(Seen)
  <2>1. DOMAIN listed = DOMAIN raw /\ DOMAIN raw = 1 .. Len(raw) /\ Len(raw) \in Nat
    BY <1>2
  <2>2. listed = [i \in 1 .. Len(raw) |-> listed[i]]
    BY <2>1
  <2> HIDE DEF listed
  <2>3. listed \in [1 .. Len(raw) -> Seen]
    BY <1>3, <2>1, <2>2
  <2> QED BY <2>1, <2>3
<1>5. desk' = IF raw = <<>>
              THEN [at |-> "NOMATCH", why |-> NoMatch(fleet, load, Spot, Radius)]
              ELSE [at |-> "FOUND", raw |-> listed]
  BY <1>1
<1> HIDE DEF listed
<1> QED BY <1>4, <1>5

\* The other steps of the desk neither find nor rank.
LEMMA OtherQuestions ==
  ASSUME DeskTypes,
         \/ AskSplit \/ Divide \/ AskRelay \/ Turn \/ Answered
         \/ \E t \in Truck : AskRoute(t)
  PROVE  /\ "at" \in DOMAIN desk' /\ desk'.at \notin {"FOUND", "RANKED"}
         /\ desk'.at = "RELAY" => AskRelay
         /\ desk'.at = "SPLIT" => Divide
         /\ desk'.at \in {"ROUTING", "ROUTED"} => Turn \/ \E t \in Truck : AskRoute(t)
<1>1. CASE AskSplit
  <2>1. \E b : desk' = [at |-> "WHOLE", single |-> b]
    BY <1>1, Zenon DEF AskSplit
  <2> QED BY <2>1
<1>2. CASE Divide
  <2>1. \E a, b, c, d : desk' = [at |-> "SPLIT", required |-> a, legs |-> b,
                                 trucks |-> c, short |-> d]
    BY <1>2, Zenon DEF Divide
  <2> QED BY <1>2, <2>1
<1>3. CASE AskRelay
  <2>1. \E options : desk' = [at |-> "RELAY", options |-> options]
    BY <1>3, Zenon DEF AskRelay
  <2> QED BY <1>3, <2>1
<1>4. CASE Turn
  <2>1. desk' \in Turns(desk) /\ desk.at = "ROUTING" /\ "at" \in DOMAIN desk
    BY <1>4 DEF Turn, DeskTypes
  <2>2. ASSUME NEW entry
        PROVE  LET to == Popped(desk, entry)
               IN  "at" \in DOMAIN to /\ to.at \in {"ROUTED", "ROUTING"}
    BY <2>1 DEF Popped, Arrived, Continued
  <2>3. desk' = Nowise(desk) \/ \E entry : desk' = Popped(desk, entry)
    BY <2>1, Zenon DEF Turns
  <2>4. "at" \in DOMAIN desk' /\ desk'.at \in {"ROUTED", "ROUTING"}
    <3>1. CASE desk' = Nowise(desk)
      BY <3>1 DEF Nowise, Arrived
    <3>2. ASSUME NEW entry, desk' = Popped(desk, entry)
          PROVE  "at" \in DOMAIN desk' /\ desk'.at \in {"ROUTED", "ROUTING"}
      BY <2>2, <3>2
    <3> QED BY <2>3, <3>1, <3>2
  <2> QED BY <1>4, <2>4
<1>5. CASE Answered
  BY <1>5 DEF Answered, Idle
<1>6. ASSUME NEW t \in Truck, AskRoute(t)
      PROVE  "at" \in DOMAIN desk' /\ desk'.at = "ROUTING"
  <2>1. \E a, b, c, d : desk' = [at |-> "ROUTING", to |-> a, edges |-> b, heap |-> c, best |-> d]
    BY <1>6, Zenon DEF AskRoute, Setting
  <2> QED BY <2>1
<1> QED BY <1>1, <1>2, <1>3, <1>4, <1>5, <1>6

\* The load and its deadline are what they were.
LEMMA LoadStays ==
  ASSUME [Next]_vars
  PROVE  UNCHANGED <<load, minutes>>
<1>1. CASE Search \/ Rank \/ AskSplit \/ Divide \/ AskRelay \/ Turn \/ Answered
  BY <1>1 DEF Search, Rank, AskSplit, Divide, AskRelay, Turn, Answered, case
<1>2. CASE ~(Search \/ Rank \/ AskSplit \/ Divide \/ AskRelay \/ Turn \/ Answered)
  BY <1>2 DEF Next, vars, CommitRelay, AskRoute, TakeOrFree, Ages, OfferEvent,
              Happens, LookUp, case
<1> QED BY <1>1, <1>2

\* The steps that are no question leave the desk alone.
LEMMA Elsewhere ==
  ASSUME \/ \E f \in Facility : CommitRelay(f)
         \/ \E t \in Truck : TakeOrFree(t) \/ Ages(t)
         \/ \E c \in Company : OfferEvent(c) \/ LookUp(c)
         \/ UNCHANGED vars
  PROVE  UNCHANGED desk
BY DEF CommitRelay, TakeOrFree, Ages, OfferEvent, Happens, LookUp, vars

LEMMA DeskStep == CaseTypes /\ DeskTypes /\ [Next]_vars => DeskTypes'
<1> SUFFICES ASSUME CaseTypes, DeskTypes, [Next]_vars
             PROVE  DeskTypes'
  OBVIOUS
<1>1. CASE Search
  BY <1>1, SearchFinds DEF DeskTypes
<1>2. CASE Rank
  BY <1>2, RankedJobs DEF DeskTypes
<1>3. CASE \/ AskSplit \/ Divide \/ AskRelay \/ Turn \/ Answered
           \/ \E t \in Truck : AskRoute(t)
  BY <1>3, OtherQuestions DEF DeskTypes
<1>4. CASE UNCHANGED desk
  BY <1>4 DEF DeskTypes
<1>5. ASSUME \/ \E f \in Facility : CommitRelay(f)
             \/ \E t \in Truck : TakeOrFree(t) \/ Ages(t)
             \/ \E c \in Company : OfferEvent(c) \/ LookUp(c)
             \/ UNCHANGED vars
      PROVE  UNCHANGED desk
  BY <1>5, Elsewhere
<1> QED BY <1>1, <1>2, <1>3, <1>4, <1>5 DEF Next

LEMMA DeskInvariant == Spec => [](CaseTypes /\ DeskTypes)
<1>1. Init => DeskTypes
  BY DEF Init, DeskTypes, Idle
<1> QED BY <1>1, DeskStep, CaseInvariant, PTL DEF Spec

LEMMA JobsAreJobs ==
  ASSUME DeskTypes, NEW job \in Jobs
  PROVE  job \in Job
BY DEF Jobs, DeskTypes

\* Every carrier that is shown to an owner would be paid for its run, whatever fleet,
\* load and road, and whatever the caps of the policy take away.
THEOREM PayAlwaysCovers == Spec => []PayCoversTheRun
<1>1. DeskTypes => PayCoversTheRun
  BY JobsAreJobs, EveryRunIsCovered DEF PayCoversTheRun
<1> QED BY <1>1, DeskInvariant, PTL

\* Of what is on the desk, no offer would be cheaper in a greater hurry.
THEOREM HurryAlwaysCosts == Spec => []HurryNeverCheapens
<1>1. ASSUME DeskTypes
      PROVE  HurryNeverCheapens
  <2> SUFFICES ASSUME NEW job \in Jobs, NEW m \in {0, 1, 60, Horizon, 2 * Horizon},
                      m <= job.minutes
               PROVE  Total([job EXCEPT !.minutes = m]) >= Total(job)
    BY DEF HurryNeverCheapens
  <2>1. job \in Job /\ m \in Int /\ m # Unknown
    BY <1>1, JobsAreJobs DEF Horizon, Unknown
  <2> QED BY <2>1, HurryIsNeverCheaper
<1> QED BY <1>1, DeskInvariant, PTL

\* Keeping a rescue and giving it up after all changes nothing.
LEMMA KeptRecord ==
  ASSUME NEW r \in Record, r.cancelled > 0
  PROVE  /\ KeptInstead(r) \in Record
         /\ KeptInstead(r).bound = r.bound + 1 /\ KeptInstead(r).ratings = r.ratings
         /\ Abandoned(KeptInstead(r)) = r
<1> DEFINE with(x, m, n) == [x EXCEPT !.bound = m, !.cancelled = n]
<1>1. r \in Counts /\ r.stars <= 5 * r.ratings
  BY DEF Record
<1>2. /\ r.bound + 1 \in Nat /\ r.cancelled - 1 \in Nat
      /\ (r.bound + 1) - 1 = r.bound /\ (r.cancelled - 1) + 1 = r.cancelled
  BY RecordFields
<1>3. \A m, n \in Nat :
        /\ with(r, m, n) \in Counts
        /\ with(r, m, n).bound = m /\ with(r, m, n).cancelled = n
        /\ with(r, m, n).stars = r.stars /\ with(r, m, n).ratings = r.ratings
  BY <1>1 DEF Counts
<1>4. \A m, n, k, l \in Nat : with(with(r, m, n), k, l) = with(r, k, l)
  BY <1>1 DEF Counts
<1>5. with(r, r.bound, r.cancelled) = r /\ r.bound \in Nat /\ r.cancelled \in Nat
  BY <1>1 DEF Counts
<1>6. KeptInstead(r) = with(r, r.bound + 1, r.cancelled - 1)
  BY Zenon DEF KeptInstead
<1> DEFINE p == with(r, r.bound + 1, r.cancelled - 1)
<1>7. /\ p \in Counts /\ p.bound = r.bound + 1 /\ p.cancelled = r.cancelled - 1
      /\ p.stars = r.stars /\ p.ratings = r.ratings
  BY <1>2, <1>3, Zenon
<1>8. Abandoned(p) = with(p, (r.bound + 1) - 1, (r.cancelled - 1) + 1)
  BY <1>7, Zenon DEF Abandoned
<1>9. Abandoned(p) = r
  BY <1>2, <1>4, <1>5, <1>8, Zenon
<1>10. p \in Record
  BY <1>1, <1>7, Zenon DEF Record
<1> QED BY <1>6, <1>7, <1>9, <1>10, Zenon

\* Whatever a row was computed from: a rescue it counts as given up is held against the
\* carrier, in the points that matching and pricing read.
THEOREM GivenUpShows == Spec => []GivenUpIsHeldAgainst
<1>1. ASSUME CaseTypes, NEW c \in Company,
             row[c] # NoRow, row[c].cancelled > 0, ~IsNew(row[c])
      PROVE  TrustOf(row[c]) < TrustOf(KeptInstead(row[c])) \/ TrustOf(row[c]) = 0
  <2> DEFINE r == row[c]
             p == KeptInstead(r)
  <2>1. r \in Record
    BY <1>1 DEF CaseTypes
  <2> HIDE DEF r
  <2>2. /\ r.cancelled > 0 /\ r.cancelled \in Nat /\ r.bound \in Nat /\ r.ratings \in Nat
        /\ r.bound > 0 \/ r.ratings > 0
    BY <1>1, <2>1, RecordFields DEF IsNew, r
  <2>3. /\ p \in Record /\ p.bound = r.bound + 1 /\ p.ratings = r.ratings
        /\ Abandoned(p) = r
    BY <2>1, <2>2, KeptRecord, Zenon
  <2> HIDE DEF p
  <2>4. p.bound >= 2 \/ (p.bound = 1 /\ p.ratings > 0)
    BY <2>2, <2>3
  <2>5. /\ ScoreOf(r) \in 0 .. 1000 /\ ScoreOf(p) \in 0 .. 1000
        /\ ScoreOf(r) + 10 <= ScoreOf(p) \/ ScoreOf(r) = 0
    BY <2>3, <2>4, AbandoningCosts
  <2>6. r # NoRow /\ p # NoRow
    BY <2>1, <2>3, RecordFields DEF NoRow
  <2>7. \A x, y \in 0 .. 1000 : x + 10 <= y \/ x = 0 => x \div 10 < y \div 10 \/ x \div 10 = 0
    BY SMTT(30)
  <2>8. TrustOf(r) = ScoreOf(r) \div 10 /\ TrustOf(p) = ScoreOf(p) \div 10
    BY <2>6 DEF TrustOf
  <2>9. ScoreOf(r) \div 10 < ScoreOf(p) \div 10 \/ ScoreOf(r) \div 10 = 0
    <3> DEFINE low == ScoreOf(r)
               high == ScoreOf(p)
    <3>1. /\ low \in 0 .. 1000 /\ high \in 0 .. 1000
          /\ low + 10 <= high \/ low = 0
      BY <2>5
    <3> HIDE DEF low, high
    <3>2. low \div 10 < high \div 10 \/ low \div 10 = 0
      BY <2>7, <3>1
    <3> QED BY <3>2 DEF low, high
  <2>10. TrustOf(r) < TrustOf(p) \/ TrustOf(r) = 0
    BY <2>8, <2>9, Zenon
  <2> QED BY <2>10 DEF r, p
<1>2. CaseTypes => GivenUpIsHeldAgainst
  BY <1>1 DEF GivenUpIsHeldAgainst
<1> QED BY <1>2, CaseInvariant, PTL

-----------------------------------------------------------------------------
(* Storage.                                                                 *)

\* The options of one search, and what they are ordered from.
Near == {f \in Facility : Storage[f].active /\ Km[Spot][Storage[f].place] <= Radius}
OptionsNear == {Option(Storage, f, load, Spot, minutes) : f \in Near}

LEMMA OptionsAreFinite == IsFiniteSet(OptionsNear)
<1> DEFINE g == [f \in Near |-> Option(Storage, f, load, Spot, minutes)]
<1>1. IsFiniteSet(Near)
  BY PlanningAssumption, FS_Subset DEF Near
<1>2. g \in Surjection(Near, OptionsNear)
  BY DEF Surjection, OptionsNear
<1> QED BY <1>1, <1>2, FS_Surjection

\* What is ahead of a usable option is usable, and not farther.
LEMMA NotBehind ==
  ASSUME NEW x, NEW y, Reachable(x), ~Preferred(x, y),
         x.suitable \in BOOLEAN, y.suitable \in BOOLEAN, x.km \in Nat, y.km \in Nat
  PROVE  Reachable(y) /\ y.km <= x.km
<1>1. x.suitable /\ x.arrives # "NO"
  BY Zenon DEF Reachable
<1>2. y.suitable
  BY <1>1, Zenon DEF Preferred
<1>3. x.suitable = TRUE /\ y.suitable = TRUE
  BY <1>1, <1>2
<1>4. y.arrives # "NO"
  BY <1>1, <1>3, Zenon DEF Preferred
<1>5. ((x.arrives = "NO") = (y.arrives = "NO"))
  BY <1>1, <1>4
<1>6. ~(x.km < y.km)
  BY <1>3, <1>5, Zenon DEF Preferred
<1> QED BY <1>2, <1>4, <1>6 DEF Reachable

LEMMA BestComesFirst ==
  ASSUME NEW options \in RelayOptions(Storage, load, Spot, minutes, Radius),
         NEW x \in OptionsNear, Reachable(x)
  PROVE  options[1] \in OptionsNear /\ Reachable(options[1]) /\ options[1].km <= x.km
<1>1. PICK s \in [1 .. Cardinality(OptionsNear) -> OptionsNear] :
        /\ options = FirstOf(s, Options)
        /\ \A i, j \in DOMAIN s : i < j => s[i] # s[j] /\ ~Preferred(s[j], s[i])
  <2>1. {f \in DOMAIN Storage : Storage[f].active /\ Km[Spot][Storage[f].place] <= Radius} = Near
    BY PlanningAssumption DEF Near
  <2>2. PICK s \in Listings(OptionsNear, Preferred) : options = FirstOf(s, Options)
    BY <2>1, Zenon DEF RelayOptions, OptionsNear
  <2> QED BY <2>2 DEF Listings
<1>2. \A i, j \in 1 .. Cardinality(OptionsNear) :
        i < j => s[i] # s[j] /\ ~Preferred(s[j], s[i])
  BY <1>1
<1>3. Cardinality(OptionsNear) \in Nat
  BY OptionsAreFinite, FS_CardinalityType
<1>4. PICK k \in 1 .. Cardinality(OptionsNear) : s[k] = x
  <2>1. \A i, j \in DOMAIN s : i < j => s[i] # s[j]
    BY <1>2
  <2>2. \A y \in OptionsNear : \E i \in 1 .. Cardinality(OptionsNear) : s[i] = y
    BY <2>1, OptionsAreFinite, ListingIsComplete, Zenon
  <2> QED BY <2>2
<1>5. options[1] = s[1]
  <2>1. Options \in Nat /\ 1 \in 1 .. Smaller(Options, Cardinality(OptionsNear))
    BY <1>3, <1>4, RelayAssumption DEF Smaller
  <2>2. \A i \in 1 .. Smaller(Options, Cardinality(OptionsNear)) :
          FirstOf(s, Options)[i] = s[i]
    <3>1. s \in ListOf(OptionsNear, Cardinality(OptionsNear))
      BY DEF ListOf
    <3> QED BY <1>3, <2>1, <3>1, FirstElements, Zenon
  <2> QED BY <1>1, <2>1, <2>2
<1>6. s[1] \in OptionsNear
  BY <1>2, <1>3, <1>4
<1>7. \A y \in OptionsNear : y.suitable \in BOOLEAN /\ y.km \in Nat
  <2> SUFFICES ASSUME NEW f \in Near
               PROVE  LET y == Option(Storage, f, load, Spot, minutes)
                      IN  y.suitable \in BOOLEAN /\ y.km \in Nat
    BY DEF OptionsNear
  <2>1. Storage[f].place \in Place
    BY PlanningAssumption DEF Near, Depot
  <2>2. Km[Spot][Storage[f].place] \in Nat
    BY <2>1, PlanningAssumption, MatchingAssumption
  <2>3. Suitable(Storage[f], load) \in BOOLEAN
    BY DEF Suitable
  <2> QED BY <2>2, <2>3 DEF Option
<1>8. CASE k = 1
  BY <1>4, <1>5, <1>6, <1>7, <1>8
<1>9. CASE k # 1
  <2>1. ~Preferred(x, s[1])
    BY <1>2, <1>3, <1>4, <1>9
  <2> QED BY <1>5, <1>6, <1>7, <2>1, NotBehind
<1> QED BY <1>8, <1>9

\* Of any number of places of storage, the first an owner is shown takes the load in
\* time if there is one that does, and none of those is nearer.
THEOREM ReachableAlwaysFirst == Spec => []ReachableComesFirst
<1>1. Init => ReachableComesFirst
  BY DEF Init, Idle, ReachableComesFirst
<1>2. ASSUME CaseTypes, DeskTypes, ReachableComesFirst, [Next]_vars
      PROVE  ReachableComesFirst'
  <2>1. UNCHANGED <<load, minutes>>
    BY <1>2, LoadStays
  <2>2. CASE AskRelay
    <3>1. PICK options \in RelayOptions(Storage, load, Spot, minutes, Radius) :
            desk' = [at |-> "RELAY", options |-> options]
      BY <2>2 DEF AskRelay
    <3> SUFFICES ASSUME NEW x \in OptionsNear, Reachable(x)
                 PROVE  /\ options[1] \in OptionsNear /\ Reachable(options[1])
                        /\ options[1].km <= x.km
      BY <2>1, <3>1 DEF ReachableComesFirst, OptionsNear, Near
    <3> QED BY BestComesFirst
  <2>3. CASE UNCHANGED desk
    BY <1>2, <2>1, <2>3 DEF ReachableComesFirst
  <2>4. CASE desk'.at # "RELAY"
    BY <2>4 DEF ReachableComesFirst
  <2>5. CASE Search
    BY <1>2, <2>4, <2>5, SearchFinds
  <2>6. CASE Rank
    BY <1>2, <2>4, <2>6, RankedJobs
  <2>7. CASE \/ AskSplit \/ Divide \/ AskRelay \/ Turn \/ Answered
             \/ \E t \in Truck : AskRoute(t)
    BY <1>2, <2>2, <2>4, <2>7, OtherQuestions
  <2>8. ASSUME \/ \E f \in Facility : CommitRelay(f)
               \/ \E t \in Truck : TakeOrFree(t) \/ Ages(t)
               \/ \E c \in Company : OfferEvent(c) \/ LookUp(c)
               \/ UNCHANGED vars
        PROVE  UNCHANGED desk
    BY <2>8, Elsewhere
  <2> QED BY <1>2, <2>3, <2>5, <2>6, <2>7, <2>8 DEF Next
<1> QED BY <1>1, <1>2, DeskInvariant, PTL DEF Spec

-----------------------------------------------------------------------------
(* Paths and how long they take.                                            *)

Paths == {s \in Seq(Place) : Len(s) >= 1}

Times(s) == [i \in 1 .. Len(s) - 1 |-> EdgeMinutes(s[i], s[i + 1])]

LEMMA EdgeType ==
  ASSUME NEW p \in Place, NEW q \in Place
  PROVE  EdgeMinutes(p, q) \in Nat
<1> DEFINE km == Km[p][q]
<1>1. km \in Nat
  BY MatchingAssumption
<1> HIDE DEF km
<1>2. AssumedSpeed(km) \in {22, 35, 50, 62}
  BY <1>1 DEF AssumedSpeed
<1>3. /\ (km * 600 + 22 \div 2) \div 22 \in Nat /\ (km * 600 + 35 \div 2) \div 35 \in Nat
      /\ (km * 600 + 50 \div 2) \div 50 \in Nat /\ (km * 600 + 62 \div 2) \div 62 \in Nat
  BY <1>1
<1>4. \A v \in {22, 35, 50, 62} : Scaled(km, 600, v) \in Nat
  BY <1>3 DEF Scaled
<1> QED BY <1>2, <1>4 DEF EdgeMinutes, km

LEMMA TimesType ==
  ASSUME NEW s \in Paths
  PROVE  /\ Times(s) \in Seq(Int) /\ Len(Times(s)) = Len(s) - 1
         /\ \A i \in 1 .. Len(s) - 1 : /\ Times(s)[i] = EdgeMinutes(s[i], s[i + 1])
                                       /\ Times(s)[i] \in Nat
<1>1. s \in Seq(Place) /\ Len(s) \in Nat \ {0}
  BY DEF Paths
<1>2. ASSUME NEW i \in 1 .. Len(s) - 1
      PROVE  EdgeMinutes(s[i], s[i + 1]) \in Nat
  <2>1. s[i] \in Place /\ s[i + 1] \in Place
    BY <1>1
  <2> QED BY <2>1, EdgeType
<1>3. Times(s) \in [1 .. Len(s) - 1 -> Int]
  BY <1>2 DEF Times
<1>4. Len(s) - 1 \in Nat
  BY <1>1
<1>5. Times(s) \in Seq(Int) /\ Len(Times(s)) = Len(s) - 1
  BY <1>3, <1>4
<1> QED BY <1>2, <1>5 DEF Times

\* One edge more.
LEMMA PathExtended ==
  ASSUME NEW s \in Paths, NEW q \in Place
  PROVE  /\ Append(s, q) \in Paths
         /\ Duration(Append(s, q)) = Duration(s) + EdgeMinutes(s[Len(s)], q)
<1>1. s \in Seq(Place) /\ Len(s) \in Nat \ {0} /\ s[Len(s)] \in Place
  BY DEF Paths
<1>2. /\ Append(s, q) \in Seq(Place) /\ Len(Append(s, q)) = Len(s) + 1
      /\ Append(s, q)[Len(s) + 1] = q /\ \A i \in 1 .. Len(s) : Append(s, q)[i] = s[i]
  BY <1>1, AppendProperties
<1>3. Append(s, q) \in Paths
  BY <1>1, <1>2 DEF Paths
<1> DEFINE v == EdgeMinutes(s[Len(s)], q)
<1>4. v \in Int
  BY <1>1, EdgeType
<1>5. Times(Append(s, q)) = Append(Times(s), v)
  <2>1. /\ Times(Append(s, q)) \in Seq(Int) /\ Len(Times(Append(s, q))) = Len(s)
        /\ \A i \in 1 .. Len(s) :
             Times(Append(s, q))[i] = EdgeMinutes(Append(s, q)[i], Append(s, q)[i + 1])
    <3> DEFINE t == Append(s, q)
    <3>1. t \in Paths /\ Len(t) - 1 = Len(s)
      BY <1>1, <1>2, <1>3
    <3> HIDE DEF t
    <3>2. /\ Times(t) \in Seq(Int) /\ Len(Times(t)) = Len(t) - 1
          /\ \A i \in 1 .. Len(t) - 1 : Times(t)[i] = EdgeMinutes(t[i], t[i + 1])
      BY <3>1, TimesType
    <3>3. /\ Times(t) \in Seq(Int) /\ Len(Times(t)) = Len(s)
          /\ \A i \in 1 .. Len(s) : Times(t)[i] = EdgeMinutes(t[i], t[i + 1])
      BY <3>1, <3>2
    <3> QED BY <3>3 DEF t
  <2>2. /\ Append(Times(s), v) \in Seq(Int) /\ Len(Append(Times(s), v)) = Len(s)
        /\ Append(Times(s), v)[Len(s)] = v
        /\ \A i \in 1 .. Len(s) - 1 : Append(Times(s), v)[i] = Times(s)[i]
    BY <1>1, <1>4, TimesType, AppendProperties
  <2>3. ASSUME NEW i \in 1 .. Len(s)
        PROVE  Times(Append(s, q))[i] = Append(Times(s), v)[i]
    <3>1. CASE i = Len(s)
      BY <1>1, <1>2, <2>1, <2>2, <3>1
    <3>2. CASE i # Len(s)
      <4>1. i \in 1 .. Len(s) - 1 /\ i + 1 \in 1 .. Len(s)
        BY <1>1, <3>2
      <4> QED BY <1>2, <2>1, <2>2, <4>1, TimesType
    <3> QED BY <3>1, <3>2
  <2> HIDE DEF v
  <2> QED BY <1>1, <2>1, <2>2, <2>3, SeqEqual
<1>6. Summed(Append(Times(s), v)) = Summed(Times(s)) + v
  <2> HIDE DEF v
  <2> QED BY <1>4, TimesType, SummedAppend
<1> QED BY <1>3, <1>5, <1>6 DEF Duration, Times

LEMMA PathStarts ==
  ASSUME NEW p \in Place
  PROVE  <<p>> \in Paths /\ Duration(<<p>>) = 0
<1>1. <<p>> \in Paths /\ Len(<<p>>) = 1
  BY DEF Paths
<1>2. Times(<<p>>) = <<>>
  BY <1>1 DEF Times
<1> QED BY <1>1, <1>2, SummedEmpty DEF Duration, Times

LEMMA DurationType ==
  ASSUME NEW s \in Paths
  PROVE  Duration(s) \in Int
BY TimesType, SummedType DEF Duration, Times

LEMMA Bracketed ==
  ASSUME NEW S, NEW a \in S, NEW b \in S, NEW k \in Nat, NEW v \in Seq(S), Len(v) = k
  PROVE  /\ <<a>> \o v \o <<b>> \in Seq(S) /\ Len(<<a>> \o v \o <<b>>) = k + 2
         /\ (<<a>> \o v \o <<b>>)[1] = a /\ (<<a>> \o v \o <<b>>)[k + 2] = b
         /\ \A i \in 1 .. k : (<<a>> \o v \o <<b>>)[i + 1] = v[i]
<1> DEFINE x == <<a>>
           y == <<b>>
           u == x \o v
           t == u \o y
<1>1. x \in Seq(S) /\ Len(x) = 1 /\ x[1] = a /\ y \in Seq(S) /\ Len(y) = 1 /\ y[1] = b
  OBVIOUS
<1> HIDE DEF x, y
<1>2. /\ u \in Seq(S) /\ Len(u) = Len(x) + Len(v)
      /\ \A i \in 1 .. Len(x) + Len(v) : u[i] = IF i <= Len(x) THEN x[i] ELSE v[i - Len(x)]
  BY <1>1, ConcatProperties
<1>3. u \in Seq(S) /\ Len(u) = k + 1 /\ u[1] = a /\ \A i \in 1 .. k : u[i + 1] = v[i]
  BY <1>1, <1>2
<1> HIDE DEF u
<1>4. /\ t \in Seq(S) /\ Len(t) = Len(u) + Len(y)
      /\ \A i \in 1 .. Len(u) + Len(y) : t[i] = IF i <= Len(u) THEN u[i] ELSE y[i - Len(u)]
  BY <1>1, <1>3, ConcatProperties
<1>5. t \in Seq(S) /\ Len(t) = k + 2 /\ t[1] = a /\ t[k + 2] = b
      /\ \A i \in 1 .. k : t[i + 1] = v[i]
  BY <1>1, <1>3, <1>4
<1> QED BY <1>5 DEF t, u, x, y

\* A path as the reference has it.
IsWay(s, from, to) ==
  /\ s \in Paths /\ s[1] = from /\ s[Len(s)] = to
  /\ IsInjective(s)
  /\ \A i \in 1 .. Len(s) - 1 : <<s[i], s[i + 1]>> \in Edges(Place)

LEMMA PathsAreWays ==
  ASSUME NEW from \in Place, NEW to \in Place, NEW s \in PathsTo(Place, from, to)
  PROVE  IsWay(s, from, to)
<1>1. /\ s[Len(s)] = to /\ IsInjective(s)
      /\ \A i \in 1 .. Len(s) - 1 : <<s[i], s[i + 1]>> \in Edges(Place)
  BY DEF PathsTo
<1>2. s \in Paths /\ s[1] = from
  <2>1. CASE s = <<from>>
    BY <2>1 DEF Paths
  <2>2. ASSUME NEW n \in 0 .. Cardinality(Place) - 2, NEW via \in [1 .. n -> Place],
               s = <<from>> \o via \o <<to>>
        PROVE  s \in Paths /\ s[1] = from
    <3>1. Cardinality(Place) \in Nat
      BY PlanningAssumption, FS_CardinalityType
    <3>2. n \in Nat
      BY <3>1
    <3>3. via \in Seq(Place) /\ Len(via) = n /\ <<from>> \in Seq(Place) /\ <<to>> \in Seq(Place)
          /\ Len(<<from>>) = 1 /\ <<from>>[1] = from
      BY <3>2
    <3>4. <<from>> \o via \in Seq(Place) /\ Len(<<from>> \o via) = 1 + n
          /\ (<<from>> \o via)[1] = from
      BY <3>2, <3>3, ConcatProperties
    <3>5. s \in Seq(Place) /\ Len(s) >= 1 /\ s[1] = from
      BY <2>2, <3>2, <3>3, <3>4, ConcatProperties
    <3> QED BY <3>5 DEF Paths
  <2> QED BY <2>1, <2>2 DEF PathsTo
<1> QED BY <1>1, <1>2 DEF IsWay

\* No way is too long for the reference: it visits each place once.
LEMMA WaysArePaths ==
  ASSUME NEW from \in Place, NEW to \in Place, NEW s, IsWay(s, from, to)
  PROVE  s \in PathsTo(Place, from, to)
<1> DEFINE n == Len(s)
<1>1. s \in Seq(Place) /\ n \in Nat \ {0} /\ s \in [1 .. n -> Place]
  BY DEF IsWay, Paths
<1>2. Cardinality(Place) \in Nat
  BY PlanningAssumption, FS_CardinalityType
<1>3. n <= Cardinality(Place)
  <2>1. s \in Injection(1 .. n, Place)
    BY <1>1 DEF IsWay, Injection, IsInjective
  <2>2. IsFiniteSet(1 .. n) /\ Cardinality(1 .. n) = n
    BY <1>1, FS_Interval
  <2>3. Cardinality(1 .. n) <= Cardinality(Place)
    BY <2>1, PlanningAssumption, FS_Injection
  <2> QED BY <2>2, <2>3
<1>4. CASE n = 1
  <2>1. s = <<from>>
    <3>1. Len(<<from>>) = 1 /\ <<from>>[1] = from /\ <<from>> \in Seq(Place)
      OBVIOUS
    <3>2. \A i \in 1 .. Len(s) : s[i] = <<from>>[i]
      BY <1>4, <3>1 DEF IsWay
    <3> QED BY <1>1, <1>4, <3>1, <3>2, SeqEqual
  <2> QED BY <2>1 DEF IsWay, PathsTo
<1>5. CASE n # 1
  <2> DEFINE via == [i \in 1 .. n - 2 |-> s[i + 1]]
             t == <<from>> \o via \o <<to>>
  <2>1. n - 2 \in 0 .. Cardinality(Place) - 2 /\ n - 2 \in Nat
    BY <1>1, <1>2, <1>3, <1>5
  <2>2. via \in [1 .. n - 2 -> Place]
    BY <1>1
  <2>3. via \in Seq(Place) /\ Len(via) = n - 2
    <3> DEFINE k == n - 2
    <3>1. k \in Nat /\ via \in [1 .. k -> Place]
      BY <2>1, <2>2
    <3> HIDE DEF k, via
    <3>2. via \in Seq(Place) /\ Len(via) = k
      BY <3>1
    <3> QED BY <3>2 DEF k
  <2>4. \A i \in 1 .. n - 2 : via[i] = s[i + 1]
    OBVIOUS
  <2> HIDE DEF via
  <2>5. /\ t \in Seq(Place) /\ Len(t) = n - 2 + 2 /\ t[1] = from /\ t[n - 2 + 2] = to
        /\ \A i \in 1 .. n - 2 : t[i + 1] = via[i]
    BY <2>1, <2>3, Bracketed
  <2> HIDE DEF t
  <2>6. t \in Seq(Place) /\ Len(t) = n /\ t[1] = from /\ t[n] = to
    BY <1>1, <2>5
  <2>7. s = t
    <3>1. s[1] = from /\ s[n] = to
      BY DEF IsWay
    <3> HIDE DEF n
    <3>2. ASSUME NEW i \in 1 .. n
          PROVE  s[i] = t[i]
      <4>1. CASE i = 1 \/ i = n
        BY <2>6, <3>1, <4>1
      <4>2. CASE i # 1 /\ i # n
        <5>1. i - 1 \in 1 .. n - 2 /\ i - 1 + 1 = i
          BY <1>1, <4>2
        <5> QED BY <2>4, <2>5, <5>1
      <4> QED BY <4>1, <4>2
    <3> QED BY <1>1, <2>6, <3>2, SeqEqual DEF n
  <2>8. s \in {<<from>> \o v \o <<to>> :
                 v \in UNION {[1 .. k -> Place] : k \in 0 .. Cardinality(Place) - 2}}
    <3>1. via \in UNION {[1 .. k -> Place] : k \in 0 .. Cardinality(Place) - 2}
      BY <2>1, <2>2
    <3>2. s = <<from>> \o via \o <<to>>
      BY <2>7 DEF t
    <3> QED BY <3>1, <3>2, Zenon
  <2> QED BY <2>8 DEF IsWay, PathsTo
<1> QED BY <1>4, <1>5

-----------------------------------------------------------------------------
(* The search for a route.                                                  *)

\* An entry of the heap is a way from the spot, and no place on it was reached later.
IsEntry(search, x) ==
  /\ x.minutes \in Nat /\ x.minutes = Duration(x.path)
  /\ IsWay(x.path, Spot, x.at)
  /\ \A i \in 1 .. Len(x.path) : /\ x.path[i] \in DOMAIN search.best
                                 /\ search.best[x.path[i]] <= x.minutes

\* A place that was reached waits in the heap with its best time, or its edges have been
\* followed from that.
Open(search, p) == \E x \in search.heap : x.at = p /\ x.minutes = search.best[p]

Closed(search, p) ==
  /\ p # search.to
  /\ \A q \in Place : <<p, q>> \in search.edges =>
       /\ q \in DOMAIN search.best
       /\ search.best[q] <= search.best[p] + EdgeMinutes(p, q)

Sound(search) ==
  /\ DOMAIN search = {"at", "to", "edges", "heap", "best"}
  /\ search.at = "ROUTING" /\ search.to \in Place /\ search.edges = Edges(Place)
  /\ DOMAIN search.best \subseteq Place
  /\ \A p \in DOMAIN search.best : search.best[p] \in Nat
  /\ Spot \in DOMAIN search.best /\ search.best[Spot] = 0
  /\ \A x \in search.heap : IsEntry(search, x)
  /\ \A p \in DOMAIN search.best : Open(search, p) \/ Closed(search, p)

LEMMA SettingIsSound ==
  ASSUME NEW to \in Place
  PROVE  Sound(Setting(Place, Spot, to))
<1> DEFINE search == Setting(Place, Spot, to)
           first == [minutes |-> 0, at |-> Spot, path |-> <<Spot>>]
<1>1. /\ DOMAIN search = {"at", "to", "edges", "heap", "best"}
      /\ search.at = "ROUTING" /\ search.to = to /\ search.edges = Edges(Place)
      /\ search.heap = {first} /\ DOMAIN search.best = {Spot} /\ search.best[Spot] = 0
  BY DEF Setting
<1> HIDE DEF search
<1>2. Spot \in Place
  BY PlanningAssumption
<1>3. IsEntry(search, first)
  <2>1. <<Spot>> \in Paths /\ Duration(<<Spot>>) = 0 /\ Len(<<Spot>>) = 1 /\ <<Spot>>[1] = Spot
    BY <1>2, PathStarts
  <2>2. IsWay(<<Spot>>, Spot, Spot)
    BY <2>1 DEF IsWay, IsInjective
  <2> QED BY <1>1, <2>1, <2>2 DEF IsEntry
<1>4. Open(search, Spot)
  BY <1>1 DEF Open
<1> QED BY <1>1, <1>2, <1>3, <1>4 DEF Sound, search

\* No way to the destination takes less than the entries that wait, because the first
\* place on it that was not reached in time follows one whose edges were followed.
LEMMA NothingIsFaster ==
  ASSUME NEW search, Sound(search), NEW m \in Int, \A x \in search.heap : m <= x.minutes,
         NEW s, IsWay(s, Spot, search.to)
  PROVE  m <= Duration(s)
<1> DEFINE n == Len(s) - 1
<1>1. /\ s \in Paths /\ n \in Nat /\ s[1] = Spot /\ s[n + 1] = search.to
      /\ \A i \in 1 .. n + 1 : s[i] \in Place
      /\ \A i \in 1 .. n : <<s[i], s[i + 1]>> \in search.edges
  BY DEF IsWay, Paths, Sound
<1>2. PICK t : IsRunning(t, Times(s))
  BY <1>1, TimesType, RunningExists
<1>3. Duration(s) = t[n]
  BY <1>1, <1>2, TimesType, SummedIs DEF Duration, Times
<1>4. /\ t \in [0 .. n -> Int] /\ t[0] = 0
      /\ \A i \in 1 .. n : /\ t[i] = t[i - 1] + EdgeMinutes(s[i], s[i + 1])
                           /\ EdgeMinutes(s[i], s[i + 1]) \in Nat
  BY <1>1, <1>2, TimesType DEF IsRunning
<1> HIDE DEF n
<1> DEFINE Reached(i) == /\ s[i + 1] \in DOMAIN search.best
                         /\ search.best[s[i + 1]] <= t[i]
           G == {i \in 0 .. n : m <= t[i] \/ Reached(i)}
<1>5. 0 \in G
  BY <1>1, <1>4 DEF Sound
<1>6. ASSUME NEW p \in DOMAIN search.best, search.best[p] < m
      PROVE  Closed(search, p)
  BY <1>6 DEF Sound, Open, IsEntry
<1>7. ASSUME NEW i \in 1 .. n, i - 1 \in G
      PROVE  i \in G
  <2>1. t[i] = t[i - 1] + EdgeMinutes(s[i], s[i + 1]) /\ EdgeMinutes(s[i], s[i + 1]) \in Nat
        /\ t[i - 1] \in Int /\ t[i] \in Int
    BY <1>1, <1>4
  <2>2. CASE m <= t[i - 1]
    BY <2>1, <2>2
  <2>3. CASE ~(m <= t[i - 1])
    <3>1. s[i] \in DOMAIN search.best /\ search.best[s[i]] <= t[i - 1]
      <4>1. Reached(i - 1) /\ i - 1 + 1 = i
        BY <1>7, <2>3
      <4> QED BY <4>1
    <3>2. search.best[s[i]] \in Nat
      BY <3>1 DEF Sound
    <3>3. Closed(search, s[i])
      BY <1>6, <2>1, <2>3, <3>1, <3>2
    <3>4. <<s[i], s[i + 1]>> \in search.edges /\ s[i + 1] \in Place
      BY <1>1
    <3>5. s[i + 1] \in DOMAIN search.best
          /\ search.best[s[i + 1]] <= search.best[s[i]] + EdgeMinutes(s[i], s[i + 1])
      BY <3>3, <3>4 DEF Closed
    <3>6. search.best[s[i + 1]] \in Nat
      BY <3>5 DEF Sound
    <3>7. Reached(i)
      BY <2>1, <3>1, <3>2, <3>5, <3>6
    <3> QED BY <3>7
  <2> QED BY <2>2, <2>3
<1>8. n \in G
  <2>1. 0 .. n \subseteq G
    <3> HIDE DEF G
    <3> QED BY <1>1, <1>5, <1>7, UpTo
  <2> QED BY <1>1, <2>1
<1>9. CASE Reached(n) /\ ~(m <= t[n])
  <2>1. search.to \in DOMAIN search.best /\ search.best[search.to] <= t[n]
    BY <1>1, <1>9
  <2>2. search.best[search.to] \in Nat /\ t[n] \in Int
    BY <1>1, <1>4, <2>1 DEF Sound
  <2>3. Closed(search, search.to)
    BY <1>6, <1>9, <2>1, <2>2
  <2> QED BY <2>3 DEF Closed
<1> QED BY <1>3, <1>8, <1>9

\* What an entry leads to.
LEMMA FollowedEntries ==
  ASSUME NEW search, Sound(search), NEW entry \in search.heap,
         NEW x \in Followed(search, entry)
  PROVE  /\ x.minutes \in Nat /\ x.minutes = Duration(x.path)
         /\ IsWay(x.path, Spot, x.at) /\ x.at \in Place
         /\ x.minutes >= entry.minutes
         /\ x.path = Append(entry.path, x.at)
         /\ x.minutes = entry.minutes + EdgeMinutes(entry.at, x.at)
         /\ x.at \in DOMAIN search.best => x.minutes < search.best[x.at]
<1>1. x \in Pushed(search, entry)
  BY DEF Followed
<1>2. PICK e \in search.edges :
        /\ e[1] = entry.at
        /\ e[2] \in DOMAIN search.best
             => entry.minutes + EdgeMinutes(entry.at, e[2]) < search.best[e[2]]
        /\ x = Longer(entry, e[2])
  BY <1>1 DEF Pushed
<1> DEFINE q == e[2]
           s == entry.path
<1>3. /\ x.minutes = entry.minutes + EdgeMinutes(entry.at, q) /\ x.at = q
      /\ x.path = Append(s, q)
  BY <1>2 DEF Longer
<1>4. e \in Place \X Place /\ e \in Edges(Place)
  BY DEF Sound, Edges
<1>5. q \in Place /\ entry.at \in Place /\ <<entry.at, q>> \in Edges(Place)
  BY <1>2, <1>4
<1>6. IsEntry(search, entry)
  BY DEF Sound
<1>7. /\ s \in Paths /\ s[1] = Spot /\ s[Len(s)] = entry.at /\ IsInjective(s)
      /\ \A i \in 1 .. Len(s) - 1 : <<s[i], s[i + 1]>> \in Edges(Place)
      /\ entry.minutes \in Nat /\ entry.minutes = Duration(s)
      /\ \A i \in 1 .. Len(s) : s[i] \in DOMAIN search.best /\ search.best[s[i]] <= entry.minutes
  BY <1>6 DEF IsEntry, IsWay
<1>8. EdgeMinutes(entry.at, q) \in Nat
  BY <1>5, EdgeType
<1>9. q \in DOMAIN search.best => entry.minutes + EdgeMinutes(entry.at, q) < search.best[q]
  BY <1>2
<1> HIDE DEF q, s
<1>10. Append(s, q) \in Paths /\ Duration(Append(s, q)) = entry.minutes + EdgeMinutes(entry.at, q)
  BY <1>5, <1>7, PathExtended
<1>11. /\ s \in Seq(Place) /\ Len(s) \in Nat \ {0} /\ Len(Append(s, q)) = Len(s) + 1
       /\ Append(s, q)[Len(s) + 1] = q /\ \A i \in 1 .. Len(s) : Append(s, q)[i] = s[i]
       /\ DOMAIN s = 1 .. Len(s) /\ DOMAIN Append(s, q) = 1 .. Len(s) + 1
  BY <1>5, <1>7, AppendProperties DEF Paths
<1>12. \A i \in 1 .. Len(s) : s[i] # q
  <2> SUFFICES ASSUME NEW i \in 1 .. Len(s), s[i] = q
               PROVE  FALSE
    OBVIOUS
  <2>1. q \in DOMAIN search.best /\ search.best[q] <= entry.minutes
    BY <1>7
  <2>2. search.best[q] \in Nat
    BY <2>1 DEF Sound
  <2> QED BY <1>7, <1>8, <1>9, <2>1, <2>2
<1>13. IsInjective(Append(s, q))
  <2>1. \A i, j \in 1 .. Len(s) : s[i] = s[j] => i = j
    BY <1>7, <1>11 DEF IsInjective
  <2> SUFFICES ASSUME NEW i \in 1 .. Len(s) + 1, NEW j \in 1 .. Len(s) + 1,
                      Append(s, q)[i] = Append(s, q)[j]
               PROVE  i = j
    BY <1>11 DEF IsInjective
  <2>2. CASE i = Len(s) + 1
    BY <1>11, <1>12, <2>2
  <2>3. CASE j = Len(s) + 1
    BY <1>11, <1>12, <2>3
  <2>4. CASE i # Len(s) + 1 /\ j # Len(s) + 1
    <3>1. i \in 1 .. Len(s) /\ j \in 1 .. Len(s)
      BY <1>11, <2>4
    <3> QED BY <1>11, <2>1, <3>1
  <2> QED BY <2>2, <2>3, <2>4
<1>14. ASSUME NEW i \in 1 .. Len(s)
       PROVE  <<Append(s, q)[i], Append(s, q)[i + 1]>> \in Edges(Place)
  <2>1. CASE i = Len(s)
    BY <1>5, <1>7, <1>11, <2>1
  <2>2. CASE i # Len(s)
    <3> DEFINE n == Len(s)
    <3>1. i \in 1 .. n - 1 /\ i + 1 \in 1 .. n
      <4>1. n \in Nat /\ i \in 1 .. n /\ i # n
        BY <1>11, <2>2
      <4> HIDE DEF n
      <4> QED BY <4>1
    <3>2. Append(s, q)[i] = s[i] /\ Append(s, q)[i + 1] = s[i + 1]
      BY <1>11, <3>1
    <3>3. <<s[i], s[i + 1]>> \in Edges(Place)
      BY <1>7, <3>1
    <3> QED BY <3>2, <3>3
  <2> QED BY <2>1, <2>2
<1>15. IsWay(Append(s, q), Spot, q)
  <2>1. Append(s, q)[1] = Spot /\ Len(Append(s, q)) - 1 = Len(s)
    BY <1>7, <1>11
  <2> QED BY <1>10, <1>11, <1>13, <1>14, <2>1 DEF IsWay
<1>16. x.minutes \in Nat /\ x.minutes >= entry.minutes
  BY <1>3, <1>7, <1>8
<1>17. /\ x.path = Append(s, q) /\ x.at = q /\ q \in Place
       /\ x.minutes = Duration(Append(s, q))
       /\ q \in DOMAIN search.best => x.minutes < search.best[q]
  BY <1>3, <1>5, <1>9, <1>10
<1> QED BY <1>3, <1>15, <1>16, <1>17 DEF s

\* A turn that goes on keeps the search sound: the popped entry is followed, or others
\* have bettered it.
LEMMA ContinuedIsSound ==
  ASSUME NEW search, Sound(search), NEW entry \in search.heap, entry.at # search.to
  PROVE  Sound(Continued(search, entry, Followed(search, entry)))
<1> DEFINE new == Followed(search, entry)
           next == Continued(search, entry, new)
<1>1. ASSUME NEW x \in new
      PROVE  /\ x.minutes \in Nat /\ x.minutes = Duration(x.path)
             /\ IsWay(x.path, Spot, x.at) /\ x.at \in Place
             /\ x.minutes >= entry.minutes
             /\ x.path = Append(entry.path, x.at)
             /\ x.minutes = entry.minutes + EdgeMinutes(entry.at, x.at)
             /\ x.at \in DOMAIN search.best => x.minutes < search.best[x.at]
  BY <1>1, FollowedEntries
<1>2. ASSUME entry.minutes = search.best[entry.at], NEW q \in Place,
             <<entry.at, q>> \in search.edges,
             ~(/\ q \in DOMAIN search.best
               /\ search.best[q] <= search.best[entry.at] + EdgeMinutes(entry.at, q))
      PROVE  \E x \in new : x.at = q
  <2>1. entry.minutes \in Nat /\ EdgeMinutes(entry.at, q) \in Nat
    <3>1. entry.at \in Place /\ entry.minutes \in Nat
      BY DEF Sound, IsEntry, IsWay, Paths
    <3> QED BY <3>1, EdgeType
  <2>2. q \in DOMAIN search.best
          => entry.minutes + EdgeMinutes(entry.at, q) < search.best[q]
    BY <1>2, <2>1 DEF Sound
  <2>3. Longer(entry, q) \in Pushed(search, entry)
    BY <1>2, <2>2 DEF Pushed
  <2>4. Longer(entry, q).at = q
    BY DEF Longer
  <2>5. ~(entry.minutes > search.best[entry.at])
    BY <1>2, <2>1
  <2> QED BY <2>3, <2>4, <2>5 DEF Followed
<1> HIDE DEF new
<1>3. /\ DOMAIN next = {"at", "to", "edges", "heap", "best"}
      /\ next.at = "ROUTING" /\ next.to = search.to /\ next.edges = search.edges
      /\ next.heap = (search.heap \ {entry}) \cup new
      /\ DOMAIN next.best = DOMAIN search.best \cup {x.at : x \in new}
      /\ \A p \in DOMAIN next.best :
           next.best[p] = IF \E x \in new : x.at = p
                          THEN (CHOOSE x \in new : x.at = p).minutes
                          ELSE search.best[p]
  BY DEF Continued, Sound
<1> HIDE DEF next
\* What becomes of the best times.
<1>4. ASSUME NEW x \in new
      PROVE  x.at \in DOMAIN next.best /\ next.best[x.at] = x.minutes
  <2>1. x.at \in DOMAIN next.best
    BY <1>3
  <2>2. next.best[x.at] = (CHOOSE y \in new : y.at = x.at).minutes
    BY <1>3, <2>1
  <2>3. \A y \in new : y.at = x.at => y.minutes = x.minutes
    BY <1>1
  <2> QED BY <2>1, <2>2, <2>3
<1>5. ASSUME NEW p \in DOMAIN next.best, ~\E x \in new : x.at = p
      PROVE  p \in DOMAIN search.best /\ next.best[p] = search.best[p]
  BY <1>3, <1>5
<1>6. \A p \in DOMAIN next.best : p \in Place /\ next.best[p] \in Nat
  BY <1>1, <1>4, <1>5 DEF Sound
<1>7. ASSUME NEW p \in DOMAIN search.best
      PROVE  /\ p \in DOMAIN next.best /\ next.best[p] <= search.best[p]
             /\ search.best[p] \in Nat /\ next.best[p] \in Nat
  <2>1. p \in DOMAIN next.best /\ search.best[p] \in Nat
    BY <1>3 DEF Sound
  <2>2. CASE \E x \in new : x.at = p
    BY <1>1, <1>4, <2>1, <2>2
  <2>3. CASE ~\E x \in new : x.at = p
    BY <1>5, <2>1, <2>3
  <2> QED BY <2>1, <2>2, <2>3
\* Entries.
<1>8. ASSUME NEW x \in search.heap
      PROVE  IsEntry(next, x)
  <2>1. IsEntry(search, x)
    BY DEF Sound
  <2>2. ASSUME NEW i \in 1 .. Len(x.path)
        PROVE  x.path[i] \in DOMAIN next.best /\ next.best[x.path[i]] <= x.minutes
    <3>1. x.path[i] \in DOMAIN search.best /\ search.best[x.path[i]] <= x.minutes
          /\ x.minutes \in Nat
      BY <2>1 DEF IsEntry
    <3> QED BY <1>7, <3>1
  <2> QED BY <2>1, <2>2 DEF IsEntry
<1>9. ASSUME NEW x \in new
      PROVE  IsEntry(next, x)
  <2>1. IsEntry(next, entry)
    BY <1>8
  <2>2. entry.path \in Seq(Place) /\ Len(entry.path) \in Nat /\ x.at \in Place
    BY <1>1, <2>1 DEF IsEntry, IsWay, Paths
  <2>3. /\ Len(x.path) = Len(entry.path) + 1 /\ x.path[Len(entry.path) + 1] = x.at
        /\ \A i \in 1 .. Len(entry.path) : x.path[i] = entry.path[i]
    BY <1>1, <2>2, AppendProperties
  <2>4. ASSUME NEW i \in 1 .. Len(x.path)
        PROVE  x.path[i] \in DOMAIN next.best /\ next.best[x.path[i]] <= x.minutes
    <3>1. CASE i = Len(entry.path) + 1
      BY <1>1, <1>4, <2>3, <3>1
    <3>2. CASE i # Len(entry.path) + 1
      <4>1. i \in 1 .. Len(entry.path) /\ x.path[i] = entry.path[i]
        BY <2>2, <2>3, <3>2
      <4>2. /\ entry.path[i] \in DOMAIN next.best /\ next.best[entry.path[i]] <= entry.minutes
            /\ entry.minutes \in Nat
        BY <2>1, <4>1 DEF IsEntry
      <4> QED BY <1>1, <1>6, <4>1, <4>2
    <3> QED BY <3>1, <3>2
  <2> QED BY <1>1, <2>4 DEF IsEntry
\* Open and closed places.
<1>10. ASSUME NEW p \in DOMAIN next.best
       PROVE  Open(next, p) \/ Closed(next, p)
  <2>1. CASE \E x \in new : x.at = p
    BY <1>3, <1>4, <2>1 DEF Open
  <2>2. CASE ~\E x \in new : x.at = p
    <3>1. p \in DOMAIN search.best /\ next.best[p] = search.best[p] /\ search.best[p] \in Nat
          /\ p \in Place
      BY <1>5, <1>6, <2>2
    <3>2. ASSUME NEW q \in Place, <<p, q>> \in search.edges,
                 q \in DOMAIN search.best,
                 search.best[q] <= search.best[p] + EdgeMinutes(p, q)
          PROVE  q \in DOMAIN next.best /\ next.best[q] <= next.best[p] + EdgeMinutes(p, q)
      <4>1. EdgeMinutes(p, q) \in Nat
        BY <3>1, EdgeType
      <4> QED BY <1>7, <3>1, <3>2, <4>1
    <3>3. CASE Closed(search, p)
      BY <1>3, <3>2, <3>3 DEF Closed
    <3>4. ASSUME NEW x \in search.heap, x # entry, x.at = p, x.minutes = search.best[p]
          PROVE  Open(next, p)
      BY <1>3, <3>1, <3>4 DEF Open
    <3>5. CASE entry.at = p /\ entry.minutes = search.best[p]
      <4>1. ASSUME NEW q \in Place, <<p, q>> \in next.edges
            PROVE  q \in DOMAIN next.best /\ next.best[q] <= next.best[p] + EdgeMinutes(p, q)
        <5>1. CASE /\ q \in DOMAIN search.best
                   /\ search.best[q] <= search.best[p] + EdgeMinutes(p, q)
          BY <1>3, <3>2, <4>1, <5>1
        <5>2. CASE ~(/\ q \in DOMAIN search.best
                     /\ search.best[q] <= search.best[p] + EdgeMinutes(p, q))
          <6>1. PICK x \in new : x.at = q
            BY <1>2, <1>3, <3>5, <4>1, <5>2
          <6>2. x.minutes \in Nat /\ x.minutes = next.best[p] + EdgeMinutes(p, q)
            BY <1>1, <3>1, <3>5, <6>1
          <6>3. q \in DOMAIN next.best /\ next.best[q] = x.minutes
            BY <1>4, <6>1
          <6> QED BY <6>2, <6>3
        <5> QED BY <5>1, <5>2
      <4> QED BY <1>3, <3>5, <4>1 DEF Closed
    <3> QED BY <3>1, <3>3, <3>4, <3>5 DEF Sound, Open
  <2> QED BY <2>1, <2>2
<1>11. Spot \in DOMAIN next.best /\ next.best[Spot] = 0
  <2>1. Spot \in DOMAIN search.best /\ search.best[Spot] = 0
    BY DEF Sound
  <2>2. Spot \in DOMAIN next.best /\ next.best[Spot] <= 0 /\ next.best[Spot] \in Nat
    BY <1>7, <2>1
  <2> QED BY <2>2
<1>12. Sound(next)
  <2>1. search.to \in Place /\ search.edges = Edges(Place)
    BY DEF Sound
  <2>2. \A x \in next.heap : IsEntry(next, x)
    BY <1>3, <1>8, <1>9
  <2> QED BY <1>3, <1>6, <1>10, <1>11, <2>1, <2>2 DEF Sound
<1> QED BY <1>12 DEF next, new

\* What a search answers.
IsFastest(answer) ==
  LET paths == PathsTo(Place, Spot, answer.to)
  IN  IF paths = {} THEN answer.path = <<>>
      ELSE /\ answer.path \in paths
           /\ answer.minutes = Duration(answer.path)
           /\ \A s \in paths : answer.minutes <= Duration(s)

LEMMA TurnedSearch ==
  ASSUME NEW search, Sound(search), NEW next \in Turns(search)
  PROVE  \/ Sound(next)
         \/ DOMAIN next = {"at", "to", "minutes", "path"} /\ next.at = "ROUTED" /\ IsFastest(next)
<1>1. search.to \in Place /\ Spot \in Place
  BY PlanningAssumption DEF Sound
<1>2. CASE search.heap = {}
  <2>1. next = Nowise(search)
    BY <1>2 DEF Turns
  <2>2. DOMAIN next = {"at", "to", "minutes", "path"} /\ next.at = "ROUTED"
        /\ next.to = search.to /\ next.path = <<>>
    BY <2>1 DEF Nowise, Arrived
  <2>3. ASSUME NEW s \in PathsTo(Place, Spot, search.to)
        PROVE  FALSE
    <3>1. IsWay(s, Spot, search.to)
      BY <1>1, PathsAreWays
    <3>2. Duration(s) \in Int
      BY <3>1, DurationType DEF IsWay
    <3>3. Duration(s) + 1 \in Int /\ \A x \in search.heap : Duration(s) + 1 <= x.minutes
      BY <1>2, <3>2
    <3>4. Duration(s) + 1 <= Duration(s)
      <4> DEFINE m == Duration(s) + 1
      <4>1. m \in Int /\ \A x \in search.heap : m <= x.minutes
        BY <3>3
      <4> HIDE DEF m
      <4>2. m <= Duration(s)
        BY <3>1, <4>1, NothingIsFaster
      <4> QED BY <4>2 DEF m
    <3> QED BY <3>2, <3>4
  <2> QED BY <2>2, <2>3 DEF IsFastest
<1>3. ASSUME NEW entry \in search.heap, \A y \in search.heap : entry.minutes <= y.minutes,
             next = Popped(search, entry)
      PROVE  \/ Sound(next)
             \/ DOMAIN next = {"at", "to", "minutes", "path"} /\ next.at = "ROUTED"
                /\ IsFastest(next)
  <2>1. CASE entry.at # search.to
    BY <1>3, <2>1, ContinuedIsSound DEF Popped
  <2>2. CASE entry.at = search.to
    <3>1. next = Arrived(search, entry.minutes, entry.path)
      BY <1>3, <2>2 DEF Popped
    <3>2. DOMAIN next = {"at", "to", "minutes", "path"} /\ next.at = "ROUTED"
          /\ next.to = search.to /\ next.path = entry.path /\ next.minutes = entry.minutes
      BY <3>1 DEF Arrived
    <3>3. /\ entry.minutes \in Nat /\ entry.minutes = Duration(entry.path)
          /\ IsWay(entry.path, Spot, search.to)
      BY <2>2 DEF Sound, IsEntry
    <3>4. entry.path \in PathsTo(Place, Spot, search.to)
      BY <1>1, <3>3, WaysArePaths
    <3>5. ASSUME NEW s \in PathsTo(Place, Spot, search.to)
          PROVE  entry.minutes <= Duration(s)
      <4>1. IsWay(s, Spot, search.to)
        BY <1>1, PathsAreWays
      <4> QED BY <1>3, <3>3, <4>1, NothingIsFaster
    <3> QED BY <3>2, <3>3, <3>4, <3>5 DEF IsFastest
  <2> QED BY <2>1, <2>2
<1> QED BY <1>2, <1>3 DEF Turns

\* Every other step leaves the desk, or what it puts there is neither a search nor a route.
LEMMA OtherThanRouting ==
  ASSUME CaseTypes, DeskTypes, [Next]_vars, ~Turn, ~\E t \in Truck : AskRoute(t)
  PROVE  UNCHANGED desk \/ desk'.at \notin {"ROUTING", "ROUTED"}
<1>1. CASE Search
  BY <1>1, SearchFinds
<1>2. CASE Rank
  BY <1>2, RankedJobs
<1>3. CASE AskSplit \/ Divide \/ AskRelay \/ Answered
  BY <1>3, OtherQuestions
<1> QED BY <1>1, <1>2, <1>3, Elsewhere DEF Next

SearchIsSound == desk.at = "ROUTING" => Sound(desk)

\* Over any number of places, whatever the distances between them, the search ends with
\* the fastest of all paths, or without one where there is none: what is popped first is
\* no slower than what any path to the destination must still pass through.
THEOREM RouteAlwaysFastest == Spec => []RouteIsFastest
<1>1. Init => SearchIsSound /\ RouteIsFastest
  BY DEF Init, Idle, SearchIsSound, RouteIsFastest
<1>2. ASSUME CaseTypes, DeskTypes, SearchIsSound, RouteIsFastest, [Next]_vars
      PROVE  (SearchIsSound /\ RouteIsFastest)'
  <2>1. CASE Turn
    <3>1. Sound(desk) /\ desk' \in Turns(desk)
      BY <1>2, <2>1 DEF Turn, SearchIsSound
    <3>2. \/ Sound(desk')
          \/ /\ DOMAIN desk' = {"at", "to", "minutes", "path"} /\ desk'.at = "ROUTED"
             /\ IsFastest(desk')
      BY <3>1, TurnedSearch
    <3>3. CASE Sound(desk')
      <4>1. desk'.at = "ROUTING"
        BY <3>3 DEF Sound
      <4> QED BY <3>3, <4>1 DEF SearchIsSound, RouteIsFastest
    <3>4. CASE desk'.at = "ROUTED" /\ IsFastest(desk')
      BY <3>4 DEF SearchIsSound, RouteIsFastest, IsFastest
    <3> QED BY <3>2, <3>3, <3>4
  <2>2. ASSUME NEW t \in Truck, AskRoute(t)
        PROVE  (SearchIsSound /\ RouteIsFastest)'
    <3>1. fleet[t] \in TruckRow(Company)
      BY <1>2 DEF CaseTypes
    <3>2. Whereabouts(fleet[t]) \in Place
      BY <3>1 DEF TruckRow, Whereabouts
    <3>3. Sound(desk')
      BY <2>2, <3>2, SettingIsSound DEF AskRoute
    <3>4. desk'.at = "ROUTING"
      BY <3>3 DEF Sound
    <3> QED BY <3>3, <3>4 DEF SearchIsSound, RouteIsFastest
  <2>3. CASE ~Turn /\ ~\E t \in Truck : AskRoute(t)
    <3>1. UNCHANGED desk \/ desk'.at \notin {"ROUTING", "ROUTED"}
      BY <1>2, <2>3, OtherThanRouting
    <3>2. CASE UNCHANGED desk
      BY <1>2, <3>2 DEF SearchIsSound, RouteIsFastest
    <3>3. CASE desk'.at \notin {"ROUTING", "ROUTED"}
      BY <3>3 DEF SearchIsSound, RouteIsFastest
    <3> QED BY <3>1, <3>2, <3>3
  <2> QED BY <2>1, <2>2, <2>3
<1> QED BY <1>1, <1>2, DeskInvariant, PTL DEF Spec

-----------------------------------------------------------------------------
(* Dividing a load.                                                         *)

\* Rounding to the nearest does not pass a whole number that the quotient does not pass.
LEMMA ScaledBound ==
  ASSUME NEW a \in Nat, NEW b \in Nat, NEW c \in Nat \ {0}, NEW w \in Nat, a * b <= w * c
  PROVE  Scaled(a, b, c) \in 0 .. w
<1> DEFINE x == a * b
           h == c \div 2
           q == (x + h) \div c
<1>1. x \in Nat /\ h \in Nat /\ h < c /\ x <= w * c /\ w * c \in Nat
  BY ProductOfNats
<1>2. Scaled(a, b, c) = q
  BY DEF Scaled
<1> HIDE DEF x, h
<1>3. q \in Int /\ q * c <= x + h /\ x + h < q * c + c
  BY <1>1
<1> HIDE DEF q
<1>4. ASSUME q >= w + 1
      PROVE  FALSE
  <2>1. q * c = w * c + c + (q - w - 1) * c
    BY <1>3
  <2>2. (q - w - 1) * c >= 0
    BY <1>3, <1>4, ProductOfNats
  <2>3. q * c \in Int
    BY <1>3
  <2> QED BY <1>1, <1>3, <2>1, <2>2, <2>3
<1>5. ASSUME q <= -1
      PROVE  FALSE
  <2>1. q * c + c = -((-1 - q) * c)
    BY <1>3
  <2>2. (-1 - q) * c >= 0
    BY <1>3, <1>5, ProductOfNats
  <2> QED BY <1>1, <1>3, <2>1, <2>2
<1> QED BY <1>2, <1>3, <1>4, <1>5

\* A truck takes no more than is left and no more than it has room for.
LEMMA LegFits ==
  ASSUME NEW truck, truck.volume \in Nat, truck.weight \in Nat,
         NEW cargo \in Consignment,
         NEW left, left.volume \in Nat, left.weight \in Nat
  PROVE  LET leg == LegOf(truck, cargo, left)
         IN  /\ leg.volume \in 0 .. left.volume /\ leg.volume <= truck.volume
             /\ leg.weight \in 0 .. left.weight /\ leg.weight <= truck.weight
<1> DEFINE v == Smaller(left.volume, truck.volume)
           w == Smaller(left.weight, truck.weight)
           leg == LegOf(truck, cargo, left)
<1>1. cargo.volume \in Nat /\ cargo.weight \in Nat
  BY DEF Consignment
<1>2. /\ v \in 0 .. left.volume /\ v <= truck.volume
      /\ w \in 0 .. left.weight /\ w <= truck.weight
  BY DEF Smaller
<1>3. leg = IF cargo.volume = 0 \/ cargo.weight = 0 THEN [volume |-> v, weight |-> w]
            ELSE IF v * cargo.weight <= w * cargo.volume
                 THEN [volume |-> v, weight |-> Scaled(cargo.weight, v, cargo.volume)]
                 ELSE [volume |-> Scaled(cargo.volume, w, cargo.weight), weight |-> w]
  BY DEF LegOf
<1> HIDE DEF v, w, leg
<1>4. v \in Nat /\ w \in Nat
  BY <1>2
<1>5. leg.volume \in 0 .. v /\ leg.weight \in 0 .. w
  <2>1. CASE cargo.volume = 0 \/ cargo.weight = 0
    BY <1>3, <1>4, <2>1
  <2>2. CASE ~(cargo.volume = 0 \/ cargo.weight = 0) /\ v * cargo.weight <= w * cargo.volume
    <3>1. cargo.weight * v <= w * cargo.volume
      BY <1>1, <1>4, <2>2
    <3>2. Scaled(cargo.weight, v, cargo.volume) \in 0 .. w
      BY <1>1, <1>4, <2>2, <3>1, ScaledBound
    <3> QED BY <1>3, <1>4, <2>2, <3>2
  <2>3. CASE /\ ~(cargo.volume = 0 \/ cargo.weight = 0)
             /\ ~(v * cargo.weight <= w * cargo.volume)
    <3>1. cargo.volume * w <= v * cargo.weight
      <4>1. v * cargo.weight \in Int /\ w * cargo.volume \in Int
            /\ cargo.volume * w = w * cargo.volume
        BY <1>1, <1>4
      <4> QED BY <2>3, <4>1
    <3>2. Scaled(cargo.volume, w, cargo.weight) \in 0 .. v
      BY <1>1, <1>4, <2>3, <3>1, ScaledBound
    <3> QED BY <1>3, <1>4, <2>3, <3>2
  <2> QED BY <2>1, <2>2, <2>3
<1> QED BY <1>2, <1>5 DEF leg

\* What the legs come to.
Leg == [truck : Truck, volume : Nat, weight : Nat]

Volumes(legs) == [i \in 1 .. Len(legs) |-> legs[i].volume]
Weights(legs) == [i \in 1 .. Len(legs) |-> legs[i].weight]

LEMMA SumsOfLegs ==
  ASSUME NEW legs \in Seq(Leg)
  PROVE  /\ Volumes(legs) \in Seq(Int) /\ Len(Volumes(legs)) = Len(legs)
         /\ Weights(legs) \in Seq(Int) /\ Len(Weights(legs)) = Len(legs)
         /\ SumOf(legs, LAMBDA leg : leg.volume) = Summed(Volumes(legs))
         /\ SumOf(legs, LAMBDA leg : leg.weight) = Summed(Weights(legs))
<1>1. /\ Len(legs) \in Nat
      /\ \A i \in 1 .. Len(legs) : legs[i].volume \in Int /\ legs[i].weight \in Int
  <2>1. \A leg \in Leg : leg.volume \in Int /\ leg.weight \in Int
    BY DEF Leg
  <2> QED BY <2>1
<1> DEFINE n == Len(legs)
<1>2. Volumes(legs) \in [1 .. n -> Int] /\ Weights(legs) \in [1 .. n -> Int] /\ n \in Nat
  BY <1>1 DEF Volumes, Weights
<1>3. ASSUME NEW x \in [1 .. n -> Int]
      PROVE  x \in Seq(Int) /\ Len(x) = n
  <2> HIDE DEF n
  <2> QED BY <1>2
<1>4. /\ SumOf(legs, LAMBDA leg : leg.volume) = Summed(Volumes(legs))
      /\ SumOf(legs, LAMBDA leg : leg.weight) = Summed(Weights(legs))
  BY DEF SumOf, Volumes, Weights
<1> QED BY <1>2, <1>3, <1>4

LEMMA SumsOfMore ==
  ASSUME NEW legs \in Seq(Leg), NEW leg \in Leg
  PROVE  /\ Summed(Volumes(Append(legs, leg))) = Summed(Volumes(legs)) + leg.volume
         /\ Summed(Weights(Append(legs, leg))) = Summed(Weights(legs)) + leg.weight
<1> DEFINE n == Len(legs)
           more == Append(legs, leg)
<1>1. /\ n \in Nat /\ more \in Seq(Leg) /\ Len(more) = n + 1 /\ more[n + 1] = leg
      /\ \A i \in 1 .. n : more[i] = legs[i]
  BY AppendProperties
<1>2. leg.volume \in Int /\ leg.weight \in Int
  BY DEF Leg
<1>3. /\ Volumes(legs) \in Seq(Int) /\ Len(Volumes(legs)) = n
      /\ Weights(legs) \in Seq(Int) /\ Len(Weights(legs)) = n
      /\ Volumes(more) \in Seq(Int) /\ Len(Volumes(more)) = n + 1
      /\ Weights(more) \in Seq(Int) /\ Len(Weights(more)) = n + 1
  <2>1. /\ Volumes(more) \in Seq(Int) /\ Len(Volumes(more)) = Len(more)
        /\ Weights(more) \in Seq(Int) /\ Len(Weights(more)) = Len(more)
    <3> HIDE DEF more
    <3> QED BY <1>1, SumsOfLegs
  <2> QED BY <1>1, <2>1, SumsOfLegs
<1>4. /\ \A i \in 1 .. n : Volumes(more)[i] = Volumes(legs)[i]
      /\ \A i \in 1 .. n : Weights(more)[i] = Weights(legs)[i]
      /\ Volumes(more)[n + 1] = leg.volume /\ Weights(more)[n + 1] = leg.weight
  <2>1. \A i \in 1 .. n + 1 : Volumes(more)[i] = more[i].volume /\ Weights(more)[i] = more[i].weight
    BY <1>1 DEF Volumes, Weights
  <2>2. \A i \in 1 .. n : Volumes(legs)[i] = legs[i].volume /\ Weights(legs)[i] = legs[i].weight
    BY DEF Volumes, Weights
  <2> HIDE DEF more, n
  <2> QED BY <1>1, <2>1, <2>2
<1> HIDE DEF more, n
\* A list that is another and one more is the other with that appended.
<1>5. ASSUME NEW x \in Seq(Int), NEW y \in Seq(Int), NEW v \in Int,
             Len(x) = n, Len(y) = n + 1, y[n + 1] = v, \A i \in 1 .. n : y[i] = x[i]
      PROVE  y = Append(x, v)
  <2>1. /\ Append(x, v) \in Seq(Int) /\ Len(Append(x, v)) = n + 1 /\ Append(x, v)[n + 1] = v
        /\ \A i \in 1 .. n : Append(x, v)[i] = x[i]
    BY <1>5, AppendProperties
  <2>2. \A i \in 1 .. n + 1 : y[i] = Append(x, v)[i]
    BY <1>1, <1>5, <2>1
  <2> QED BY <1>5, <2>1, <2>2, SeqEqual
<1>6. Volumes(more) = Append(Volumes(legs), leg.volume)
  BY <1>2, <1>3, <1>4, <1>5
<1>7. Weights(more) = Append(Weights(legs), leg.weight)
  BY <1>2, <1>3, <1>4, <1>5
<1> QED BY <1>2, <1>3, <1>6, <1>7, SummedAppend DEF more

\* What the first trucks of an order have taken, and what is left.
Stage == [left : [volume : Nat, weight : Nat], legs : Seq(Leg)]

IsTaken(trucks, order, cargo, i, done) ==
  LET legs == done.legs
  IN  /\ done \in Stage
      /\ Len(legs) <= MaxTrucks
      /\ Summed(Volumes(legs)) = cargo.volume - done.left.volume
      /\ Summed(Weights(legs)) = cargo.weight - done.left.weight
      /\ \A j \in 1 .. Len(legs) :
           /\ \E k \in 1 .. i : legs[j].truck = order[k]
           /\ legs[j].volume <= trucks[legs[j].truck].volume
           /\ legs[j].weight <= trucks[legs[j].truck].weight
      /\ \A j, k \in 1 .. Len(legs) : legs[j].truck = legs[k].truck => j = k

LEMMA NothingTaken ==
  ASSUME NEW trucks, NEW order, NEW cargo \in Consignment
  PROVE  IsTaken(trucks, order, cargo, 0, Untouched(cargo))
<1> DEFINE done == Untouched(cargo)
<1>1. cargo.volume \in Nat /\ cargo.weight \in Nat
  BY DEF Consignment
<1>2. /\ done \in Stage /\ done.legs = <<>>
      /\ done.left.volume = cargo.volume /\ done.left.weight = cargo.weight
  BY <1>1 DEF Untouched, Stage
<1>3. Volumes(<<>>) = <<>> /\ Weights(<<>>) = <<>> /\ Len(<<>>) = 0
  BY DEF Volumes, Weights
<1> HIDE DEF done
<1>4. Len(done.legs) <= MaxTrucks
  BY <1>2, <1>3, SplittingAssumption
<1>5. /\ Summed(Volumes(done.legs)) = cargo.volume - done.left.volume
      /\ Summed(Weights(done.legs)) = cargo.weight - done.left.weight
  BY <1>1, <1>2, <1>3, SummedEmpty
<1> QED BY <1>2, <1>3, <1>4, <1>5 DEF IsTaken, done

LEMMA StageType ==
  ASSUME NEW trucks \in [Truck -> TruckRow(Company)], NEW cargo \in Consignment,
         NEW done \in Stage, NEW t \in Truck
  PROVE  /\ Loading(trucks, cargo, done, t) \in Stage
         /\ \/ Loading(trucks, cargo, done, t) = done
            \/ \E leg \in Leg :
                 /\ leg.truck = t
                 /\ leg.volume <= trucks[t].volume /\ leg.weight <= trucks[t].weight
                 /\ Len(done.legs) < MaxTrucks
                 /\ Loading(trucks, cargo, done, t).legs = Append(done.legs, leg)
                 /\ Loading(trucks, cargo, done, t).left.volume = done.left.volume - leg.volume
                 /\ Loading(trucks, cargo, done, t).left.weight = done.left.weight - leg.weight
<1> DEFINE part == LegOf(trucks[t], cargo, done.left)
           leg  == [truck |-> t, volume |-> part.volume, weight |-> part.weight]
           next == [left |-> [volume |-> done.left.volume - part.volume,
                              weight |-> done.left.weight - part.weight],
                    legs |-> Append(done.legs, leg)]
<1>1. /\ done.left.volume \in Nat /\ done.left.weight \in Nat /\ done.legs \in Seq(Leg)
      /\ trucks[t] \in TruckRow(Company)
  BY DEF Stage
<1>2. trucks[t].volume \in Nat /\ trucks[t].weight \in Nat
  BY <1>1 DEF TruckRow
<1>3. /\ part.volume \in 0 .. done.left.volume /\ part.volume <= trucks[t].volume
      /\ part.weight \in 0 .. done.left.weight /\ part.weight <= trucks[t].weight
  BY <1>1, <1>2, LegFits
<1>4. Loading(trucks, cargo, done, t) =
        IF \/ done.left.volume <= 0 /\ done.left.weight <= 0
           \/ Len(done.legs) >= MaxTrucks
           \/ part.volume < MinUsefulLeg /\ done.left.volume > MinUsefulLeg
        THEN done ELSE next
  BY DEF Loading
<1> HIDE DEF part
<1>5. leg \in Leg /\ leg.truck = t /\ leg.volume = part.volume /\ leg.weight = part.weight
  BY <1>1, <1>3 DEF Leg
<1>6. /\ next.legs = Append(done.legs, leg)
      /\ next.left.volume = done.left.volume - leg.volume
      /\ next.left.weight = done.left.weight - leg.weight
  OBVIOUS
<1>7. next \in Stage
  <2> HIDE DEF leg
  <2>1. Append(done.legs, leg) \in Seq(Leg)
    BY <1>1, <1>5, AppendProperties
  <2>2. done.left.volume - part.volume \in Nat /\ done.left.weight - part.weight \in Nat
    BY <1>1, <1>3
  <2> QED BY <2>1, <2>2 DEF Stage
<1> HIDE DEF next, leg
<1>8. CASE Loading(trucks, cargo, done, t) = done
  BY <1>8
<1>9. CASE Loading(trucks, cargo, done, t) = next /\ ~(Len(done.legs) >= MaxTrucks)
  <2>1. Len(done.legs) < MaxTrucks
    BY <1>1, <1>9, SplittingAssumption
  <2>2. leg.volume <= trucks[t].volume /\ leg.weight <= trucks[t].weight
    BY <1>3, <1>5
  <2> QED BY <1>5, <1>6, <1>7, <1>9, <2>1, <2>2
<1> QED BY <1>4, <1>8, <1>9

\* One truck more.
LEMMA MoreTaken ==
  ASSUME NEW trucks \in [Truck -> TruckRow(Company)], NEW cargo \in Consignment,
         NEW n \in Nat, NEW order \in [1 .. n -> Truck],
         \A j, k \in 1 .. n : j < k => order[j] # order[k],
         NEW i \in 1 .. n, NEW done, IsTaken(trucks, order, cargo, i - 1, done)
  PROVE  IsTaken(trucks, order, cargo, i, Loading(trucks, cargo, done, order[i]))
<1> DEFINE t == order[i]
           next == Loading(trucks, cargo, done, t)
           m == Len(done.legs)
<1>1. /\ done \in Stage /\ m <= MaxTrucks
      /\ Summed(Volumes(done.legs)) = cargo.volume - done.left.volume
      /\ Summed(Weights(done.legs)) = cargo.weight - done.left.weight
      /\ \A j \in 1 .. m :
           /\ \E k \in 1 .. i - 1 : done.legs[j].truck = order[k]
           /\ done.legs[j].volume <= trucks[done.legs[j].truck].volume
           /\ done.legs[j].weight <= trucks[done.legs[j].truck].weight
      /\ \A j, k \in 1 .. m : done.legs[j].truck = done.legs[k].truck => j = k
  BY DEF IsTaken
<1>2. /\ t \in Truck /\ done.legs \in Seq(Leg) /\ m \in Nat
      /\ done.left.volume \in Nat /\ done.left.weight \in Nat
      /\ cargo.volume \in Nat /\ cargo.weight \in Nat
  BY <1>1 DEF Stage, Consignment
<1>3. \A k \in 1 .. i - 1 : k \in 1 .. i /\ order[k] # t
  BY <1>2
<1>4. /\ next \in Stage
      /\ \/ next = done
         \/ \E leg \in Leg :
              /\ leg.truck = t
              /\ leg.volume <= trucks[t].volume /\ leg.weight <= trucks[t].weight
              /\ m < MaxTrucks
              /\ next.legs = Append(done.legs, leg)
              /\ next.left.volume = done.left.volume - leg.volume
              /\ next.left.weight = done.left.weight - leg.weight
  BY <1>1, <1>2, StageType
<1> HIDE DEF next
<1>5. ASSUME next = done
      PROVE  IsTaken(trucks, order, cargo, i, next)
  <2>1. \A j \in 1 .. m : \E k \in 1 .. i : done.legs[j].truck = order[k]
    BY <1>1, <1>3
  <2>2. IsTaken(trucks, order, cargo, i, done)
    BY <1>1, <2>1 DEF IsTaken
  <2> QED BY <1>5, <2>2
<1>6. ASSUME NEW leg \in Leg,
             leg.truck = t,
             leg.volume <= trucks[t].volume, leg.weight <= trucks[t].weight,
             m < MaxTrucks,
             next.legs = Append(done.legs, leg),
             next.left.volume = done.left.volume - leg.volume,
             next.left.weight = done.left.weight - leg.weight
      PROVE  IsTaken(trucks, order, cargo, i, next)
  <2>1. /\ Len(next.legs) = m + 1 /\ next.legs[m + 1] = leg
        /\ \A j \in 1 .. m : next.legs[j] = done.legs[j]
    BY <1>2, <1>6, AppendProperties
  <2>2. leg.volume \in Nat /\ leg.weight \in Nat
    BY DEF Leg
  <2>3. /\ Summed(Volumes(next.legs)) = cargo.volume - next.left.volume
        /\ Summed(Weights(next.legs)) = cargo.weight - next.left.weight
    <3>1. /\ Summed(Volumes(next.legs)) = Summed(Volumes(done.legs)) + leg.volume
          /\ Summed(Weights(next.legs)) = Summed(Weights(done.legs)) + leg.weight
      BY <1>2, <1>6, SumsOfMore
    <3>2. Summed(Volumes(next.legs)) = cargo.volume - next.left.volume
      <4> DEFINE a == Summed(Volumes(done.legs))
                 b == Summed(Volumes(next.legs))
                 c == cargo.volume
                 d == done.left.volume
                 e == next.left.volume
                 v == leg.volume
      <4>1. c \in Int /\ d \in Int /\ v \in Int /\ a = c - d /\ b = a + v /\ e = d - v
        BY <1>1, <1>2, <1>6, <2>2, <3>1
      <4> HIDE DEF a, b, c, d, e, v
      <4>2. b = c - e
        BY <4>1
      <4> QED BY <4>2 DEF b, c, e
    <3>3. Summed(Weights(next.legs)) = cargo.weight - next.left.weight
      <4> DEFINE a == Summed(Weights(done.legs))
                 b == Summed(Weights(next.legs))
                 c == cargo.weight
                 d == done.left.weight
                 e == next.left.weight
                 v == leg.weight
      <4>1. c \in Int /\ d \in Int /\ v \in Int /\ a = c - d /\ b = a + v /\ e = d - v
        BY <1>1, <1>2, <1>6, <2>2, <3>1
      <4> HIDE DEF a, b, c, d, e, v
      <4>2. b = c - e
        BY <4>1
      <4> QED BY <4>2 DEF b, c, e
    <3> QED BY <3>2, <3>3
  <2>4. Len(next.legs) <= MaxTrucks
    BY <1>2, <1>6, <2>1, SplittingAssumption
  <2> HIDE DEF m, t
  <2>5. ASSUME NEW j \in 1 .. m + 1
        PROVE  /\ j # m + 1 => /\ j \in 1 .. m /\ next.legs[j] = done.legs[j]
                               /\ next.legs[j].truck # t
               /\ j = m + 1 => next.legs[j] = leg /\ next.legs[j].truck = t
    <3>1. CASE j = m + 1
      BY <1>6, <2>1, <3>1
    <3>2. CASE j # m + 1
      <4>1. j \in 1 .. m
        BY <1>2, <3>2
      <4> QED BY <1>1, <1>3, <2>1, <3>2, <4>1
    <3> QED BY <3>1, <3>2
  <2>6. ASSUME NEW j \in 1 .. m + 1
        PROVE  /\ \E k \in 1 .. i : next.legs[j].truck = order[k]
               /\ next.legs[j].volume <= trucks[next.legs[j].truck].volume
               /\ next.legs[j].weight <= trucks[next.legs[j].truck].weight
    <3>1. CASE j = m + 1
      <4>1. next.legs[j] = leg /\ i \in 1 .. i
        BY <2>5, <3>1
      <4> QED BY <1>6, <4>1 DEF t
    <3>2. CASE j # m + 1
      BY <1>1, <1>3, <2>5, <3>2
    <3> QED BY <3>1, <3>2
  <2>7. ASSUME NEW j \in 1 .. m + 1, NEW k \in 1 .. m + 1,
               next.legs[j].truck = next.legs[k].truck
        PROVE  j = k
    <3>1. CASE j = m + 1
      BY <2>5, <2>7, <3>1
    <3>2. CASE k = m + 1
      BY <2>5, <2>7, <3>2
    <3>3. CASE j # m + 1 /\ k # m + 1
      BY <1>1, <2>5, <2>7, <3>3
    <3> QED BY <3>1, <3>2, <3>3
  <2> QED BY <1>4, <2>1, <2>3, <2>4, <2>6, <2>7 DEF IsTaken
<1>7. IsTaken(trucks, order, cargo, i, next)
  BY <1>4, <1>5, <1>6
<1> QED BY <1>7 DEF next

\* The whole order.
LEMMA AllTaken ==
  ASSUME NEW trucks \in [Truck -> TruckRow(Company)], NEW cargo \in Consignment,
         NEW order \in Seq(Truck),
         \A j, k \in 1 .. Len(order) : j < k => order[j] # order[k]
  PROVE  IsTaken(trucks, order, cargo, Len(order), Loaded(trucks, order, cargo))
<1> DEFINE n == Len(order)
           Course(f) == f = [i \in 0 .. n |->
                              IF i = 0 THEN Untouched(cargo)
                              ELSE Loading(trucks, cargo, f[i - 1], order[i])]
           done == CHOOSE f : Course(f)
<1>1. Loaded(trucks, order, cargo) = done[n]
  BY DEF Loaded
<1>2. n \in Nat /\ order \in [1 .. n -> Truck]
  OBVIOUS
<1>3. \E f : Course(f)
  <2> DEFINE step == [i \in 1 .. n |-> [d \in Stage |-> Loading(trucks, cargo, d, order[i])]]
  <2>1. step \in StepsOn(n, Stage)
    <3>1. ASSUME NEW i \in 1 .. n, NEW d \in Stage
          PROVE  Loading(trucks, cargo, d, order[i]) \in Stage
      BY <1>2, StageType
    <3> QED BY <3>1 DEF StepsOn
  <2>2. Untouched(cargo) \in Stage
    BY NothingTaken DEF IsTaken
  <2>3. PICK f : IsRun(f, n, Stage, Untouched(cargo), step)
    <3> HIDE DEF step, n
    <3> QED BY <1>2, <2>1, <2>2, Iteration
  <2>4. /\ f \in [0 .. n -> Stage] /\ f[0] = Untouched(cargo)
        /\ \A i \in 1 .. n : f[i] = step[i][f[i - 1]]
    <3> HIDE DEF step
    <3> QED BY <2>3 DEF IsRun
  <2>5. ASSUME NEW i \in 1 .. n
        PROVE  f[i] = Loading(trucks, cargo, f[i - 1], order[i])
    <3>1. i - 1 \in 0 .. n
      BY <1>2
    <3>2. f[i - 1] \in Stage
      BY <2>4, <3>1
    <3> QED BY <2>4, <3>2
  <2>6. \A i \in 0 .. n : f[i] = IF i = 0 THEN Untouched(cargo)
                                 ELSE Loading(trucks, cargo, f[i - 1], order[i])
    BY <1>2, <2>4, <2>5
  <2>7. f = [i \in 0 .. n |-> f[i]]
    BY <2>4
  <2>8. Course(f)
    <3> HIDE DEF step
    <3> QED BY <2>6, <2>7
  <2> QED BY <2>8
<1>4. Course(done)
  <2> HIDE DEF Course
  <2> QED BY <1>3
<1> HIDE DEF done
<1> DEFINE G == {i \in 0 .. n : IsTaken(trucks, order, cargo, i, done[i])}
<1>5. 0 \in G
  BY <1>2, <1>4, NothingTaken
<1>6. ASSUME NEW i \in 1 .. n, i - 1 \in G
      PROVE  i \in G
  <2>1. done[i] = Loading(trucks, cargo, done[i - 1], order[i])
    BY <1>2, <1>4
  <2>2. IsTaken(trucks, order, cargo, i - 1, done[i - 1])
    BY <1>6
  <2> HIDE DEF Course, n
  <2>3. IsTaken(trucks, order, cargo, i, done[i])
    BY <1>2, <2>1, <2>2, MoreTaken DEF n
  <2> QED BY <1>2, <2>3
<1>7. 0 .. n \subseteq G
  <2> HIDE DEF G, n
  <2> QED BY <1>2, <1>5, <1>6, UpTo
<1>8. n \in 0 .. n
  BY <1>2
<1> QED BY <1>1, <1>7, <1>8

\* There is a largest leg, and a first one of the largest.
LEMMA LargestLeg ==
  ASSUME NEW legs \in Seq(Leg), Len(legs) >= 1
  PROVE  \E i \in DOMAIN legs :
           \A j \in DOMAIN legs : /\ legs[j].volume <= legs[i].volume
                                  /\ legs[j].volume = legs[i].volume => i <= j
<1> DEFINE n == Len(legs)
           v == Volumes(legs)
<1>1. n \in Nat \ {0} /\ DOMAIN legs = 1 .. n
  OBVIOUS
<1>2. \A i \in 1 .. n : v[i] = legs[i].volume /\ legs[i].volume \in Nat
  <2>1. \A leg \in Leg : leg.volume \in Nat
    BY DEF Leg
  <2> QED BY <2>1 DEF Volumes
<1> HIDE DEF v
<1>3. \E b \in Nat : \A i \in 1 .. n : v[i] <= b
  <2> DEFINE G == {k \in 0 .. n : \E b \in Nat : \A i \in 1 .. k : v[i] <= b}
  <2>1. 0 \in G
    BY <1>1
  <2>2. ASSUME NEW k \in 1 .. n, k - 1 \in G
        PROVE  k \in G
    <3>1. PICK b \in Nat : \A i \in 1 .. k - 1 : v[i] <= b
      BY <2>2
    <3>2. v[k] \in Nat /\ \A i \in 1 .. k - 1 : v[i] \in Nat
      BY <1>1, <1>2
    <3>3. \A i \in 1 .. k : v[i] <= Larger(b, v[k])
      <4>1. ASSUME NEW i \in 1 .. k
            PROVE  v[i] <= Larger(b, v[k])
        <5>1. CASE i = k
          BY <3>2, <5>1 DEF Larger
        <5>2. CASE i # k
          <6>1. i \in 1 .. k - 1
            BY <5>2
          <6> QED BY <3>1, <3>2, <6>1 DEF Larger
        <5> QED BY <5>1, <5>2
      <4> QED BY <4>1
    <3>4. Larger(b, v[k]) \in Nat
      BY <3>2 DEF Larger
    <3>5. \E c \in Nat : \A i \in 1 .. k : v[i] <= c
      BY <3>3, <3>4, Zenon
    <3>6. k \in 0 .. n
      BY <1>1
    <3> QED BY <3>5, <3>6, Zenon
  <2>3. 0 .. n \subseteq G
    <3> HIDE DEF G, n
    <3> QED BY <1>1, <2>1, <2>2, UpTo
  <2>4. n \in 0 .. n
    BY <1>1
  <2> QED BY <2>3, <2>4, Zenon
<1>4. PICK b \in Nat : \A i \in 1 .. n : v[i] <= b
  BY <1>3
<1> HIDE DEF n
<1>5. PICK i \in 1 .. n : \A j \in 1 .. n : v[j] <= v[i]
  <2> DEFINE T == {b - v[i] : i \in 1 .. n}
  <2>1. T \subseteq Nat /\ T # {}
    BY <1>1, <1>2, <1>4
  <2>2. PICK x \in T : \A y \in T : x <= y
    <3> HIDE DEF T
    <3> QED BY <2>1, LeastNumber
  <2>3. PICK i \in 1 .. n : x = b - v[i]
    BY <2>2
  <2>4. \A j \in 1 .. n : b - v[i] <= b - v[j]
    BY <2>2, <2>3
  <2>5. \A j \in 1 .. n : v[j] \in Nat
    BY <1>2
  <2> HIDE DEF T
  <2> QED BY <2>4, <2>5
<1>6. PICK k \in 1 .. n : v[k] = v[i] /\ \A j \in 1 .. n : v[j] = v[i] => k <= j
  <2> DEFINE T == {j \in 1 .. n : v[j] = v[i]}
  <2>1. T \subseteq Nat /\ T # {}
    BY <1>1
  <2>2. PICK k \in T : \A j \in T : k <= j
    <3> HIDE DEF T
    <3> QED BY <2>1, LeastNumber
  <2> QED BY <2>2
<1>7. \A j \in 1 .. n : legs[j].volume <= legs[k].volume
                        /\ (legs[j].volume = legs[k].volume => k <= j)
  BY <1>2, <1>5, <1>6
<1> QED BY <1>1, <1>7

\* What rounding has left over is carried too, and changes no weight and no truck.
LEMMA SettledLegs ==
  ASSUME NEW done \in Stage, done.left.volume <= 1, Len(done.legs) >= 1
  PROVE  LET legs == Settled(done)
         IN  /\ legs \in Seq(Leg) /\ Len(legs) = Len(done.legs)
             /\ Summed(Volumes(legs)) = Summed(Volumes(done.legs)) + done.left.volume
             /\ Summed(Weights(legs)) = Summed(Weights(done.legs))
             /\ \A i \in 1 .. Len(legs) :
                  /\ legs[i].truck = done.legs[i].truck
                  /\ legs[i].weight = done.legs[i].weight
                  /\ legs[i].volume <= done.legs[i].volume + 1
<1> DEFINE old == done.legs
           n == Len(old)
           d == done.left.volume
           legs == Settled(done)
<1>1. /\ old \in Seq(Leg) /\ d \in 0 .. 1 /\ n \in Nat \ {0} /\ DOMAIN old = 1 .. n
      /\ \A i \in 1 .. n : old[i] \in Leg
  BY DEF Stage
<1>2. \A leg \in Leg : leg.volume \in Nat /\ leg.weight \in Nat
  BY DEF Leg
<1>3. /\ Volumes(old) \in Seq(Int) /\ Len(Volumes(old)) = n
      /\ Summed(Volumes(old)) \in Int
  BY <1>1, SumsOfLegs, SummedType
<1>4. CASE d = 0
  <2>1. legs = old
    BY <1>4 DEF Settled
  <2> QED BY <1>1, <1>2, <1>3, <1>4, <2>1
<1>5. CASE d # 0
  <2> DEFINE Large(i) == \A j \in DOMAIN old : /\ old[j].volume <= old[i].volume
                                               /\ old[j].volume = old[i].volume => i <= j
             big == CHOOSE i \in DOMAIN old : Large(i)
  <2>1. big \in 1 .. n
    <3>1. \E i \in DOMAIN old : Large(i)
      BY <1>1, LargestLeg
    <3> HIDE DEF Large
    <3> QED BY <1>1, <3>1
  <2>2. legs = [old EXCEPT ![big].volume = old[big].volume + d]
    BY <1>5 DEF Settled
  <2> HIDE DEF big, legs, old, d, n
  <2> DEFINE changed == [old[big] EXCEPT !.volume = old[big].volume + d]
  <2>3. old[big] \in Leg
    BY <1>1, <2>1
  <2>4. /\ changed \in Leg /\ changed.truck = old[big].truck
        /\ changed.weight = old[big].weight /\ changed.volume = old[big].volume + d
    <3>1. old[big].volume + d \in Nat
      BY <1>1, <1>2, <2>3
    <3> QED BY <2>3, <3>1 DEF Leg
  <2>5. legs = [i \in 1 .. n |-> IF i = big THEN changed ELSE old[i]]
    <3>1. legs = [old EXCEPT ![big] = changed]
      BY <2>2
    <3> HIDE DEF changed
    <3> QED BY <1>1, <3>1
  <2> HIDE DEF changed
  <2>6. legs \in [1 .. n -> Leg]
    BY <1>1, <2>4, <2>5
  <2>7. legs \in Seq(Leg) /\ Len(legs) = n
    BY <1>1, <2>6
  <2>8. \A i \in 1 .. n : legs[i] = IF i = big THEN changed ELSE old[i]
    BY <2>5
  <2>9. ASSUME NEW i \in 1 .. n
        PROVE  /\ legs[i].truck = old[i].truck /\ legs[i].weight = old[i].weight
               /\ legs[i].volume = IF i = big THEN old[i].volume + d ELSE old[i].volume
               /\ legs[i].volume <= old[i].volume + 1
               /\ old[i].volume \in Nat
    BY <1>1, <1>2, <2>4, <2>8
  <2>10. Summed(Volumes(legs)) = Summed(Volumes(old)) + d
    <3> DEFINE w == Volumes(old)
               x == Volumes(legs)
    <3>1. w \in Seq(Int) /\ Len(w) = n /\ x \in Seq(Int) /\ Len(x) = n
      BY <1>1, <2>7, SumsOfLegs DEF n
    <3>2. \A i \in 1 .. n : w[i] = old[i].volume /\ x[i] = legs[i].volume
      BY <2>7 DEF Volumes, n
    <3> HIDE DEF w, x
    <3>3. x[big] = w[big] + d /\ \A i \in 1 .. n : i # big => x[i] = w[i]
      BY <2>1, <2>9, <3>2
    <3>4. Summed(x) = Summed(w) + d
      <4>1. big \in 1 .. Len(w) /\ d \in Int /\ Len(x) = Len(w)
            /\ \A i \in 1 .. Len(w) : i # big => x[i] = w[i]
        BY <1>1, <2>1, <3>1, <3>3
      <4> QED BY <3>1, <3>3, <4>1, SummedChanged
    <3> QED BY <3>4 DEF w, x
  <2>11. Weights(legs) = Weights(old)
    BY <2>7, <2>9 DEF Weights, n
  <2> QED BY <2>7, <2>9, <2>10, <2>11 DEF n, d, old, legs
<1> QED BY <1>4, <1>5

\* What is asked of the legs of a plan.
Carried(legs, trucks, cargo) ==
  LET weight == SumOf(legs, LAMBDA leg : leg.weight)
  IN  /\ Len(legs) \in 2 .. MaxTrucks
      /\ SumOf(legs, LAMBDA leg : leg.volume) = cargo.volume
      /\ weight - cargo.weight \in -1 .. 0
      /\ \A i, j \in DOMAIN legs : legs[i].truck = legs[j].truck => i = j
      /\ \A i \in DOMAIN legs :
           LET truck == trucks[legs[i].truck]
           IN  /\ Compatible(truck, cargo, FALSE)
               /\ legs[i].volume <= truck.volume + 1
               /\ legs[i].weight <= truck.weight

LEMMA PlannedLegs ==
  ASSUME CaseTypes, NEW S, S \subseteq Truck, \A t \in S : Compatible(fleet[t], load, FALSE),
         NEW plan \in Plans(fleet, S, load, Spot), plan.legs # <<>>
  PROVE  Carried(plan.legs, fleet, load)
<1> DEFINE Roomy == {t \in S : fleet[t].volume > 0 /\ fleet[t].weight > 0}
<1>1. PICK order \in LoadingOrders(fleet, S, Spot) :
        LET done == Loaded(fleet, order, load)
        IN  /\ ~(done.left.volume > 1 \/ done.left.weight > 1 \/ Len(done.legs) < 2)
            /\ plan = [legs |-> Settled(done)]
  <2>1. PICK order \in LoadingOrders(fleet, S, Spot) :
          LET done == Loaded(fleet, order, load)
          IN  plan = IF \/ load.volume <= 0 /\ load.weight <= 0
                        \/ Len(order) < 2
                        \/ ~Covered(fleet, order, load)
                        \/ done.left.volume > 1 \/ done.left.weight > 1
                        \/ Len(done.legs) < 2
                     THEN NoPlan
                     ELSE [legs |-> Settled(done)]
    BY DEF Plans
  <2>2. plan # NoPlan
    BY DEF NoPlan
  <2> QED BY <2>1, <2>2, Zenon
<1>2. /\ order \in [1 .. Cardinality(Roomy) -> Roomy]
      /\ \A i, j \in DOMAIN order : i < j => order[i] # order[j]
  BY <1>1 DEF LoadingOrders, Listings
<1>3. Roomy \subseteq Truck /\ Cardinality(Roomy) \in Nat
  <2>1. Roomy \subseteq Truck
    OBVIOUS
  <2> HIDE DEF Roomy
  <2> QED BY <2>1, PlanningAssumption, FS_Subset, FS_CardinalityType
<1> DEFINE n == Cardinality(Roomy)
<1>4. /\ order \in Seq(Truck) /\ Len(order) = n /\ n \in Nat
      /\ \A i \in 1 .. n : order[i] \in S
      /\ \A j, k \in 1 .. Len(order) : j < k => order[j] # order[k]
  <2>1. n \in Nat /\ order \in [1 .. n -> Truck] /\ \A i \in 1 .. n : order[i] \in Roomy
    BY <1>2, <1>3
  <2>2. DOMAIN order = 1 .. n
    BY <2>1
  <2>3. \A i \in 1 .. n : order[i] \in S
    BY <2>1
  <2> HIDE DEF n, Roomy
  <2>4. order \in Seq(Truck) /\ Len(order) = n
    BY <2>1
  <2> QED BY <1>2, <2>1, <2>2, <2>3, <2>4
<1> DEFINE done == Loaded(fleet, order, load)
           old  == done.legs
           legs == Settled(done)
<1>5. fleet \in [Truck -> TruckRow(Company)] /\ load \in Consignment
  BY DEF CaseTypes
<1>6. IsTaken(fleet, order, load, n, done)
  BY <1>4, <1>5, AllTaken
<1>7. plan.legs = legs /\ ~(done.left.volume > 1) /\ ~(done.left.weight > 1) /\ ~(Len(old) < 2)
  BY <1>1
<1> HIDE DEF n, Roomy, done
<1>8. /\ done \in Stage /\ old \in Seq(Leg) /\ Len(old) \in Nat
      /\ done.left.volume \in Nat /\ done.left.weight \in Nat
      /\ load.volume \in Nat /\ load.weight \in Nat
  BY <1>5, <1>6 DEF IsTaken, Stage, Consignment
<1>9. /\ Len(old) <= MaxTrucks
      /\ Summed(Volumes(old)) = load.volume - done.left.volume
      /\ Summed(Weights(old)) = load.weight - done.left.weight
      /\ \A j \in 1 .. Len(old) :
           /\ \E k \in 1 .. n : old[j].truck = order[k]
           /\ old[j].volume <= fleet[old[j].truck].volume
           /\ old[j].weight <= fleet[old[j].truck].weight
      /\ \A j, k \in 1 .. Len(old) : old[j].truck = old[k].truck => j = k
  BY <1>6 DEF IsTaken
<1>10. done.left.volume <= 1 /\ done.left.weight <= 1 /\ Len(old) >= 2
  BY <1>7, <1>8
<1>11. /\ legs \in Seq(Leg) /\ Len(legs) = Len(old)
       /\ Summed(Volumes(legs)) = Summed(Volumes(old)) + done.left.volume
       /\ Summed(Weights(legs)) = Summed(Weights(old))
       /\ \A i \in 1 .. Len(legs) : /\ legs[i].truck = old[i].truck
                                    /\ legs[i].weight = old[i].weight
                                    /\ legs[i].volume <= old[i].volume + 1
  <2>1. Len(old) >= 1
    BY <1>8, <1>10
  <2> QED BY <1>8, <1>10, <2>1, SettledLegs
<1> HIDE DEF legs, old
<1>12. SumOf(legs, LAMBDA leg : leg.volume) = load.volume
  <2>1. SumOf(legs, LAMBDA leg : leg.volume) = Summed(Volumes(legs))
    BY <1>11, SumsOfLegs
  <2> QED BY <1>8, <1>9, <1>11, <2>1
<1>13. SumOf(legs, LAMBDA leg : leg.weight) - load.weight \in -1 .. 0
  <2>1. SumOf(legs, LAMBDA leg : leg.weight) = Summed(Weights(legs))
    BY <1>11, SumsOfLegs
  <2>2. Summed(Weights(legs)) = load.weight - done.left.weight
    BY <1>9, <1>11
  <2> QED BY <1>8, <1>10, <2>1, <2>2
<1>14. Len(legs) \in 2 .. MaxTrucks /\ DOMAIN legs = 1 .. Len(legs)
  BY <1>8, <1>9, <1>10, <1>11, SplittingAssumption
<1>15. \A i, j \in DOMAIN legs : legs[i].truck = legs[j].truck => i = j
  BY <1>9, <1>11, <1>14
<1>16. ASSUME NEW i \in DOMAIN legs
       PROVE  LET truck == fleet[legs[i].truck]
              IN  /\ Compatible(truck, load, FALSE)
                  /\ legs[i].volume <= truck.volume + 1
                  /\ legs[i].weight <= truck.weight
  <2> DEFINE t == old[i].truck
  <2>1. /\ i \in 1 .. Len(old) /\ legs[i].truck = t /\ old[i] \in Leg /\ legs[i] \in Leg
        /\ legs[i].weight = old[i].weight /\ legs[i].volume <= old[i].volume + 1
    BY <1>8, <1>11, <1>14
  <2>2. t \in S /\ t \in Truck
    BY <1>4, <1>9, <2>1
  <2>3. Compatible(fleet[t], load, FALSE)
    BY <2>2
  <2>4. fleet[t] \in TruckRow(Company)
    BY <1>5, <2>2
  <2>5. /\ fleet[t].volume \in Nat /\ old[i].volume \in Nat /\ legs[i].volume \in Nat
    BY <2>1, <2>4 DEF TruckRow, Leg
  <2>6. old[i].volume <= fleet[t].volume /\ old[i].weight <= fleet[t].weight
    BY <1>9, <2>1
  <2>7. legs[i].volume <= fleet[t].volume + 1
    BY <2>1, <2>5, <2>6
  <2> QED BY <2>1, <2>3, <2>6, <2>7
<1>17. Carried(legs, fleet, load)
  BY <1>12, <1>13, <1>14, <1>15, <1>16 DEF Carried
<1> QED BY <1>7, <1>17

LEMMA DividedLegs ==
  ASSUME CaseTypes, Divide, desk'.legs # <<>>
  PROVE  Carried(desk'.legs, desk'.trucks, load)
<1>1. PICK raw \in Found(FALSE, PartialLimit) :
        \E plan \in Plans(fleet, ToSet(raw), load, Spot) :
          /\ desk'.legs = plan.legs /\ desk'.trucks = fleet
  <2>1. PICK raw \in Found(FALSE, PartialLimit) :
          \E plan \in Plans(fleet, ToSet(raw), load, Spot) : \E a, b :
            desk' = [at |-> "SPLIT", required |-> a, legs |-> plan.legs, trucks |-> fleet,
                     short |-> b]
    BY Zenon DEF Divide
  <2>2. PICK plan \in Plans(fleet, ToSet(raw), load, Spot) : \E a, b :
          desk' = [at |-> "SPLIT", required |-> a, legs |-> plan.legs, trucks |-> fleet,
                   short |-> b]
    BY <2>1
  <2>3. desk'.legs = plan.legs /\ desk'.trucks = fleet
    BY <2>2
  <2> QED BY <2>3
<1>2. raw \in Seq(Suited(fleet, Stranded, load, Spot, Radius, FALSE))
  BY FoundSuited DEF PartialLimit
<1>3. ToSet(raw) \subseteq Suited(fleet, Stranded, load, Spot, Radius, FALSE)
  <2> DEFINE T == Suited(fleet, Stranded, load, Spot, Radius, FALSE)
  <2>1. raw \in Seq(T)
    BY <1>2
  <2> HIDE DEF T
  <2>2. ToSet(raw) \subseteq T
    BY <2>1 DEF ToSet
  <2> QED BY <2>2 DEF T
<1>4. ToSet(raw) \subseteq Truck /\ \A t \in ToSet(raw) : Compatible(fleet[t], load, FALSE)
  <2>1. \A t \in Suited(fleet, Stranded, load, Spot, Radius, FALSE) :
          t \in Truck /\ Compatible(fleet[t], load, FALSE)
    BY DEF Suited, CaseTypes
  <2> QED BY <1>3, <2>1
<1> QED BY <1>1, <1>4, PlannedLegs

\* The other steps divide nothing.
LEMMA OtherThanDividing ==
  ASSUME CaseTypes, DeskTypes, [Next]_vars, ~Divide
  PROVE  UNCHANGED desk \/ desk'.at # "SPLIT"
<1>1. CASE Search
  BY <1>1, SearchFinds
<1>2. CASE Rank
  BY <1>2, RankedJobs
<1>3. CASE \/ AskSplit \/ AskRelay \/ Turn \/ Answered
           \/ \E t \in Truck : AskRoute(t)
  BY <1>3, OtherQuestions
<1> QED BY <1>1, <1>2, <1>3, Elsewhere DEF Next

\* However many trucks there are, whatever room they have and however the shares are
\* rounded, a plan carries the load, and no truck of it is overloaded or counted twice.
THEOREM PlanAlwaysCarries == Spec => []PlanCarriesTheLoad
<1>1. Init => PlanCarriesTheLoad
  BY DEF Init, Idle, PlanCarriesTheLoad
<1>2. ASSUME CaseTypes, DeskTypes, PlanCarriesTheLoad, [Next]_vars
      PROVE  PlanCarriesTheLoad'
  <2>1. UNCHANGED load
    BY <1>2, LoadStays
  <2>2. CASE Divide
    <3>1. desk'.legs # <<>> => Carried(desk'.legs, desk'.trucks, load)
      BY <1>2, <2>2, DividedLegs
    <3> QED BY <2>1, <3>1 DEF PlanCarriesTheLoad, Carried, SumOf
  <2>3. CASE ~Divide
    <3>1. UNCHANGED desk \/ desk'.at # "SPLIT"
      BY <1>2, <2>3, OtherThanDividing
    <3>2. CASE UNCHANGED desk
      BY <1>2, <2>1, <3>2 DEF PlanCarriesTheLoad, SumOf
    <3>3. CASE desk'.at # "SPLIT"
      BY <3>3 DEF PlanCarriesTheLoad
    <3> QED BY <3>1, <3>2, <3>3
  <2> QED BY <2>2, <2>3
<1> QED BY <1>1, <1>2, DeskInvariant, PTL DEF Spec

=============================================================================
