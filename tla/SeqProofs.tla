----------------------------- MODULE SeqProofs ------------------------------
(***************************************************************************)
(* Facts about numbers and sequences that the proofs of several components *)
(* rest on.  Induction is stated for a set of numbers rather than for a    *)
(* predicate, and recursion for a function that gives the next value; both *)
(* follow from the well-foundedness of strict inclusion of finite sets.    *)
(***************************************************************************)
EXTENDS Integers, Sequences, SequencesExt, FiniteSetTheorems, TLAPS

-----------------------------------------------------------------------------
\* Induction and recursion.

\* A set of natural numbers that is not empty has a smallest element.
LEMMA LeastElement ==
    ASSUME NEW T \in SUBSET Nat, T # {}
    PROVE  \E x \in T : \A y \in T : x <= y
<1> DEFINE U == {0 .. m : m \in T}
           R == StrictSubsetOrdering(Nat)
           F == FiniteSubsetsOf(Nat)
<1>1. U \subseteq F
  <2>1. \A m \in Nat : IsFiniteSet(0 .. m)
    BY FS_Interval
  <2>2. QED
    BY <2>1 DEF FiniteSubsetsOf
<1>2. U # {}
  OBVIOUS
<1>3. IsWellFoundedOn(R, F)
  BY FS_StrictSubsetOrderingWellFounded
<1>4. PICK w \in U : \A v \in U : ~(<<v, w>> \in R)
  <2> HIDE DEF U, R, F
  <2> QED
    BY <1>1, <1>2, <1>3, WFMin
<1>5. PICK x \in T : w = 0 .. x
  OBVIOUS
<1>6. ASSUME NEW y \in T, y < x
      PROVE  FALSE
  <2>1. 0 .. y \subseteq Nat /\ 0 .. x \subseteq Nat /\ 0 .. y \subseteq 0 .. x
    BY <1>6
  <2>2. x \in 0 .. x /\ x \notin 0 .. y
    BY <1>6
  <2>3. <<0 .. y, 0 .. x>> \in R
    BY <2>1, <2>2 DEF StrictSubsetOrdering
  <2>4. QED
    BY <1>4, <1>5, <2>3
<1>7. QED
  BY <1>6

\* Induction up to n: a set that has 0 and, with every number below n, the next
\* one has all numbers up to n.
LEMMA InductionUpTo ==
    ASSUME NEW n \in Nat, NEW S, 0 \in S, \A k \in 1 .. n : k - 1 \in S => k \in S
    PROVE  0 .. n \subseteq S
<1> DEFINE T == (0 .. n) \ S
<1>1. SUFFICES ASSUME T # {}
               PROVE  FALSE
  OBVIOUS
<1>2. PICK x \in T : \A y \in T : x <= y
  <2>1. T \in SUBSET Nat
    OBVIOUS
  <2>2. QED
    BY <1>1, <2>1, LeastElement
<1>3. x \in 1 .. n /\ x - 1 \in 0 .. n /\ x - 1 \notin T
  BY <1>2
<1>4. QED
  BY <1>2, <1>3

\* f is defined by its value at 0 and by a function that gives each later value
\* from the one before.
IsRecursion(f, S, a, n, step) ==
    /\ f \in [0 .. n -> S] /\ f[0] = a
    /\ \A k \in 1 .. n : f[k] = step[<<f[k - 1], k>>]

\* Such a function exists.
LEMMA RecursionUpTo ==
    ASSUME NEW S, NEW a \in S, NEW n \in Nat, NEW step \in [S \X (1 .. n) -> S]
    PROVE  \E f : IsRecursion(f, S, a, n, step)
<1> DEFINE Defines(f, m) == IsRecursion(f, S, a, m, step)
           P == {m \in 0 .. n : \E f : Defines(f, m)}
<1>0. \A m \in 0 .. n : \A f : Defines(f, m) => m \in P
  <2> HIDE DEF Defines
  <2> QED
    OBVIOUS
<1>1. 0 \in P
  <2>1. Defines([k \in 0 .. 0 |-> a], 0)
    BY DEF IsRecursion
  <2> HIDE DEF Defines, P
  <2>2. QED
    BY <1>0, <2>1
<1>2. ASSUME NEW m \in 1 .. n, m - 1 \in P
      PROVE  m \in P
  <2>1. PICK f : Defines(f, m - 1)
    BY <1>2
  <2>2. f[m - 1] \in S /\ step[<<f[m - 1], m>>] \in S
    BY <2>1 DEF IsRecursion
  <2> DEFINE g == [k \in 0 .. m |-> IF k = m THEN step[<<f[m - 1], m>>] ELSE f[k]]
  <2>3. g \in [0 .. m -> S]
    BY <2>1, <2>2 DEF IsRecursion
  <2>4. g[0] = a
    BY <2>1 DEF IsRecursion
  <2>5. ASSUME NEW k \in 1 .. m
        PROVE  g[k] = step[<<g[k - 1], k>>]
    <3>1. g[k - 1] = f[k - 1]
      OBVIOUS
    <3>2. k # m => k \in 1 .. m - 1 /\ g[k] = f[k]
      OBVIOUS
    <3>3. CASE k = m
      <4>1. g[m] = step[<<f[m - 1], m>>]
        OBVIOUS
      <4>2. g[m - 1] = f[m - 1]
        BY <3>1, <3>3
      <4> HIDE DEF g
      <4>3. QED
        BY <3>3, <4>1, <4>2
    <3>4. CASE k # m
      BY <2>1, <3>1, <3>2, <3>4 DEF IsRecursion
    <3>5. QED
      BY <3>3, <3>4
  <2>6. Defines(g, m)
    BY <2>3, <2>4, <2>5 DEF IsRecursion
  <2> HIDE DEF Defines, P, g
  <2>7. QED
    BY <1>0, <2>6
<1>3. 0 .. n \subseteq P
  <2> HIDE DEF P
  <2> QED
    BY <1>1, <1>2, InductionUpTo
<1>4. n \in P
  BY <1>3
<1>5. QED
  BY <1>4

-----------------------------------------------------------------------------
\* Sequences without repetitions.

Distinct(q) == \A i, j \in DOMAIN q : q[i] = q[j] => i = j

\* A function on 1 .. n is a sequence of length n.
LEMMA FunctionIsSeq ==
    ASSUME NEW S, NEW n \in Nat, NEW q \in [1 .. n -> S]
    PROVE  q \in Seq(S) /\ Len(q) = n /\ DOMAIN q = 1 .. n
OBVIOUS

\* A sequence that names nobody twice names as many as it is long.
LEMMA DistinctCount ==
    ASSUME NEW S, NEW q \in Seq(S), Distinct(q)
    PROVE  Cardinality({q[i] : i \in DOMAIN q}) = Len(q)
<1> DEFINE Named == {q[i] : i \in DOMAIN q}
<1>1. Len(q) \in Nat /\ DOMAIN q = 1 .. Len(q)
  OBVIOUS
<1>2. q \in Bijection(1 .. Len(q), Named)
  <2>1. q \in [1 .. Len(q) -> Named]
    BY <1>1
  <2>2. \A n \in Named : \E i \in 1 .. Len(q) : q[i] = n
    BY <1>1
  <2>3. QED
    BY <1>1, <2>1, <2>2 DEF Distinct, Bijection, Injection, Surjection, IsInjective
<1>3. IsFiniteSet(1 .. Len(q)) /\ Cardinality(1 .. Len(q)) = Len(q)
  BY <1>1, FS_Interval, SMTT(30), SMTT(30)
<1>4. QED
  BY <1>2, <1>3, FS_Bijection DEF ExistsBijection

-----------------------------------------------------------------------------
\* A loop that keeps the entries of q other than x: kept[k] is what it has kept
\* of the first k.

IsFilter(kept, q, x) ==
    kept = [k \in 0 .. Len(q) |->
              IF k = 0 THEN <<>>
              ELSE IF q[k] = x THEN kept[k - 1] ELSE Append(kept[k - 1], q[k])]

\* The recursion has a solution.
LEMMA FilterExists ==
    ASSUME NEW S, NEW q \in Seq(S), NEW x
    PROVE  \E kept : IsFilter(kept, q, x)
<1>1. PICK n \in Nat : n = Len(q)
  OBVIOUS
<1>2. \A k \in 1 .. n : q[k] \in S
  BY <1>1
<1> DEFINE step == [z \in Seq(S) \X (1 .. n) |->
                      IF q[z[2]] = x THEN z[1] ELSE Append(z[1], q[z[2]])]
<1>3. step \in [Seq(S) \X (1 .. n) -> Seq(S)]
  BY <1>2
<1>4. PICK f : IsRecursion(f, Seq(S), <<>>, n, step)
  <2>1. <<>> \in Seq(S)
    OBVIOUS
  <2> HIDE DEF step
  <2>2. QED
    BY <1>3, <2>1, RecursionUpTo
<1>5. ASSUME NEW k \in 1 .. n
      PROVE  f[k] = IF q[k] = x THEN f[k - 1] ELSE Append(f[k - 1], q[k])
  <2>1. k - 1 \in 0 .. n
    OBVIOUS
  <2>2. f[k - 1] \in Seq(S)
    BY <1>4, <2>1 DEF IsRecursion
  <2>3. QED
    BY <1>4, <2>2 DEF IsRecursion
<1>6. f = [k \in 0 .. n |-> IF k = 0 THEN <<>>
                            ELSE IF q[k] = x THEN f[k - 1] ELSE Append(f[k - 1], q[k])]
  <2> HIDE DEF step
  <2>1. \A k \in 0 .. n : k # 0 => k \in 1 .. n
    OBVIOUS
  <2>2. f = [k \in 0 .. n |-> f[k]] /\ f[0] = <<>>
    BY <1>4 DEF IsRecursion
  <2>3. \A k \in 0 .. n : f[k] = IF k = 0 THEN <<>>
                            ELSE IF q[k] = x THEN f[k - 1] ELSE Append(f[k - 1], q[k])
    BY <1>5, <2>1, <2>2, Zenon
  <2>4. QED
    BY <2>2, <2>3, Zenon
<1>7. QED
  BY <1>1, <1>6 DEF IsFilter

\* r has, each once, the entries of the first k of q other than x.
Keeps(r, q, k, x, S) ==
    /\ r \in Seq(S) /\ Distinct(r) /\ Len(r) <= k
    /\ \A y \in S : (\E j \in DOMAIN r : r[j] = y)
                      <=> (\E j \in 1 .. k : q[j] = y) /\ y # x

\* One turn of the loop, on a sequence without repetitions.
LEMMA FilterTurn ==
    ASSUME NEW S, NEW q \in Seq(S), Distinct(q), NEW x \in S, NEW k \in 1 .. Len(q),
           NEW r, Keeps(r, q, k - 1, x, S)
    PROVE  Keeps(IF q[k] = x THEN r ELSE Append(r, q[k]), q, k, x, S)
<1>0. PICK t : t = IF q[k] = x THEN r ELSE Append(r, q[k])
  OBVIOUS
<1>1. Len(q) \in Nat /\ DOMAIN q = 1 .. Len(q) /\ q[k] \in S
  OBVIOUS
<1>2. \A y \in S : (\E j \in 1 .. k : q[j] = y)
                     <=> (\E j \in 1 .. k - 1 : q[j] = y) \/ y = q[k]
  OBVIOUS
<1>3. CASE q[k] = x
  BY <1>0, <1>1, <1>2, <1>3, SMTT(30), SMTT(30) DEF Keeps
<1>4. CASE q[k] # x
  <2>1. /\ t \in Seq(S) /\ Len(t) = Len(r) + 1 /\ DOMAIN t = 1 .. Len(r) + 1
        /\ Len(r) \in Nat /\ DOMAIN r = 1 .. Len(r)
        /\ \A j \in 1 .. Len(r) : t[j] = r[j]
        /\ t[Len(r) + 1] = q[k]
    BY <1>0, <1>1, <1>4 DEF Keeps
  <2>2. \A j \in DOMAIN r : r[j] # q[k]
    <3> SUFFICES ASSUME NEW j \in DOMAIN r, r[j] = q[k]
                 PROVE  FALSE
      OBVIOUS
    <3>1. PICK m \in 1 .. k - 1 : q[m] = q[k]
      BY <1>1 DEF Keeps
    <3>2. m \in DOMAIN q /\ k \in DOMAIN q /\ m # k
      BY <1>1
    <3>3. QED
      BY <3>1, <3>2 DEF Distinct
  <2>3. \A j \in DOMAIN t : j \in DOMAIN r \/ j = Len(r) + 1
    BY <2>1
  <2>4. Distinct(t)
    BY <2>1, <2>2, <2>3 DEF Distinct, Keeps
  <2>5. \A y \in S : (\E j \in DOMAIN t : t[j] = y)
                       <=> (\E j \in DOMAIN r : r[j] = y) \/ y = q[k]
    BY <2>1, <2>3
  <2>6. Len(t) <= k
    BY <2>1 DEF Keeps
  <2>7. QED
    BY <1>0, <1>2, <1>4, <2>1, <2>4, <2>5, <2>6 DEF Keeps
<1>5. QED
  BY <1>3, <1>4

\* The loop keeps every entry but x, each once, if no entry occurs twice.
LEMMA FilterKeeps ==
    ASSUME NEW S, NEW q \in Seq(S), Distinct(q), NEW x \in S, NEW kept,
           IsFilter(kept, q, x)
    PROVE  Keeps(kept[Len(q)], q, Len(q), x, S)
<1>1. PICK n \in Nat : n = Len(q)
  OBVIOUS
<1> DEFINE Good(k) == Keeps(kept[k], q, k, x, S)
           P == {k \in 0 .. n : Good(k)}
<1>2. kept[0] = <<>>
  BY <1>1 DEF IsFilter
<1>3. Good(0)
  BY <1>2 DEF Distinct, Keeps
<1>4. ASSUME NEW k \in 1 .. n, Good(k - 1)
      PROVE  Good(k)
  <2>1. k \in 0 .. Len(q) /\ k # 0 /\ k \in 1 .. Len(q)
    BY <1>1
  <2>2. kept[k] = IF q[k] = x THEN kept[k - 1] ELSE Append(kept[k - 1], q[k])
    BY <2>1, Zenon DEF IsFilter
  <2>3. Keeps(IF q[k] = x THEN kept[k - 1] ELSE Append(kept[k - 1], q[k]), q, k, x, S)
    BY <1>4, <2>1, FilterTurn
  <2>4. QED
    BY <2>2, <2>3, Zenon
<1>5. 0 .. n \subseteq P
  <2> HIDE DEF Good
  <2>1. 0 \in P
    BY <1>3
  <2>2. \A k \in 1 .. n : k - 1 \in P => k \in P
    BY <1>4
  <2> HIDE DEF P
  <2>3. QED
    BY <2>1, <2>2, InductionUpTo
<1>6. Good(n)
  <2>1. n \in 0 .. n
    OBVIOUS
  <2>2. QED
    BY <1>5, <2>1, Zenon
<1>7. QED
  BY <1>1, <1>6

-----------------------------------------------------------------------------
\* Numbers.

\* The product of numbers grows with each of them.
LEMMA ProductGrows ==
    ASSUME NEW b \in Nat \ {0}, NEW m \in Nat, NEW n \in Nat, m > n
    PROVE  m * b >= n * b + b
OBVIOUS

\* Division with a remainder.
LEMMA DivMod ==
    ASSUME NEW b \in Nat \ {0}, NEW n \in Nat
    PROVE  /\ n = (n \div b) * b + (n % b) /\ n % b \in 0 .. b - 1 /\ n \div b \in Nat
OBVIOUS

\* Two digits of a number below b * b give it back.
LEMMA TwoDigits ==
    ASSUME NEW b \in Nat \ {0}, NEW n \in Nat, n < b * b
    PROVE  (n \div b) % b = n \div b /\ n \div b \in 0 .. b - 1
<1>1. /\ n = (n \div b) * b + (n % b) /\ n % b \in 0 .. b - 1 /\ n \div b \in Nat
  BY DivMod
<1>2. PICK q \in Nat : q = n \div b
  BY <1>1
<1>3. q < b
  <2>1. SUFFICES ASSUME ~(q < b)
                 PROVE  FALSE
    OBVIOUS
  <2>2. q * b >= b * b
    BY <2>1
  <2>3. QED
    BY <1>1, <1>2, <2>2
<1>4. QED
  BY <1>2, <1>3

\* A digit behind a number, hidden from the provers where the product is in the way.
Shift(n, m, d) == n * m + d

\* There is one way to shift a digit in.
LEMMA ShiftUnique ==
    ASSUME NEW b \in Nat, b > 0, NEW m \in Nat, NEW n \in Nat,
           NEW x \in 0 .. b - 1, NEW y \in 0 .. b - 1, Shift(m, b, x) = Shift(n, b, y)
    PROVE  m = n /\ x = y
<1>1. m > n => m * b >= n * b + b
  BY ProductGrows
<1>2. n > m => n * b >= m * b + b
  BY ProductGrows
<1>3. m * b \in Nat /\ n * b \in Nat /\ m * b + x = n * b + y
  BY DEF Shift
<1>4. QED
  BY <1>1, <1>2, <1>3

-----------------------------------------------------------------------------
\* Sequences, entry by entry.

\* A sequence is determined by its entries.
LEMMA SameEntries ==
    ASSUME NEW S, NEW T, NEW q \in Seq(S), NEW r \in Seq(T), Len(q) = Len(r),
           \A i \in 1 .. Len(q) : q[i] = r[i]
    PROVE  q = r
OBVIOUS

\* Two sequences in a row.
LEMMA ConcatEntries ==
    ASSUME NEW S, NEW q \in Seq(S), NEW r \in Seq(S)
    PROVE  /\ q \o r \in Seq(S) /\ Len(q \o r) = Len(q) + Len(r)
           /\ \A k \in 1 .. Len(q) + Len(r) :
                 (q \o r)[k] = IF k <= Len(q) THEN q[k] ELSE r[k - Len(q)]
OBVIOUS

\* A part of a sequence.
LEMMA PartEntries ==
    ASSUME NEW S, NEW q \in Seq(S), NEW m \in 1 .. Len(q) + 1, NEW n \in m - 1 .. Len(q)
    PROVE  /\ SubSeq(q, m, n) \in Seq(S) /\ Len(SubSeq(q, m, n)) = n - m + 1
           /\ \A k \in 1 .. n - m + 1 : SubSeq(q, m, n)[k] = q[m + k - 1]
OBVIOUS

\* What is behind the first n entries, and these.
LEMMA RestOf ==
    ASSUME NEW S, NEW c \in Seq(S), NEW n \in 0 .. Len(c)
    PROVE  /\ SubSeq(c, n + 1, Len(c)) \in Seq(S)
           /\ Len(SubSeq(c, n + 1, Len(c))) = Len(c) - n
           /\ \A j \in 1 .. Len(c) - n : SubSeq(c, n + 1, Len(c))[j] = c[n + j]
<1>1. PICK l \in Nat : l = Len(c)
  OBVIOUS
<1>2. PICK m \in 1 .. Len(c) + 1 : m = n + 1
  BY <1>1
<1>3. l \in m - 1 .. Len(c)
  BY <1>1, <1>2
<1>4. PICK r : r = SubSeq(c, m, l)
  OBVIOUS
<1>5. r \in Seq(S) /\ Len(r) = l - m + 1 /\ \A k \in 1 .. l - m + 1 : r[k] = c[m + k - 1]
  BY <1>3, <1>4, PartEntries
<1>6. /\ l - m + 1 = l - n /\ \A k \in 1 .. l - n : m + k - 1 = n + k
  BY <1>2
<1>7. r \in Seq(S) /\ Len(r) = l - n /\ \A k \in 1 .. l - n : r[k] = c[n + k]
  BY <1>5, <1>6
<1>8. QED
  BY <1>1, <1>2, <1>4, <1>7

\* The first n entries.
LEMMA FirstOf ==
    ASSUME NEW S, NEW c \in Seq(S), NEW n \in 0 .. Len(c)
    PROVE  /\ SubSeq(c, 1, n) \in Seq(S) /\ Len(SubSeq(c, 1, n)) = n
           /\ \A j \in 1 .. n : SubSeq(c, 1, n)[j] = c[j]
<1>1. 1 \in 1 .. Len(c) + 1 /\ n \in 1 - 1 .. Len(c)
  OBVIOUS
<1>2. PICK r : r = SubSeq(c, 1, n)
  OBVIOUS
<1>3. r \in Seq(S) /\ Len(r) = n - 1 + 1 /\ \A k \in 1 .. n - 1 + 1 : r[k] = c[1 + k - 1]
  BY <1>1, <1>2, PartEntries
<1>4. n - 1 + 1 = n /\ \A k \in 1 .. n : 1 + k - 1 = k
  OBVIOUS
<1>5. QED
  BY <1>2, <1>3, <1>4

\* A part of what is behind the first entries.
LEMMA PartOfRest ==
    ASSUME NEW S, NEW c \in Seq(S), NEW at \in Nat, NEW n \in Nat, at + n <= Len(c), NEW r,
           r = SubSeq(c, at + 1, Len(c))
    PROVE  /\ SubSeq(r, n + 1, Len(r)) = SubSeq(c, (at + n) + 1, Len(c))
           /\ SubSeq(r, 1, n) \in Seq(S) /\ Len(SubSeq(r, 1, n)) = n
           /\ \A j \in 1 .. n : SubSeq(r, 1, n)[j] = c[at + j]
<1>1. PICK m \in Nat : m = Len(c) /\ at + n <= m
  OBVIOUS
<1>2. /\ r \in Seq(S) /\ Len(r) = m - at /\ \A j \in 1 .. m - at : r[j] = c[at + j]
  <2>1. at \in 0 .. Len(c)
    BY <1>1
  <2>2. QED
    BY <1>1, <2>1, RestOf
<1>3. PICK u : u = SubSeq(r, n + 1, Len(r))
  OBVIOUS
<1>4. /\ u \in Seq(S) /\ Len(u) = Len(r) - n
      /\ \A j \in 1 .. Len(r) - n : u[j] = r[n + j]
  <2>1. n \in 0 .. Len(r)
    BY <1>1, <1>2
  <2>2. QED
    BY <1>2, <1>3, <2>1, RestOf, ZenonT(30)
<1>5. PICK i \in 0 .. Len(c) : i = at + n
  BY <1>1
<1>6. PICK v : v = SubSeq(c, i + 1, Len(c))
  OBVIOUS
<1>7. v \in Seq(S) /\ Len(v) = Len(c) - i /\ \A j \in 1 .. Len(c) - i : v[j] = c[i + j]
  BY <1>6, RestOf
<1>8. ASSUME NEW j \in 1 .. Len(u)
      PROVE  u[j] = v[j]
  <2>1. j \in 1 .. Len(r) - n /\ j \in 1 .. Len(c) - i /\ n + j \in 1 .. m - at
    BY <1>1, <1>2, <1>4, <1>5
  <2>2. u[j] = r[n + j] /\ r[n + j] = c[at + (n + j)] /\ v[j] = c[i + j]
    BY <1>2, <1>4, <1>7, <2>1
  <2>3. at + (n + j) = i + j
    BY <1>5
  <2>4. QED
    BY <2>2, <2>3
<1>9. Len(u) = Len(v)
  BY <1>1, <1>2, <1>4, <1>5, <1>7
<1>10. u = v
  BY <1>4, <1>7, <1>8, <1>9, SameEntries
<1>11. n \in 0 .. Len(r)
  BY <1>1, <1>2
<1>12. PICK y : y = SubSeq(r, 1, n)
  OBVIOUS
<1>13. y \in Seq(S) /\ Len(y) = n /\ \A j \in 1 .. n : y[j] = r[j]
  BY <1>2, <1>11, <1>12, FirstOf
<1>14. \A j \in 1 .. n : y[j] = c[at + j]
  BY <1>1, <1>2, <1>13
<1>15. QED
  BY <1>3, <1>5, <1>6, <1>10, <1>12, <1>13, <1>14

\* One more entry.
LEMMA FirstAppend ==
    ASSUME NEW S, NEW ss \in Seq(S), NEW k \in 1 .. Len(ss)
    PROVE  /\ Append(SubSeq(ss, 1, k - 1), ss[k]) = SubSeq(ss, 1, k)
           /\ SubSeq(ss, 1, k - 1) \in Seq(S)
<1>1. PICK j \in 0 .. Len(ss) : j = k - 1
  OBVIOUS
<1>2. PICK u : u = SubSeq(ss, 1, j)
  OBVIOUS
<1>3. u \in Seq(S) /\ Len(u) = j /\ \A i \in 1 .. j : u[i] = ss[i]
  BY <1>2, FirstOf
<1>4. PICK v : v = SubSeq(ss, 1, k)
  OBVIOUS
<1>5. v \in Seq(S) /\ Len(v) = k /\ \A i \in 1 .. k : v[i] = ss[i]
  <2>1. k \in 0 .. Len(ss)
    OBVIOUS
  <2>2. QED
    BY <1>4, <2>1, FirstOf
<1>6. PICK w : w = Append(u, ss[k])
  OBVIOUS
<1>7. ss[k] \in S
  OBVIOUS
<1>8. w \in Seq(S) /\ Len(w) = k /\ \A i \in 1 .. k : w[i] = IF i = k THEN ss[k] ELSE u[i]
  BY <1>1, <1>3, <1>6, <1>7
<1>9. \A i \in 1 .. k : w[i] = v[i]
  BY <1>1, <1>3, <1>5, <1>8, SMTT(30)
<1>10. w = v
  BY <1>5, <1>8, <1>9, SameEntries
<1>11. QED
  BY <1>1, <1>2, <1>3, <1>4, <1>6, <1>10

\* Concatenation as an operator, where the provers should not look into it.
Cat(x, y) == x \o y

\* Concatenation is associative.
LEMMA ConcatAssoc ==
    ASSUME NEW S, NEW x \in Seq(S), NEW y \in Seq(S), NEW z \in Seq(S)
    PROVE  Cat(x, Cat(y, z)) = Cat(Cat(x, y), z)
<1>1. PICK u, v : u = x \o y /\ v = y \o z
  OBVIOUS
<1>2. PICK l \in Nat, m \in Nat, n \in Nat : l = Len(x) /\ m = Len(y) /\ n = Len(z)
  OBVIOUS
<1>3. /\ u \in Seq(S) /\ Len(u) = l + m
      /\ \A k \in 1 .. l + m : u[k] = IF k <= l THEN x[k] ELSE y[k - l]
  BY <1>1, <1>2, ConcatEntries
<1>4. /\ v \in Seq(S) /\ Len(v) = m + n
      /\ \A k \in 1 .. m + n : v[k] = IF k <= m THEN y[k] ELSE z[k - m]
  BY <1>1, <1>2, ConcatEntries
<1>5. PICK p, q : p = x \o v /\ q = u \o z
  OBVIOUS
<1>6. /\ p \in Seq(S) /\ Len(p) = l + (m + n)
      /\ \A k \in 1 .. l + (m + n) : p[k] = IF k <= l THEN x[k] ELSE v[k - l]
  <2>1. /\ x \o v \in Seq(S) /\ Len(x \o v) = Len(x) + Len(v)
        /\ \A k \in 1 .. Len(x) + Len(v) :
              (x \o v)[k] = IF k <= Len(x) THEN x[k] ELSE v[k - Len(x)]
    BY <1>4, ConcatEntries
  <2>2. Len(x) = l /\ Len(v) = m + n
    BY <1>2, <1>4
  <2>3. QED
    BY <1>5, <2>1, <2>2, Zenon
<1>7. /\ q \in Seq(S) /\ Len(q) = (l + m) + n
      /\ \A k \in 1 .. (l + m) + n : q[k] = IF k <= l + m THEN u[k] ELSE z[k - (l + m)]
  <2>1. /\ u \o z \in Seq(S) /\ Len(u \o z) = Len(u) + Len(z)
        /\ \A k \in 1 .. Len(u) + Len(z) :
              (u \o z)[k] = IF k <= Len(u) THEN u[k] ELSE z[k - Len(u)]
    BY <1>3, ConcatEntries
  <2>2. Len(u) = l + m /\ Len(z) = n
    BY <1>2, <1>3
  <2>3. QED
    BY <1>5, <2>1, <2>2, Zenon
<1>8. ASSUME NEW k \in 1 .. l + (m + n)
      PROVE  p[k] = q[k]
  <2>1. k \in 1 .. (l + m) + n
    OBVIOUS
  <2>2. CASE k <= l
    <3>1. k \in 1 .. l + m /\ k <= l + m
      BY <2>2
    <3>2. QED
      BY <1>3, <1>6, <1>7, <2>1, <2>2, <3>1
  <2>3. CASE ~(k <= l) /\ k <= l + m
    <3>1. k - l \in 1 .. m + n /\ k - l <= m /\ k \in 1 .. l + m
      BY <2>3
    <3>2. QED
      BY <1>3, <1>4, <1>6, <1>7, <2>1, <2>3, <3>1
  <2>4. CASE ~(k <= l + m)
    <3>1. k - l \in 1 .. m + n /\ ~(k - l <= m) /\ ~(k <= l) /\ (k - l) - m = k - (l + m)
      BY <2>4
    <3>2. QED
      BY <1>4, <1>6, <1>7, <2>1, <2>4, <3>1
  <2>5. QED
    BY <2>2, <2>3, <2>4
<1>9. Len(p) = Len(q)
  BY <1>6, <1>7
<1>10. p = q
  BY <1>6, <1>7, <1>8, <1>9, SameEntries
<1>11. QED
  BY <1>1, <1>5, <1>10, Zenon DEF Cat

\* The two parts of a concatenation.
LEMMA ConcatParts ==
    ASSUME NEW S, NEW x \in Seq(S), NEW y \in Seq(S)
    PROVE  /\ SubSeq(x \o y, 1, Len(x)) = x
           /\ SubSeq(x \o y, Len(x) + 1, Len(x \o y)) = y
<1>1. PICK l \in Nat, m \in Nat : l = Len(x) /\ m = Len(y)
  OBVIOUS
<1>2. PICK z : z = x \o y
  OBVIOUS
<1>3. /\ z \in Seq(S) /\ Len(z) = l + m
      /\ \A k \in 1 .. l + m : z[k] = IF k <= l THEN x[k] ELSE y[k - l]
  BY <1>1, <1>2, ConcatEntries
<1>4. l \in 0 .. Len(z)
  BY <1>3
<1>5. PICK u : u = SubSeq(z, 1, l)
  OBVIOUS
<1>6. u \in Seq(S) /\ Len(u) = l /\ \A j \in 1 .. l : u[j] = z[j]
  BY <1>3, <1>4, <1>5, FirstOf
<1>7. \A j \in 1 .. l : u[j] = x[j]
  BY <1>3, <1>6
<1>8. u = x
  BY <1>1, <1>6, <1>7, SameEntries
<1>9. PICK v : v = SubSeq(z, l + 1, Len(z))
  OBVIOUS
<1>10. v \in Seq(S) /\ Len(v) = Len(z) - l /\ \A j \in 1 .. Len(z) - l : v[j] = z[l + j]
  BY <1>3, <1>4, <1>9, RestOf
<1>11. Len(v) = m /\ \A j \in 1 .. m : v[j] = z[l + j]
  BY <1>3, <1>10
<1>12. ASSUME NEW j \in 1 .. m
       PROVE  v[j] = y[j]
  <2>1. l + j \in 1 .. l + m /\ ~(l + j <= l) /\ (l + j) - l = j
    OBVIOUS
  <2>2. QED
    BY <1>3, <1>11, <2>1
<1>13. v = y
  BY <1>1, <1>10, <1>11, <1>12, SameEntries
<1>14. QED
  BY <1>1, <1>2, <1>5, <1>8, <1>9, <1>13

\* The entries of both parts are those of the whole.
LEMMA PartsIn ==
    ASSUME NEW S, NEW T, NEW x \in Seq(S), NEW y \in Seq(S), x \o y \in Seq(T)
    PROVE  x \in Seq(T) /\ y \in Seq(T)
<1>1. PICK l \in Nat, m \in Nat : l = Len(x) /\ m = Len(y)
  OBVIOUS
<1>2. PICK z \in Seq(T) : z = x \o y
  OBVIOUS
<1>3. Len(z) = l + m /\ \A k \in 1 .. l + m : z[k] = IF k <= l THEN x[k] ELSE y[k - l]
  BY <1>1, <1>2, ConcatEntries
<1>4. \A k \in 1 .. l + m : z[k] \in T
  BY <1>3
<1>5. ASSUME NEW k \in 1 .. l
      PROVE  x[k] \in T
  <2>1. k \in 1 .. l + m /\ k <= l
    OBVIOUS
  <2>2. QED
    BY <1>3, <1>4, <2>1
<1>6. ASSUME NEW k \in 1 .. m
      PROVE  y[k] \in T
  <2>1. l + k \in 1 .. l + m /\ ~(l + k <= l) /\ (l + k) - l = k
    OBVIOUS
  <2>2. QED
    BY <1>3, <1>4, <2>1
<1>7. x \in Seq(T)
  BY <1>1, <1>5
<1>8. y \in Seq(T)
  BY <1>1, <1>6
<1>9. QED
  BY <1>7, <1>8

-----------------------------------------------------------------------------
\* Sequences in a row.

\* c[k] is the concatenation of the first k sequences of qs.
IsConcat(c, qs, S) ==
    /\ c \in [0 .. Len(qs) -> Seq(S)] /\ c[0] = <<>>
    /\ \A k \in 1 .. Len(qs) : c[k] = c[k - 1] \o qs[k]

\* A sequence of sequences has concatenations.
LEMMA ConcatExists ==
    ASSUME NEW S, NEW qs \in Seq(Seq(S))
    PROVE  \E c : IsConcat(c, qs, S)
<1>1. PICK n \in Nat : n = Len(qs)
  OBVIOUS
<1>2. \A k \in 1 .. n : qs[k] \in Seq(S)
  BY <1>1
<1> DEFINE step == [z \in Seq(S) \X (1 .. n) |-> z[1] \o qs[z[2]]]
<1>3. step \in [Seq(S) \X (1 .. n) -> Seq(S)]
  BY <1>2
<1>4. PICK f : IsRecursion(f, Seq(S), <<>>, n, step)
  <2>1. <<>> \in Seq(S)
    OBVIOUS
  <2> HIDE DEF step
  <2>2. QED
    BY <1>3, <2>1, RecursionUpTo
<1>5. ASSUME NEW k \in 1 .. n
      PROVE  f[k] = f[k - 1] \o qs[k]
  <2>1. k - 1 \in 0 .. n
    OBVIOUS
  <2>2. f[k - 1] \in Seq(S)
    BY <1>4, <2>1 DEF IsRecursion
  <2>3. QED
    BY <1>4, <2>2 DEF IsRecursion
<1>6. f \in [0 .. n -> Seq(S)] /\ f[0] = <<>>
  BY <1>4 DEF IsRecursion
<1>7. IsConcat(f, qs, S)
  BY <1>1, <1>5, <1>6 DEF IsConcat
<1>8. QED
  BY <1>7

\* FlattenSeq gives the last of them.
LEMMA FlattenConcat ==
    ASSUME NEW S, NEW qs \in Seq(Seq(S)), NEW c, IsConcat(c, qs, S)
    PROVE  FlattenSeq(qs) = c[Len(qs)] /\ FlattenSeq(qs) \in Seq(S)
<1>1. PICK n \in Nat : n = Len(qs)
  OBVIOUS
<1>2. \A k \in 1 .. n : qs[k] \in Seq(S)
  BY <1>1
<1>3. c[n] \in Seq(S)
  BY <1>1 DEF IsConcat
<1>4. CASE n = 0
  <2>1. qs = <<>>
    <3>1. <<>> \in Seq(Seq(S)) /\ Len(<<>>) = 0
      OBVIOUS
    <3>2. Len(qs) = 0 /\ \A i \in 1 .. Len(qs) : qs[i] = <<>>[i]
      BY <1>1, <1>4
    <3>3. QED
      BY <3>1, <3>2, SameEntries
  <2>2. FlattenSeq(qs) = qs
    BY <1>1, <1>4 DEF FlattenSeq
  <2>3. c[n] = <<>>
    BY <1>4 DEF IsConcat
  <2>4. QED
    BY <1>1, <1>3, <2>1, <2>2, <2>3
<1>5. CASE n > 0
  <2> DEFINE Flat(f) == f = [i \in 1 .. n |-> IF i = 1 THEN qs[i] ELSE f[i - 1] \o qs[i]]
             flat == CHOOSE f : Flat(f)
  <2>1. FlattenSeq(qs) = flat[n]
    BY <1>1, <1>5 DEF FlattenSeq
  <2>2. ASSUME NEW i \in 1 .. n
        PROVE  c[i] = IF i = 1 THEN qs[i] ELSE c[i - 1] \o qs[i]
    <3>1. c[i] = c[i - 1] \o qs[i]
      BY <1>1 DEF IsConcat
    <3>2. CASE i = 1
      <4>1. i - 1 = 0 /\ c[0] = <<>>
        BY <3>2 DEF IsConcat
      <4>2. c[i] = <<>> \o qs[i]
        BY <3>1, <4>1
      <4>3. QED
        BY <1>2, <3>2, <4>2
    <3>3. QED
      BY <3>1, <3>2
  <2>3. Flat([i \in 1 .. n |-> c[i]])
    BY <2>2
  <2>4. \E f : Flat(f)
    <3> HIDE DEF Flat
    <3> QED
      BY <2>3
  <2>5. Flat(flat)
    <3> HIDE DEF Flat
    <3> QED
      BY <2>4, Zenon
  <2> HIDE DEF flat
  <2>6. \A k \in 1 .. n : flat[k] = IF k = 1 THEN qs[k] ELSE flat[k - 1] \o qs[k]
    BY <2>5, Zenon
  <2> DEFINE P == {k \in 0 .. n : k > 0 => flat[k] = c[k]}
  <2>7. 0 \in P
    OBVIOUS
  <2>8. \A k \in 1 .. n : k - 1 \in P => k \in P
    BY <2>2, <2>6
  <2>9. 0 .. n \subseteq P
    <3> HIDE DEF P
    <3> QED
      BY <2>7, <2>8, InductionUpTo
  <2>10. flat[n] = c[n]
    <3>1. n \in P
      BY <2>9
    <3>2. QED
      BY <1>5, <3>1
  <2>11. QED
    BY <1>1, <1>3, <2>1, <2>10
<1>6. QED
  BY <1>4, <1>5

\* One more sequence at the end.
LEMMA FlattenAppend ==
    ASSUME NEW S, NEW qs \in Seq(Seq(S)), NEW v \in Seq(S)
    PROVE  FlattenSeq(Append(qs, v)) = FlattenSeq(qs) \o v
<1>1. PICK n \in Nat : n = Len(qs)
  OBVIOUS
<1>2. PICK c : IsConcat(c, qs, S)
  BY ConcatExists
<1>3. FlattenSeq(qs) = c[n] /\ c[n] \in Seq(S)
  BY <1>1, <1>2, FlattenConcat
<1>4. PICK rs : rs = Append(qs, v)
  OBVIOUS
<1>5. /\ rs \in Seq(Seq(S)) /\ Len(rs) = n + 1 /\ rs[n + 1] = v
      /\ \A k \in 1 .. n : rs[k] = qs[k]
  BY <1>1, <1>4
<1>6. PICK d : d = [k \in 0 .. n + 1 |-> IF k = n + 1 THEN c[n] \o v ELSE c[k]]
  OBVIOUS
<1>7. c[n] \o v \in Seq(S)
  BY <1>3
<1>8. d \in [0 .. n + 1 -> Seq(S)] /\ d[0] = <<>>
  BY <1>1, <1>2, <1>6, <1>7 DEF IsConcat
<1>9. ASSUME NEW k \in 1 .. n + 1
      PROVE  d[k] = d[k - 1] \o rs[k]
  <2>1. d[k - 1] = c[k - 1]
    BY <1>6
  <2>2. CASE k = n + 1
    <3>1. k - 1 = n /\ d[k] = c[n] \o v /\ rs[k] = v
      BY <1>5, <1>6, <2>2, SMTT(30)
    <3>2. QED
      BY <2>1, <3>1
  <2>3. CASE k # n + 1
    <3>1. k \in 1 .. n /\ d[k] = c[k]
      BY <1>6, <2>3
    <3>2. c[k] = c[k - 1] \o qs[k]
      BY <1>1, <1>2, <3>1 DEF IsConcat
    <3>3. QED
      BY <1>5, <2>1, <3>1, <3>2
  <2>4. QED
    BY <2>2, <2>3
<1>10. IsConcat(d, rs, S)
  BY <1>5, <1>8, <1>9 DEF IsConcat
<1>11. FlattenSeq(rs) = d[n + 1]
  BY <1>5, <1>10, FlattenConcat
<1>12. QED
  BY <1>3, <1>4, <1>6, <1>11, SMTT(30)

\* Nothing in a row.
LEMMA FlattenEmpty == FlattenSeq(<<>>) = <<>>
BY DEF FlattenSeq

\* Sequences in a row are a sequence.
LEMMA FlattenType ==
    ASSUME NEW S, NEW qs \in Seq(Seq(S)) PROVE FlattenSeq(qs) \in Seq(S)
<1>1. PICK cat : IsConcat(cat, qs, S)
  BY ConcatExists
<1>2. QED
  BY <1>1, FlattenConcat

-----------------------------------------------------------------------------
\* Numbers from their digits.

\* A number from its digits b to the base m, behind a.
Horner(a, m, b) ==
    LET n[k \in 0 .. Len(b)] == IF k = 0 THEN a ELSE Shift(n[k - 1], m, b[k])
    IN  n[Len(b)]

\* f[k] is what the first k digits make.
IsHorner(f, a, m, b) ==
    /\ f \in [0 .. Len(b) -> Nat] /\ f[0] = a
    /\ \A k \in 1 .. Len(b) : f[k] = Shift(f[k - 1], m, b[k])

\* Digits make a number.
LEMMA HornerExists ==
    ASSUME NEW a \in Nat, NEW m \in Nat, NEW b \in Seq(Nat)
    PROVE  \E f : IsHorner(f, a, m, b)
<1>1. PICK n \in Nat : n = Len(b)
  OBVIOUS
<1>2. \A k \in 1 .. n : b[k] \in Nat
  BY <1>1
<1> DEFINE step == [z \in Nat \X (1 .. n) |-> Shift(z[1], m, b[z[2]])]
<1>3. step \in [Nat \X (1 .. n) -> Nat]
  <2>1. ASSUME NEW z \in Nat \X (1 .. n)
        PROVE  Shift(z[1], m, b[z[2]]) \in Nat
    <3>1. PICK y \in Nat, d \in Nat : y = z[1] /\ d = b[z[2]]
      <4>1. z[1] \in Nat /\ z[2] \in 1 .. n
        OBVIOUS
      <4>2. QED
        BY <1>2, <4>1
    <3>2. y * m + d \in Nat
      OBVIOUS
    <3>3. QED
      BY <3>1, <3>2 DEF Shift
  <2>2. QED
    BY <2>1, Zenon
<1>4. PICK f : IsRecursion(f, Nat, a, n, step)
  <2> HIDE DEF step
  <2> QED
    BY <1>3, RecursionUpTo
<1>5. ASSUME NEW k \in 1 .. n
      PROVE  f[k] = Shift(f[k - 1], m, b[k])
  <2>1. k - 1 \in 0 .. n
    OBVIOUS
  <2>2. f[k - 1] \in Nat
    BY <1>4, <2>1 DEF IsRecursion
  <2>3. QED
    BY <1>4, <2>2 DEF IsRecursion
<1>6. f \in [0 .. n -> Nat] /\ f[0] = a
  BY <1>4 DEF IsRecursion
<1>7. IsHorner(f, a, m, b)
  BY <1>1, <1>5, <1>6 DEF IsHorner
<1>8. QED
  BY <1>7

\* It is the value of Horner.
LEMMA HornerUnique ==
    ASSUME NEW a \in Nat, NEW m \in Nat, NEW b \in Seq(Nat), NEW f, IsHorner(f, a, m, b)
    PROVE  Horner(a, m, b) = f[Len(b)] /\ Horner(a, m, b) \in Nat
<1>1. PICK n \in Nat : n = Len(b)
  OBVIOUS
<1> DEFINE Solves(g) == g = [k \in 0 .. n |-> IF k = 0 THEN a ELSE Shift(g[k - 1], m, b[k])]
           g == CHOOSE g : Solves(g)
<1>2. Horner(a, m, b) = g[n]
  BY <1>1 DEF Horner
<1>3. Solves(f)
  <2>1. \A k \in 0 .. n : f[k] = IF k = 0 THEN a ELSE Shift(f[k - 1], m, b[k])
    BY <1>1 DEF IsHorner
  <2>2. f = [k \in 0 .. n |-> f[k]]
    BY <1>1 DEF IsHorner
  <2>3. QED
    BY <2>1, <2>2, Zenon
<1>4. Solves(g)
  <2> HIDE DEF Solves
  <2> QED
    BY <1>3, Zenon
<1> HIDE DEF g
<1>5. \A k \in 0 .. n : g[k] = IF k = 0 THEN a ELSE Shift(g[k - 1], m, b[k])
  BY <1>4, Zenon
<1>6. \A k \in 0 .. n : f[k] = IF k = 0 THEN a ELSE Shift(f[k - 1], m, b[k])
  BY <1>1 DEF IsHorner
<1> DEFINE P == {k \in 0 .. n : g[k] = f[k]}
<1>7. 0 \in P
  BY <1>5, <1>6
<1>8. \A k \in 1 .. n : k - 1 \in P => k \in P
  BY <1>5, <1>6
<1>9. 0 .. n \subseteq P
  <2> HIDE DEF P
  <2> QED
    BY <1>7, <1>8, InductionUpTo
<1>10. n \in P
  BY <1>9
<1>11. QED
  BY <1>1, <1>2, <1>10 DEF IsHorner

\* What the steps of f say, digit by digit.
HornerSteps(f, a, m, b, n) ==
    /\ f \in [0 .. n -> Nat] /\ f[0] = a
    /\ \A k \in 1 .. n : /\ f[k] = Shift(f[k - 1], m, b[k])
                         /\ f[k] \in Nat /\ f[k - 1] \in Nat /\ b[k] \in Nat

\* They follow from the definition.
LEMMA HornerFacts ==
    ASSUME NEW a, NEW m, NEW b \in Seq(Nat), NEW f, IsHorner(f, a, m, b),
           NEW n \in Nat, n = Len(b)
    PROVE  HornerSteps(f, a, m, b, n)
<1>1. f \in [0 .. n -> Nat] /\ f[0] = a
  BY DEF IsHorner
<1>2. ASSUME NEW k \in 1 .. n
      PROVE  /\ f[k] = Shift(f[k - 1], m, b[k])
             /\ f[k] \in Nat /\ f[k - 1] \in Nat /\ b[k] \in Nat
  <2>1. f[k] = Shift(f[k - 1], m, b[k])
    BY DEF IsHorner
  <2>2. k - 1 \in 0 .. n /\ k \in 0 .. n /\ k \in 1 .. Len(b)
    OBVIOUS
  <2>3. QED
    BY <1>1, <2>1, <2>2
<1>3. QED
  BY <1>1, <1>2, Zenon DEF HornerSteps

\* Each digit makes the number larger than what it stands behind.
LEMMA HornerGrows ==
    ASSUME NEW a \in Nat, a > 0, NEW m \in Nat, m > 1, NEW b \in Seq(Nat), NEW f,
           IsHorner(f, a, m, b), NEW k \in 1 .. Len(b)
    PROVE  f[k] > a
<1>1. PICK n \in Nat : n = Len(b)
  OBVIOUS
<1>2. /\ f \in [0 .. n -> Nat] /\ f[0] = a
      /\ \A i \in 1 .. n : /\ f[i] = Shift(f[i - 1], m, b[i])
                           /\ f[i] \in Nat /\ f[i - 1] \in Nat /\ b[i] \in Nat
  <2>1. HornerSteps(f, a, m, b, n)
    BY <1>1, HornerFacts
  <2>2. QED
    BY <2>1, Zenon DEF HornerSteps
<1> DEFINE P == {i \in 0 .. n : f[i] >= a /\ (i > 0 => f[i] > a)}
<1>3. 0 \in P
  BY <1>2
<1>4. ASSUME NEW i \in 1 .. n, i - 1 \in P
      PROVE  i \in P
  <2>1. PICK y \in Nat : y = f[i - 1] /\ y >= a
    BY <1>2, <1>4
  <2>2. PICK x \in Nat : x = b[i]
    BY <1>2
  <2>3. f[i] = Shift(y, m, x)
    BY <1>2, <2>1, <2>2
  <2>4. y * m > y
    BY <2>1
  <2>5. f[i] > a /\ f[i] \in Nat
    BY <2>1, <2>3, <2>4, SMTT(30) DEF Shift
  <2>6. i \in 0 .. n /\ f[i] >= a
    BY <2>5
  <2>7. QED
    BY <2>5, <2>6
<1>5. 0 .. n \subseteq P
  <2> HIDE DEF P
  <2> QED
    BY <1>3, <1>4, InductionUpTo
<1>6. k \in P
  BY <1>1, <1>5
<1>7. QED
  BY <1>6

\* Two sequences of digits that make the same number are equal (the first not longer).
LEMMA DigitsEqual ==
    ASSUME NEW a \in Nat, a > 0, NEW m \in Nat, m > 1,
           NEW x \in Seq(0 .. m - 1), NEW y \in Seq(0 .. m - 1), Len(x) <= Len(y),
           NEW f, IsHorner(f, a, m, x), NEW g, IsHorner(g, a, m, y), f[Len(x)] = g[Len(y)]
    PROVE  x = y
<1>0. PICK p \in Nat : p = Len(x)
  OBVIOUS
<1>00. PICK q \in Nat : q = Len(y)
  OBVIOUS
<1>1. p = Len(x) /\ q = Len(y) /\ p <= q
  BY <1>0, <1>00
<1>20. x \in Seq(Nat) /\ y \in Seq(Nat)
  OBVIOUS
<1>21. /\ f \in [0 .. p -> Nat] /\ f[0] = a
       /\ \A i \in 1 .. p : /\ f[i] = Shift(f[i - 1], m, x[i])
                            /\ f[i] \in Nat /\ f[i - 1] \in Nat /\ x[i] \in Nat
  <2>1. HornerSteps(f, a, m, x, p)
    BY <1>0, <1>20, HornerFacts
  <2>2. QED
    BY <2>1, Zenon DEF HornerSteps
<1>22. /\ \A i \in 1 .. p : x[i] \in 0 .. m - 1
       /\ \A i \in 1 .. q : y[i] \in 0 .. m - 1
  BY <1>1, SMTT(30)
<1>2. /\ g \in [0 .. q -> Nat] /\ g[0] = a
      /\ \A i \in 1 .. q : /\ g[i] = Shift(g[i - 1], m, y[i])
                           /\ g[i] \in Nat /\ g[i - 1] \in Nat /\ y[i] \in Nat
  <2>1. HornerSteps(g, a, m, y, q)
    BY <1>00, <1>20, HornerFacts
  <2>2. QED
    BY <2>1, Zenon DEF HornerSteps
<1>3. ASSUME NEW j \in 1 .. p, f[p - (j - 1)] = g[q - (j - 1)]
      PROVE  f[p - j] = g[q - j] /\ x[p - j + 1] = y[q - j + 1]
  <2>1. PICK k \in 1 .. p, l \in 1 .. q : k = p - j + 1 /\ l = q - j + 1
    <3>1. p - j + 1 \in 1 .. p /\ q - j + 1 \in 1 .. q
      BY <1>1
    <3>2. QED
      BY <3>1
  <2>2. /\ f[k] = Shift(f[k - 1], m, x[k]) /\ g[l] = Shift(g[l - 1], m, y[l])
        /\ f[k - 1] \in Nat /\ g[l - 1] \in Nat
        /\ x[k] \in 0 .. m - 1 /\ y[l] \in 0 .. m - 1
    BY <1>2, <1>21, <1>22
  <2>3. p - (j - 1) = k /\ q - (j - 1) = l /\ p - j = k - 1 /\ q - j = l - 1
    BY <2>1
  <2>4. Shift(f[k - 1], m, x[k]) = Shift(g[l - 1], m, y[l])
    BY <1>3, <2>2, <2>3
  <2>5. f[k - 1] = g[l - 1] /\ x[k] = y[l]
    <3>1. PICK u \in Nat, v \in Nat, r \in 0 .. m - 1, s \in 0 .. m - 1 :
             u = f[k - 1] /\ v = g[l - 1] /\ r = x[k] /\ s = y[l]
      BY <2>2
    <3>2. m > 0 /\ Shift(u, m, r) = Shift(v, m, s)
      BY <2>4, <3>1
    <3>3. u = v /\ r = s
      BY <3>2, ShiftUnique
    <3>4. QED
      BY <3>1, <3>3
  <2>6. QED
    BY <2>1, <2>3, <2>5
<1> DEFINE P == {j \in 0 .. p : f[p - j] = g[q - j]}
<1>4. 0 .. p \subseteq P
  <2>1. 0 \in P
    BY <1>1
  <2>2. \A j \in 1 .. p : j - 1 \in P => j \in P
    BY <1>3
  <2> HIDE DEF P
  <2>3. QED
    BY <2>1, <2>2, InductionUpTo
<1>5. g[q - p] = a
  <2>1. p \in P /\ p - p = 0
    BY <1>4
  <2>2. QED
    BY <1>21, <2>1
<1>6. q = p
  <2>1. SUFFICES ASSUME q # p
                 PROVE  FALSE
    OBVIOUS
  <2>2. q - p \in 1 .. Len(y) /\ y \in Seq(Nat)
    BY <1>1, <2>1
  <2>3. g[q - p] > a
    BY <2>2, HornerGrows
  <2>4. QED
    BY <1>5, <2>3
<1>7. ASSUME NEW i \in 1 .. p
      PROVE  x[i] = y[i]
  <2>1. PICK j \in 1 .. p : i = p - j + 1
    <3>1. p - i + 1 \in 1 .. p /\ i = p - (p - i + 1) + 1
      OBVIOUS
    <3>2. QED
      BY <3>1
  <2>2. j - 1 \in 0 .. p /\ j - 1 \in P
    <3>1. j - 1 \in 0 .. p
      OBVIOUS
    <3> HIDE DEF P
    <3>2. QED
      BY <1>4, <3>1
  <2>3. x[p - j + 1] = y[q - j + 1]
    BY <1>3, <2>2
  <2>4. QED
    BY <1>6, <2>1, <2>3
<1>8. x \in Seq(Nat) /\ y \in Seq(Nat) /\ Len(x) = Len(y) /\ \A i \in 1 .. Len(x) : x[i] = y[i]
  BY <1>1, <1>6, <1>7, <1>20
<1>9. QED
  BY <1>8, SameEntries

\* Two sequences of digits behind the same number, other than 0, that give the same
\* number are the same.
LEMMA HornerInjective ==
    ASSUME NEW a \in Nat, a > 0, NEW m \in Nat, m > 1,
           NEW x \in Seq(0 .. m - 1), NEW y \in Seq(0 .. m - 1),
           Horner(a, m, x) = Horner(a, m, y)
    PROVE  x = y
<1>1. x \in Seq(Nat) /\ y \in Seq(Nat)
  OBVIOUS
<1>2. PICK f : IsHorner(f, a, m, x)
  BY <1>1, HornerExists
<1>3. PICK g : IsHorner(g, a, m, y)
  BY <1>1, HornerExists
<1>4. f[Len(x)] = g[Len(y)]
  BY <1>1, <1>2, <1>3, HornerUnique
<1>5. CASE Len(x) <= Len(y)
  BY <1>2, <1>3, <1>4, <1>5, DigitsEqual
<1>6. CASE Len(y) <= Len(x)
  BY <1>2, <1>3, <1>4, <1>6, DigitsEqual
<1>7. QED
  BY <1>5, <1>6

-----------------------------------------------------------------------------
\* Sums.

\* The sum of the entries of b: digits to the base 1.
Total(b) == Horner(0, 1, b)

\* A sum of numbers is one.
LEMMA SumType == ASSUME NEW b \in Seq(Nat) PROVE Total(b) \in Nat
<1>1. PICK f : IsHorner(f, 0, 1, b)
  BY HornerExists
<1>2. QED
  BY <1>1, HornerUnique DEF Total

\* The sum of two sequences in a row.
LEMMA SumConcat ==
    ASSUME NEW x \in Seq(Nat), NEW y \in Seq(Nat)
    PROVE  Total(x \o y) = Total(x) + Total(y)
<1>1. PICK f : IsHorner(f, 0, 1, x)
  BY HornerExists
<1>2. PICK g : IsHorner(g, 0, 1, y)
  BY HornerExists
<1>3. PICK m \in Nat, n \in Nat : m = Len(x) /\ n = Len(y)
  OBVIOUS
<1>4. Total(x) = f[m] /\ Total(y) = g[n]
  BY <1>1, <1>2, <1>3, HornerUnique DEF Total
<1>5. /\ f \in [0 .. m -> Nat] /\ f[0] = 0
      /\ \A k \in 1 .. m : /\ f[k] = Shift(f[k - 1], 1, x[k])
                           /\ f[k] \in Nat /\ f[k - 1] \in Nat /\ x[k] \in Nat
  <2>1. HornerSteps(f, 0, 1, x, m)
    BY <1>1, <1>3, HornerFacts
  <2>2. QED
    BY <2>1, Zenon DEF HornerSteps
<1>51. /\ g \in [0 .. n -> Nat] /\ g[0] = 0
      /\ \A k \in 1 .. n : /\ g[k] = Shift(g[k - 1], 1, y[k])
                           /\ g[k] \in Nat /\ g[k - 1] \in Nat /\ y[k] \in Nat
  <2>1. HornerSteps(g, 0, 1, y, n)
    BY <1>2, <1>3, HornerFacts
  <2>2. QED
    BY <2>1, Zenon DEF HornerSteps
<1>6. PICK z : z = x \o y
  OBVIOUS
<1>7. /\ z \in Seq(Nat) /\ Len(z) = m + n
      /\ \A k \in 1 .. m + n : z[k] = IF k <= m THEN x[k] ELSE y[k - m]
  BY <1>3, <1>6, ConcatEntries
<1>8. PICK h : h = [k \in 0 .. m + n |-> IF k <= m THEN f[k] ELSE f[m] + g[k - m]]
  OBVIOUS
<1>9. h \in [0 .. m + n -> Nat] /\ h[0] = 0
  BY <1>5, <1>51, <1>8, SMTT(30)
<1>10. ASSUME NEW k \in 1 .. m + n
       PROVE  h[k] = Shift(h[k - 1], 1, z[k])
  <2>1. CASE k <= m
    <3>1. k \in 1 .. m /\ h[k] = f[k] /\ h[k - 1] = f[k - 1] /\ z[k] = x[k]
      BY <1>7, <1>8, <2>1
    <3>2. f[k] = Shift(f[k - 1], 1, x[k]) /\ f[k - 1] \in Nat
      BY <1>5, <3>1
    <3>3. QED
      BY <3>1, <3>2
  <2>2. CASE k > m
    <3>1. PICK j \in 1 .. n : k = m + j
      <4>1. k - m \in 1 .. n /\ k = m + (k - m)
        BY <2>2
      <4>2. QED
        BY <4>1
    <3>2. h[k] = f[m] + g[j] /\ z[k] = y[j]
      <4>1. k - m = j
        BY <3>1
      <4>2. QED
        BY <1>7, <1>8, <2>2, <4>1, SMTT(30)
    <3>3. h[k - 1] = f[m] + g[j - 1]
      <4>1. CASE j = 1
        BY <1>5, <1>51, <1>8, <3>1, <4>1
      <4>2. CASE j > 1
        <5>1. (k - 1) - m = j - 1 /\ k - 1 > m /\ k - 1 \in 0 .. m + n
          BY <3>1, <4>2
        <5>2. QED
          BY <1>8, <5>1
      <4>3. QED
        BY <4>1, <4>2
    <3>4. g[j] = Shift(g[j - 1], 1, y[j]) /\ g[j - 1] \in Nat /\ f[m] \in Nat /\ y[j] \in Nat
      BY <1>5, <1>51
    <3>5. PICK u \in Nat, v \in Nat, w \in Nat : u = f[m] /\ v = g[j - 1] /\ w = y[j]
      BY <3>4
    <3>6. h[k] = u + Shift(v, 1, w) /\ h[k - 1] = u + v /\ z[k] = w
      BY <3>2, <3>3, <3>4, <3>5
    <3>7. u + Shift(v, 1, w) = Shift(u + v, 1, w)
      BY DEF Shift
    <3>8. QED
      BY <3>6, <3>7
  <2>3. QED
    BY <2>1, <2>2
<1>11. IsHorner(h, 0, 1, z)
  BY <1>7, <1>9, <1>10 DEF IsHorner
<1>12. Total(z) = h[m + n]
  <2>0. z \in Seq(Nat)
    BY <1>7
  <2>1. Horner(0, 1, z) = h[Len(z)]
    BY <1>11, <2>0, HornerUnique
  <2>2. QED
    BY <1>7, <2>1 DEF Total
<1>13. h[m + n] = f[m] + g[n]
  <2>1. CASE n = 0
    <3>1. f[m] \in Nat /\ m + n = m /\ m + n \in 0 .. m + n /\ g[n] = 0
      BY <1>5, <1>51, <2>1
    <3>2. QED
      BY <1>8, <3>1
  <2>2. CASE n > 0
    <3>1. m + n \in 0 .. m + n /\ ~(m + n <= m) /\ (m + n) - m = n
      BY <2>2
    <3>2. QED
      BY <1>8, <3>1
  <2>3. QED
    BY <2>1, <2>2
<1>14. QED
  BY <1>4, <1>6, <1>12, <1>13

\* The sum of nothing and of one entry.
LEMMA SumSmall == Total(<<>>) = 0 /\ \A a \in Nat : Total(<<a>>) = a
<1>1. ASSUME NEW b \in Seq(Nat), Len(b) <= 1
      PROVE  Total(b) = IF Len(b) = 0 THEN 0 ELSE b[1]
  <2>1. PICK f : IsHorner(f, 0, 1, b)
    BY HornerExists
  <2>2. Total(b) = f[Len(b)]
    BY <2>1, HornerUnique DEF Total
  <2>3. PICK n \in Nat : n = Len(b)
    OBVIOUS
  <2>4. CASE n = 0
    BY <2>1, <2>2, <2>3, <2>4 DEF IsHorner
  <2>5. CASE n = 1
    <3>0. \A k \in 1 .. n : /\ f[k] = Shift(f[k - 1], 1, b[k])
                            /\ f[k] \in Nat /\ f[k - 1] \in Nat /\ b[k] \in Nat
      <4>1. HornerSteps(f, 0, 1, b, n)
        BY <2>1, <2>3, HornerFacts
      <4>2. QED
        BY <4>1, Zenon DEF HornerSteps
    <3>1. f[1] = Shift(f[1 - 1], 1, b[1]) /\ f[0] = 0 /\ b[1] \in Nat
      BY <2>1, <2>5, <3>0 DEF IsHorner
    <3>2. QED
      BY <2>2, <2>3, <2>5, <3>1 DEF Shift
  <2>6. QED
    BY <1>1, <2>3, <2>4, <2>5
<1>2. <<>> \in Seq(Nat) /\ Len(<<>>) = 0
  OBVIOUS
<1>3. \A a \in Nat : <<a>> \in Seq(Nat) /\ Len(<<a>>) = 1 /\ <<a>>[1] = a
  OBVIOUS
<1>4. Total(<<>>) = 0
  <2>1. PICK b : b = <<>>
    OBVIOUS
  <2>2. b \in Seq(Nat) /\ Len(b) = 0 /\ Len(b) <= 1
    BY <1>2, <2>1
  <2>3. Total(b) = 0
    BY <1>1, <2>2, Zenon
  <2>4. QED
    BY <2>1, <2>3
<1>5. ASSUME NEW a \in Nat
      PROVE  Total(<<a>>) = a
  <2>1. PICK b : b = <<a>>
    OBVIOUS
  <2>2. b \in Seq(Nat) /\ Len(b) = 1 /\ Len(b) <= 1 /\ Len(b) # 0 /\ b[1] = a
    BY <1>3, <2>1
  <2>3. Total(b) = b[1]
    BY <1>1, <2>2, Zenon
  <2>4. QED
    BY <2>1, <2>2, <2>3
<1>6. QED
  BY <1>4, <1>5
=============================================================================
