--------------------------- MODULE DocumentProofs ---------------------------
(***************************************************************************)
(* Theorems about the document of a start, whatever is configured and      *)
(* however the host changes.  First what the module Configuration          *)
(* computes: sets of CPUs, names of disks, the check of maps of users, by  *)
(* induction over the numbers as a set that has no least exception.  Then  *)
(* the invariant of a start, one lemma for each of its parts, and what     *)
(* follows from it.                                                        *)
(***************************************************************************)
EXTENDS Document, WellFoundedInduction, FiniteSetTheorems, SequenceTheorems, TLAPS

\* A set of numbers that is not empty has a least one.
LEMMA LeastIn ==
    ASSUME NEW R, NEW S, IsWellFoundedOn(R, S), NEW T, T \subseteq S, T # {},
           \A m, n \in S : m < n => <<m, n>> \in R
    PROVE  \E n \in T : \A m \in T : ~(m < n)
  <1>1. PICK n \in T : \A m \in T : ~ (<<m, n>> \in R)
    BY WFMin
  <1> QED BY <1>1

LEMMA Least ==
    ASSUME NEW T \in SUBSET Nat, T # {}
    PROVE  \E n \in T : \A m \in T : n <= m
  <1>1. \A m, n \in Nat : m < n => <<m, n>> \in OpToRel(<, Nat)
    BY DEF OpToRel
  <1>2. IsWellFoundedOn(OpToRel(<, Nat), Nat)
    BY NatLessThanWellFounded
  <1>3. \E R : IsWellFoundedOn(R, Nat) /\ \A m, n \in Nat : m < n => <<m, n>> \in R
    BY <1>1, <1>2, Zenon
  <1>4. \E n \in T : \A m \in T : ~(m < n)
    BY <1>3, LeastIn
  <1> QED BY <1>4

\* Induction on the numbers of a set.
LEMMA Strongly ==
    ASSUME NEW S, \A n \in Nat : (\A m \in 0 .. n - 1 : m \in S) => n \in S
    PROVE  Nat \subseteq S
  <1>1. SUFFICES ASSUME Nat \ S # {} PROVE FALSE
    OBVIOUS
  <1>2. PICK n \in Nat \ S : \A m \in Nat \ S : n <= m
    BY <1>1, Least
  <1>3. \A m \in 0 .. n - 1 : m \in S
    BY <1>2
  <1> QED BY <1>2, <1>3

\* The induction from 0, likewise.
LEMMA Upwards ==
    ASSUME NEW S, 0 \in S, \A n \in Nat : n \in S => n + 1 \in S
    PROVE  Nat \subseteq S
  <1>1. ASSUME NEW n \in Nat, \A m \in 0 .. n - 1 : m \in S PROVE n \in S
    <2>1. n # 0 => n - 1 \in 0 .. n - 1 /\ n - 1 \in Nat /\ (n - 1) + 1 = n
      OBVIOUS
    <2> QED BY <2>1, <1>1
  <1> QED BY <1>1, Strongly

\* No number comes twice.
Once(s) == \A m, n \in DOMAIN s : m # n => s[m] # s[n]

\* Whatever a step does, a function defined by it from the value before exists.
LEMMA WithRangeFcn ==
    ASSUME NEW keys, NEW first \in Int, NEW last \in Int, first <= last + 1
    PROVE  \E f : /\ f = [cpu \in first - 1 .. last |-> IF cpu < first THEN keys ELSE WithKey(f[cpu - 1], cpu)]
                  /\ WithRange(keys, first, last) = f[last]
  <1> DEFINE Is(f, n) == f = [cpu \in first - 1 .. n |-> IF cpu < first THEN keys ELSE WithKey(f[cpu - 1], cpu)]
             S == {n \in Nat : \E f : Is(f, first - 1 + n)}
  <1>1. 0 \in S
    <2>1. Is([cpu \in first - 1 .. first - 1 |-> keys], first - 1)
      OBVIOUS
    <2> QED BY <2>1
  <1>2. ASSUME NEW k \in Int, k >= first - 1, NEW f, Is(f, k) PROVE \E g : Is(g, k + 1)
    <2> DEFINE g == [cpu \in first - 1 .. k + 1 |-> IF cpu <= k THEN f[cpu] ELSE WithKey(f[k], cpu)]
    <2>1. Is(g, k + 1)
      BY <1>2
    <2> QED BY <2>1
  <1>3. ASSUME NEW n \in S PROVE n + 1 \in S
    <2> HIDE DEF Is
    <2>1. PICK f : Is(f, first - 1 + n)
      OBVIOUS
    <2>2. /\ first - 1 + n \in Int /\ first - 1 + n >= first - 1 /\ n + 1 \in Nat
          /\ (first - 1 + n) + 1 = first - 1 + (n + 1)
      OBVIOUS
    <2> QED BY <2>1, <2>2, <1>2
  <1> HIDE DEF S
  <1>4. Nat \subseteq S
    BY <1>1, <1>3, Upwards
  <1>5. last - first + 1 \in S /\ last = first - 1 + (last - first + 1)
    BY <1>4
  <1>8. \E f : Is(f, last)
    BY <1>5 DEF S
  <1>6. WithRange(keys, first, last) = (CHOOSE f : Is(f, last))[last]
    BY DEF WithRange
  <1> HIDE DEF Is
  <1>7. Is(CHOOSE f : Is(f, last), last)
    BY <1>8
  <1> USE DEF Is
  <1> QED BY <1>6, <1>7

\* The dict after a part holds what it held and the part, still each once.
LEMMA WithKeyIs ==
    ASSUME NEW keys \in Seq(Nat), NEW key \in Nat
    PROVE  /\ WithKey(keys, key) \in Seq(Nat)
           /\ ToSet(WithKey(keys, key)) = ToSet(keys) \cup {key}
           /\ Once(keys) => Once(WithKey(keys, key))
  <1>1. CASE key \in ToSet(keys)
    BY <1>1 DEF WithKey
  <1>2. CASE key \notin ToSet(keys)
    <2>1. WithKey(keys, key) = Append(keys, key)
      BY <1>2 DEF WithKey
    <2>2. /\ Append(keys, key) \in Seq(Nat) /\ DOMAIN Append(keys, key) = 1 .. Len(keys) + 1
          /\ \A n \in 1 .. Len(keys) : Append(keys, key)[n] = keys[n]
          /\ Append(keys, key)[Len(keys) + 1] = key
          /\ DOMAIN keys = 1 .. Len(keys) /\ Len(keys) \in Nat
      OBVIOUS
    <2>3. ToSet(Append(keys, key)) = ToSet(keys) \cup {key}
      BY <2>2 DEF ToSet
    <2>4. Once(keys) => Once(Append(keys, key))
      BY <2>2, <1>2 DEF Once, ToSet
    <2> QED BY <2>1, <2>2, <2>3, <2>4
  <1> QED BY <1>1, <1>2

\* A range is added to the keys of a dict, each of its numbers once.
LEMMA WithRangeIs ==
    ASSUME NEW keys \in Seq(Nat), Once(keys), NEW first \in Nat, NEW last \in Nat, first <= last
    PROVE  /\ WithRange(keys, first, last) \in Seq(Nat)
           /\ ToSet(WithRange(keys, first, last)) = ToSet(keys) \cup (first .. last)
           /\ Once(WithRange(keys, first, last))
  <1>1. PICK f : /\ f = [cpu \in first - 1 .. last |-> IF cpu < first THEN keys ELSE WithKey(f[cpu - 1], cpu)]
                 /\ WithRange(keys, first, last) = f[last]
    <2>1. first \in Int /\ last \in Int /\ first <= last + 1
      OBVIOUS
    <2> QED BY <2>1, WithRangeFcn, Zenon
  <1>2. /\ f[first - 1] = keys
        /\ \A cpu \in first .. last : f[cpu] = WithKey(f[cpu - 1], cpu)
    BY <1>1
  <1> DEFINE Good(n) == /\ f[n] \in Seq(Nat) /\ Once(f[n])
                        /\ ToSet(f[n]) = ToSet(keys) \cup (first .. n)
  <1>3. Good(first - 1)
    BY <1>2
  <1>4. ASSUME NEW n \in first - 1 .. last - 1, Good(n) PROVE Good(n + 1)
    <2>1. f[n + 1] = WithKey(f[n], n + 1) /\ n + 1 \in Nat
      BY <1>2
    <2>2. first .. n + 1 = (first .. n) \cup {n + 1}
      OBVIOUS
    <2>3. f[n] \in Seq(Nat) /\ Once(f[n]) /\ ToSet(f[n]) = ToSet(keys) \cup (first .. n)
      BY <1>4
    <2>4. /\ f[n + 1] \in Seq(Nat) /\ Once(f[n + 1])
          /\ ToSet(f[n + 1]) = ToSet(f[n]) \cup {n + 1}
      BY <2>1, <2>3, WithKeyIs
    <2> QED BY <2>2, <2>3, <2>4
  <1> HIDE DEF Good
  <1> DEFINE S == {n \in Nat : first - 1 + n <= last => Good(first - 1 + n)}
  <1>5. 0 \in S
    BY <1>3
  <1>6. ASSUME NEW n \in S PROVE n + 1 \in S
    <2>1. n \in Nat /\ first - 1 + (n + 1) = (first - 1 + n) + 1
      OBVIOUS
    <2>2. CASE (first - 1 + n) + 1 <= last
      <3>1. Good(first - 1 + n) /\ first - 1 + n \in first - 1 .. last - 1
        BY <2>1, <2>2
      <3>2. Good((first - 1 + n) + 1)
        BY <3>1, <1>4
      <3> QED BY <3>2, <2>1
    <2> QED BY <2>1, <2>2
  <1>7. last - first + 1 \in S /\ first - 1 + (last - first + 1) = last
    <2> HIDE DEF S
    <2>1. Nat \subseteq S
      BY <1>5, <1>6, Upwards
    <2> QED BY <2>1
  <1>8. Good(last)
    BY <1>7
  <1> QED BY <1>8, <1>1 DEF Good

\* A part that does not raise is a range that is not empty.
LEMMA PartIs ==
    ASSUME NEW part \in Seq(Nat) \ {<<>>}, ~PartRaises(part)
    PROVE  part[1] \in Nat /\ part[Len(part)] \in Nat /\ part[1] <= part[Len(part)]
  <1>1. Len(part) \in {1, 2} /\ \A n \in 1 .. Len(part) : part[n] \in Nat
    <2>1. Len(part) \in Nat \ {0}
      BY EmptySeq
    <2>2. ~(Len(part) > 2)
      BY DEF PartRaises
    <2>3. \A k \in Nat \ {0} : ~(k > 2) => k \in {1, 2}
      OBVIOUS
    <2>4. Len(part) \in {1, 2}
      BY <2>1, <2>2, <2>3, Zenon
    <2> QED BY <2>4
  <1> QED BY <1>1 DEF PartRaises

\* The parts are taken one after the other.
LEMMA NumericSetFcn ==
    ASSUME NEW parts, Len(parts) \in Nat
    PROVE  \E f : /\ f = [n \in 0 .. Len(parts) |-> IF n = 0 THEN <<>>
                            ELSE WithRange(f[n - 1], parts[n][1], parts[n][Len(parts[n])])]
                  /\ parse_numeric_set(parts) = f[Len(parts)]
  <1> DEFINE Is(f, k) == f = [n \in 0 .. k |-> IF n = 0 THEN <<>>
                                ELSE WithRange(f[n - 1], parts[n][1], parts[n][Len(parts[n])])]
             S == {n \in Nat : \E f : Is(f, n)}
  <1>1. 0 \in S
    <2>1. Is([n \in 0 .. 0 |-> <<>>], 0)
      OBVIOUS
    <2> QED BY <2>1
  <1>2. ASSUME NEW k \in Nat, NEW f, Is(f, k) PROVE \E g : Is(g, k + 1)
    <2> DEFINE g == [n \in 0 .. k + 1 |-> IF n <= k THEN f[n]
                                ELSE WithRange(f[k], parts[n][1], parts[n][Len(parts[n])])]
    <2>1. Is(g, k + 1)
      BY <1>2
    <2> QED BY <2>1
  <1>3. ASSUME NEW n \in S PROVE n + 1 \in S
    <2> HIDE DEF Is
    <2> QED BY <1>2
  <1> HIDE DEF S
  <1>4. Len(parts) \in S
    BY <1>1, <1>3, Upwards
  <1>5. \E f : Is(f, Len(parts))
    BY <1>4 DEF S
  <1>6. parse_numeric_set(parts) = (CHOOSE f : Is(f, Len(parts)))[Len(parts)]
    BY DEF parse_numeric_set
  <1> HIDE DEF Is
  <1>7. Is(CHOOSE f : Is(f, Len(parts)), Len(parts))
    BY <1>5
  <1> USE DEF Is
  <1> QED BY <1>6, <1>7

\* The list of CPUs that parse_numeric_set makes of a set none of whose parts raises has exactly
\* the numbers of its ranges, each of them once, however they overlap and in whatever order.
THEOREM CpusOfASet ==
    ASSUME NEW parts \in Seq(Seq(Nat) \ {<<>>}), \A n \in DOMAIN parts : ~PartRaises(parts[n])
    PROVE  LET cpus == parse_numeric_set(parts)
           IN  /\ cpus \in Seq(Nat)
               /\ ToSet(cpus) = UNION {part[1] .. part[Len(part)] : part \in ToSet(parts)}
               /\ Cardinality(ToSet(cpus)) = Len(cpus)
  <1>0. Len(parts) \in Nat /\ DOMAIN parts = 1 .. Len(parts)
    OBVIOUS
  <1>1. PICK f : /\ f = [n \in 0 .. Len(parts) |-> IF n = 0 THEN <<>>
                            ELSE WithRange(f[n - 1], parts[n][1], parts[n][Len(parts[n])])]
                 /\ parse_numeric_set(parts) = f[Len(parts)]
    BY <1>0, NumericSetFcn, Zenon
  <1> DEFINE Cpus(n) == parts[n][1] .. parts[n][Len(parts[n])]
             Good(n) == /\ f[n] \in Seq(Nat) /\ Once(f[n])
                        /\ \A cpu : cpu \in ToSet(f[n]) <=> \E m \in 1 .. n : cpu \in Cpus(m)
             S == {n \in Nat : n <= Len(parts) => Good(n)}
  <1>2. f[0] = <<>>
    BY <1>0, <1>1
  <1>3. \A n \in 1 .. Len(parts) : f[n] = WithRange(f[n - 1], parts[n][1], parts[n][Len(parts[n])])
    <2> SUFFICES ASSUME NEW n \in 1 .. Len(parts)
                 PROVE  f[n] = WithRange(f[n - 1], parts[n][1], parts[n][Len(parts[n])])
      OBVIOUS
    <2>1. n \in 0 .. Len(parts) /\ n # 0
      BY <1>0
    <2> QED BY <2>1, <1>1, Zenon
  <1>4. Good(0)
    BY <1>2 DEF Once, ToSet
  <1>5. ASSUME NEW n \in Nat, n + 1 <= Len(parts), Good(n) PROVE Good(n + 1)
    <2>1. n + 1 \in DOMAIN parts /\ parts[n + 1] \in Seq(Nat) \ {<<>>} /\ n + 1 \in 1 .. Len(parts) /\ (n + 1) - 1 = n
      BY <1>0, <1>5
    <2>2. parts[n + 1][1] \in Nat /\ parts[n + 1][Len(parts[n + 1])] \in Nat
          /\ parts[n + 1][1] <= parts[n + 1][Len(parts[n + 1])]
      BY <2>1, PartIs
    <2>3. f[n + 1] = WithRange(f[n], parts[n + 1][1], parts[n + 1][Len(parts[n + 1])])
      BY <2>1, <1>3
    <2>4. f[n] \in Seq(Nat) /\ Once(f[n])
      BY <1>5
    <2> DEFINE keys == f[n]
               first == parts[n + 1][1]
               last == parts[n + 1][Len(parts[n + 1])]
    <2>9. /\ keys \in Seq(Nat) /\ Once(keys) /\ first \in Nat /\ last \in Nat /\ first <= last
          /\ f[n + 1] = WithRange(keys, first, last) /\ Cpus(n + 1) = first .. last
      BY <2>2, <2>3, <2>4
    <2> HIDE DEF keys, first, last
    <2>10. /\ WithRange(keys, first, last) \in Seq(Nat)
           /\ ToSet(WithRange(keys, first, last)) = ToSet(keys) \cup (first .. last)
           /\ Once(WithRange(keys, first, last))
      BY <2>9, WithRangeIs
    <2>5. /\ f[n + 1] \in Seq(Nat) /\ Once(f[n + 1])
          /\ ToSet(f[n + 1]) = ToSet(f[n]) \cup Cpus(n + 1)
      BY <2>9, <2>10 DEF keys
    <2> HIDE DEF Cpus
    <2>6. \A cpu : cpu \in ToSet(f[n + 1]) <=> (cpu \in Cpus(n + 1) \/ \E m \in 1 .. n : cpu \in Cpus(m))
      BY <2>5, <1>5
    <2>7. \A m : m \in 1 .. n + 1 <=> m \in 1 .. n \/ m = n + 1
      OBVIOUS
    <2>8. \A cpu : cpu \in ToSet(f[n + 1]) <=> \E m \in 1 .. n + 1 : cpu \in Cpus(m)
      BY <2>6, <2>7
    <2> QED BY <2>5, <2>8
  <1> HIDE DEF Good
  <1>6. 0 \in S /\ \A n \in Nat : n \in S => n + 1 \in S
    BY <1>4, <1>5
  <1>7. Good(Len(parts))
    <2> HIDE DEF S
    <2>1. Nat \subseteq S
      BY <1>6, Upwards
    <2> QED BY <2>1, <1>0 DEF S
  <1> DEFINE cpus == parse_numeric_set(parts)
  <1>8. cpus \in Seq(Nat) /\ Once(cpus) /\ \A cpu : cpu \in ToSet(cpus) <=> \E m \in 1 .. Len(parts) : cpu \in Cpus(m)
    BY <1>1, <1>7 DEF Good
  <1>9. ToSet(cpus) = UNION {part[1] .. part[Len(part)] : part \in ToSet(parts)}
    <2>1. ToSet(parts) = {parts[m] : m \in 1 .. Len(parts)}
      BY <1>0 DEF ToSet
    <2> HIDE DEF cpus
    <2> QED BY <1>8, <2>1
  <1> HIDE DEF cpus
  <1>10. Cardinality(ToSet(cpus)) = Len(cpus)
    <2>1. DOMAIN cpus = 1 .. Len(cpus) /\ Len(cpus) \in Nat /\ cpus = [n \in 1 .. Len(cpus) |-> cpus[n]]
      BY <1>8
    <2>2. cpus \in [1 .. Len(cpus) -> ToSet(cpus)]
      BY <2>1 DEF ToSet
    <2>3. cpus \in Bijection(1 .. Len(cpus), ToSet(cpus))
      BY <1>8, <2>1, <2>2 DEF Bijection, Injection, Surjection, IsInjective, Once, ToSet
    <2> QED BY <2>1, <2>3, FS_CountingElements DEF ExistsBijection
  <1> QED BY <1>8, <1>9, <1>10 DEF cpus

\* What is left of a number without its last digit is less.
LEMMA Quotient ==
    ASSUME NEW n \in Nat \ {0}
    PROVE  /\ n % Letters = 0 => n \div Letters - 1 \in 0 .. n - 1
           /\ n % Letters # 0 => n \div Letters \in 0 .. n - 1
           /\ n % Letters \in 0 .. Letters - 1 /\ n \div Letters \in Nat
           /\ n = Letters * (n \div Letters) + (n % Letters)
  <1>1. Letters \in Nat /\ Letters > 0
    BY SomeLetters
  <1> DEFINE a == n \div Letters
             b == n % Letters
  <1>2. a \in Nat /\ b \in 0 .. Letters - 1 /\ n = Letters * a + b
    BY <1>1
  <1> SUFFICES /\ b = 0 => a - 1 \in 0 .. n - 1
               /\ b # 0 => a \in 0 .. n - 1
    BY <1>2
  <1> HIDE DEF a, b
  <1>3. Letters * a >= a
    BY <1>1, <1>2
  <1>4. b = 0 => a # 0
    BY <1>1, <1>2
  <1>5. a <= n /\ (b # 0 => a < n)
    BY <1>1, <1>2, <1>3
  <1> QED BY <1>2, <1>4, <1>5

\* The numeral of a number, from those of the numbers below it.
Numeral(f, number) ==
    IF number = 0 THEN <<>>
    ELSE LET a == number \div Letters
             b == number % Letters
         IN  IF b = 0 THEN Append(f[a - 1], Letters) ELSE Append(f[a], b)

\* The definition asks only for names of smaller numbers.
LEMMA NumeralLooksBelow ==
    ASSUME NEW n \in Nat, NEW f, NEW g, \A m \in 0 .. n - 1 : f[m] = g[m]
    PROVE  Numeral(f, n) = Numeral(g, n)
  <1>1. CASE n = 0
    BY <1>1 DEF Numeral
  <1>2. CASE n # 0 /\ n % Letters = 0
    <2>1. f[n \div Letters - 1] = g[n \div Letters - 1]
      BY <1>2, Quotient
    <2> QED BY <1>2, <2>1 DEF Numeral
  <1>3. CASE n # 0 /\ n % Letters # 0
    <2>1. f[n \div Letters] = g[n \div Letters]
      BY <1>3, Quotient
    <2> QED BY <1>3, <2>1 DEF Numeral
  <1> QED BY <1>1, <1>2, <1>3

\* So it defines a name for each number.
LEMMA Numerals ==
    \A n \in Nat : disk_from_number[n] = Numeral(disk_from_number, n)
  <1> DEFINE Below(f, k) == f = [n \in 0 .. k |-> Numeral(f, n)]
             S == {k \in Nat : \E f : Below(f, k)}
  <1>1. 0 \in S
    <2>1. Below([n \in 0 .. 0 |-> <<>>], 0)
      BY DEF Numeral
    <2> QED BY <2>1
  <1>2. ASSUME NEW k \in Nat, NEW f, Below(f, k) PROVE \E g : Below(g, k + 1)
    <2> DEFINE g == [n \in 0 .. k + 1 |-> IF n <= k THEN f[n] ELSE Numeral(f, k + 1)]
    <2>1. \A n \in 0 .. k : g[n] = f[n] /\ f[n] = Numeral(f, n)
      BY <1>2
    <2>2. \A n \in 0 .. k + 1 : Numeral(g, n) = Numeral(f, n)
      <3> SUFFICES ASSUME NEW n \in 0 .. k + 1 PROVE Numeral(g, n) = Numeral(f, n)
        OBVIOUS
      <3>1. n \in Nat /\ \A m \in 0 .. n - 1 : g[m] = f[m]
        BY <2>1
      <3> HIDE DEF g
      <3> QED BY <3>1, NumeralLooksBelow
    <2>3. \A n \in 0 .. k + 1 : g[n] = Numeral(g, n)
      <3> SUFFICES ASSUME NEW n \in 0 .. k + 1 PROVE g[n] = Numeral(g, n)
        OBVIOUS
      <3>1. CASE n <= k
        BY <3>1, <2>1, <2>2
      <3>2. CASE n = k + 1
        <4>1. g[n] = Numeral(f, n)
          BY <3>2
        <4> QED BY <4>1, <2>2
      <3> QED BY <3>1, <3>2
    <2>4. g = [n \in 0 .. k + 1 |-> g[n]]
      OBVIOUS
    <2> HIDE DEF g
    <2>5. Below(g, k + 1)
      BY <2>3, <2>4
    <2> QED BY <2>5
  <1>3. ASSUME NEW k \in Nat PROVE \E f : Below(f, k)
    <2> HIDE DEF Below
    <2>1. \A n \in Nat : n \in S => n + 1 \in S
      BY <1>2
    <2> HIDE DEF S
    <2>2. k \in S
      BY <1>1, <2>1, Upwards
    <2> QED BY <2>2 DEF S
  <1>4. ASSUME NEW k \in Nat, NEW l \in Nat, NEW f, NEW g, Below(f, k), Below(g, l)
        PROVE  \A n \in Nat : n <= k /\ n <= l => f[n] = g[n]
    <2> DEFINE A == {n \in Nat : n <= k /\ n <= l => f[n] = g[n]}
    <2>1. ASSUME NEW n \in Nat, \A m \in 0 .. n - 1 : m \in A PROVE n \in A
      <3> SUFFICES ASSUME n <= k, n <= l PROVE f[n] = g[n]
        OBVIOUS
      <3>1. f[n] = Numeral(f, n) /\ g[n] = Numeral(g, n)
        BY <1>4
      <3>2. \A m \in 0 .. n - 1 : f[m] = g[m]
        BY <2>1
      <3> HIDE DEF A, Below
      <3> QED BY <3>1, <3>2, NumeralLooksBelow
    <2> HIDE DEF A
    <2>2. Nat \subseteq A
      BY <2>1, Strongly
    <2> QED BY <2>2 DEF A
  <1> DEFINE Is(f) == f = [n \in Nat |-> Numeral(f, n)]
             upto(k) == CHOOSE f : Below(f, k)
             all == [n \in Nat |-> upto(n)[n]]
  <1>5. Is(all)
    <2>1. \A k \in Nat : Below(upto(k), k)
      <3> HIDE DEF Below
      <3> QED BY <1>3
    <2>2. ASSUME NEW n \in Nat PROVE all[n] = Numeral(all, n)
      <3>1. \A m \in 0 .. n - 1 : all[m] = upto(n)[m]
        <4> SUFFICES ASSUME NEW m \in 0 .. n - 1 PROVE all[m] = upto(n)[m]
          OBVIOUS
        <4>1. m \in Nat /\ m <= m /\ m <= n /\ all[m] = upto(m)[m]
          OBVIOUS
        <4>2. Below(upto(m), m) /\ Below(upto(n), n)
          BY <4>1, <2>1
        <4> HIDE DEF Below, upto
        <4>3. upto(m)[m] = upto(n)[m]
          BY <4>1, <4>2, <1>4
        <4> QED BY <4>1, <4>3
      <3>2. all[n] = upto(n)[n] /\ upto(n)[n] = Numeral(upto(n), n)
        <4>1. Below(upto(n), n)
          BY <2>1
        <4> HIDE DEF upto
        <4> QED BY <4>1
      <3> HIDE DEF all, upto
      <3> QED BY <3>1, <3>2, NumeralLooksBelow
    <2>3. all = [n \in Nat |-> all[n]]
      OBVIOUS
    <2> HIDE DEF all
    <2> QED BY <2>2, <2>3
  <1>6. disk_from_number = CHOOSE f : Is(f)
    BY DEF disk_from_number, Numeral
  <1> HIDE DEF Is
  <1>7. Is(disk_from_number)
    <2>1. \E f : Is(f)
      BY <1>5
    <2> QED BY <2>1, <1>6
  <1> USE DEF Is
  <1> QED BY <1>7

\* A numeral is one digit longer than that of a smaller number.
LEMMA LastDigit ==
    ASSUME NEW n \in Nat \ {0}
    PROVE  \E q \in 0 .. n - 1, b \in 1 .. Letters :
               n = Letters * q + b /\ disk_from_number[n] = Append(disk_from_number[q], b)
  <1> DEFINE a == n \div Letters
             b == n % Letters
  <1>0. Letters \in Nat /\ Letters > 0
    BY SomeLetters
  <1>1. /\ b = 0 => a - 1 \in 0 .. n - 1
        /\ b # 0 => a \in 0 .. n - 1
        /\ b \in 0 .. Letters - 1 /\ a \in Nat
        /\ n = Letters * a + b
    BY Quotient
  <1>2. disk_from_number[n] =
            IF b = 0 THEN Append(disk_from_number[a - 1], Letters) ELSE Append(disk_from_number[a], b)
    BY Numerals DEF Numeral
  <1> HIDE DEF a, b
  <1>3. CASE b = 0
    <2>1. Letters * (a - 1) + Letters = Letters * a
      BY <1>0, <1>1
    <2>2. n = Letters * (a - 1) + Letters /\ Letters \in 1 .. Letters
      BY <1>0, <1>1, <1>3, <2>1
    <2> QED BY <1>1, <1>2, <1>3, <2>2
  <1>4. CASE b # 0
    <2>1. b \in 1 .. Letters
      BY <1>0, <1>1, <1>4
    <2> QED BY <1>1, <1>2, <1>4, <2>1
  <1> QED BY <1>3, <1>4

\* Appending gives a sequence that is not empty, and loses nothing.
LEMMA Appends ==
    ASSUME NEW s \in Seq(Nat), NEW e \in Nat
    PROVE  /\ Append(s, e) \in Seq(Nat) /\ Append(s, e) # <<>>
           /\ Len(Append(s, e)) = Len(s) + 1 /\ Append(s, e)[Len(s) + 1] = e
           /\ \A n \in 1 .. Len(s) : Append(s, e)[n] = s[n]
  <1>1. /\ Append(s, e) \in Seq(Nat) /\ Append(s, e) # <<>>
        /\ Len(Append(s, e)) = Len(s) + 1
    BY AppendProperties
  <1>2. Append(s, e)[Len(s) + 1] = e /\ \A n \in 1 .. Len(s) : Append(s, e)[n] = s[n]
    BY AppendProperties
  <1> QED BY <1>1, <1>2

\* So the ends and the beginnings of equal sequences are equal.
LEMMA AppendsDiffer ==
    ASSUME NEW s \in Seq(Nat), NEW e \in Nat, NEW t \in Seq(Nat), NEW f \in Nat, Append(s, e) = Append(t, f)
    PROVE  s = t /\ e = f
  <1>1. /\ Len(Append(s, e)) = Len(s) + 1 /\ Append(s, e)[Len(s) + 1] = e
        /\ \A n \in 1 .. Len(s) : Append(s, e)[n] = s[n]
    BY Appends, Zenon
  <1>2. /\ Len(Append(t, f)) = Len(t) + 1 /\ Append(t, f)[Len(t) + 1] = f
        /\ \A n \in 1 .. Len(t) : Append(t, f)[n] = t[n]
    BY Appends, Zenon
  <1>3. Len(s) \in Nat /\ Len(t) \in Nat
    OBVIOUS
  <1>4. Len(s) = Len(t) /\ e = f
    BY <1>1, <1>2, <1>3
  <1>5. \A n \in 1 .. Len(s) : s[n] = t[n]
    BY <1>1, <1>2, <1>4
  <1> QED BY <1>4, <1>5, SeqEqual

\* A name is a sequence of letters.
LEMMA NumeralsAreSequences ==
    \A n \in Nat : disk_from_number[n] \in Seq(Nat)
  <1> DEFINE S == {n \in Nat : disk_from_number[n] \in Seq(Nat)}
  <1>1. ASSUME NEW n \in Nat, \A m \in 0 .. n - 1 : m \in S PROVE n \in S
    <2>1. CASE n = 0
      <3>1. disk_from_number[0] = <<>>
        BY Numerals DEF Numeral
      <3>2. disk_from_number[n] \in Seq(Nat)
        BY <2>1, <3>1, EmptySeq
      <3> QED BY <3>2
    <2>2. CASE n # 0
      <3>1. PICK q \in 0 .. n - 1, b \in 1 .. Letters :
                n = Letters * q + b /\ disk_from_number[n] = Append(disk_from_number[q], b)
        BY <2>2, LastDigit
      <3>2. b \in Nat /\ disk_from_number[q] \in Seq(Nat)
        BY <1>1, SomeLetters
      <3> HIDE DEF S
      <3>3. disk_from_number[n] \in Seq(Nat)
        BY <3>1, <3>2, Appends
      <3> QED BY <3>3 DEF S
    <2> QED BY <2>1, <2>2
  <1> HIDE DEF S
  <1>2. Nat \subseteq S
    BY <1>1, Strongly
  <1> QED BY <1>2 DEF S

\* Disks that differ in their numbers differ in the names that disk_from_number gives them,
\* however many letters there are and however far the numbers go.
THEOREM DiskNamesDiffer ==
    \A m, n \in Nat : m # n => disk_from_number[m] # disk_from_number[n]
  <1> DEFINE S == {n \in Nat : \A m \in 0 .. n - 1 : disk_from_number[m] # disk_from_number[n]}
  <1>1. ASSUME NEW n \in Nat, \A m \in 0 .. n - 1 : m \in S PROVE n \in S
    <2> SUFFICES ASSUME NEW m \in 0 .. n - 1, disk_from_number[m] = disk_from_number[n] PROVE FALSE
      OBVIOUS
    <2>1. PICK q \in 0 .. n - 1, b \in 1 .. Letters :
              n = Letters * q + b /\ disk_from_number[n] = Append(disk_from_number[q], b)
      BY LastDigit
    <2>2. b \in Nat /\ disk_from_number[q] \in Seq(Nat) /\ disk_from_number[n] # <<>>
      <3>1. b \in Nat /\ q \in Nat
        BY SomeLetters
      <3>2. disk_from_number[q] \in Seq(Nat)
        BY <3>1, NumeralsAreSequences
      <3>3. Append(disk_from_number[q], b) # <<>>
        BY <3>1, <3>2, Appends, Zenon
      <3> HIDE DEF S
      <3> QED BY <3>1, <3>2, <3>3, <2>1, Zenon
    <2>3. m # 0
      <3>1. disk_from_number[0] = <<>>
        BY Numerals DEF Numeral
      <3> QED BY <3>1, <2>2
    <2>4. PICK r \in 0 .. m - 1, c \in 1 .. Letters :
              m = Letters * r + c /\ disk_from_number[m] = Append(disk_from_number[r], c)
      <3> HIDE DEF S
      <3>1. m \in Nat \ {0}
        BY <2>3
      <3> QED BY <3>1, LastDigit
    <2>5. c \in Nat /\ disk_from_number[r] \in Seq(Nat)
      BY SomeLetters, NumeralsAreSequences
    <2>6. disk_from_number[q] = disk_from_number[r] /\ b = c
      <3> HIDE DEF S
      <3>1. Append(disk_from_number[q], b) = Append(disk_from_number[r], c)
        BY <2>1, <2>4
      <3> DEFINE s == disk_from_number[q]
                 t == disk_from_number[r]
      <3>2. s \in Seq(Nat) /\ t \in Seq(Nat) /\ b \in Nat /\ c \in Nat /\ Append(s, b) = Append(t, c)
        BY <3>1, <2>2, <2>5
      <3> HIDE DEF s, t
      <3>3. s = t /\ b = c
        BY <3>2, AppendsDiffer
      <3> QED BY <3>3 DEF s, t
    <2>7. q = r
      <3>1. CASE q < r
        <4>1. r \in S /\ q \in 0 .. r - 1
          BY <1>1, <3>1
        <4> QED BY <4>1, <2>6
      <3>2. CASE r < q
        <4>1. q \in S /\ r \in 0 .. q - 1
          BY <1>1, <3>2
        <4> QED BY <4>1, <2>6
      <3> QED BY <3>1, <3>2
    <2> QED BY <2>1, <2>4, <2>6, <2>7
  <1> HIDE DEF S
  <1>2. Nat \subseteq S
    BY <1>1, Strongly
  <1> QED BY <1>2 DEF S

-----------------------------------------------------------------------------
(* Ranges of users                                                         *)

Sorts(p, items, side) ==
    /\ p \in [DOMAIN items -> DOMAIN items]
    /\ \A m, n \in DOMAIN items : m < n => p[m] # p[n] /\ items[p[m]][side] <= items[p[n]][side]

\* There is an order: the last item goes behind the last of those that are not greater.
LEMMA OrderExists ==
    ASSUME NEW items \in Seq(Item), NEW side \in Sides
    PROVE  Sorts(InOrder(items, side), items, side)
  <1> DEFINE key(n) == items[n][side]
             Order(p, k) == /\ p \in [1 .. k -> 1 .. k]
                            /\ \A m, n \in 1 .. k : m < n => p[m] # p[n] /\ key(p[m]) <= key(p[n])
             S == {k \in Nat : k <= Len(items) => \E p : Order(p, k)}
  <1>1. \A n \in 1 .. Len(items) : key(n) \in Int
    <2>1. \A n \in 1 .. Len(items) : items[n] \in Item
      OBVIOUS
    <2>2. CASE side = "start"
      BY <2>1, <2>2 DEF Item
    <2>3. CASE side = "target"
      BY <2>1, <2>3 DEF Item
    <2> QED BY <2>2, <2>3 DEF Sides
  <1> HIDE DEF key
  <1>2. 0 \in S
    <2>1. Order([n \in 1 .. 0 |-> n], 0)
      OBVIOUS
    <2> QED BY <2>1
  <1>3. ASSUME NEW k \in Nat, k + 1 <= Len(items), NEW p, Order(p, k) PROVE \E q : Order(q, k + 1)
    <2> DEFINE T == {l \in 0 .. k : \A m \in l + 1 .. k : key(p[m]) > key(k + 1)}
    <2>1. T \in SUBSET Nat /\ k \in T
      OBVIOUS
    <2>2. PICK l \in T : \A m \in T : l <= m
      BY <2>1, Least
    <2>3. \A m \in 1 .. k : p[m] \in 1 .. k /\ key(p[m]) \in Int
      <3>1. Len(items) \in Nat
        OBVIOUS
      <3> QED BY <1>1, <1>3, <3>1
    <2>4. key(k + 1) \in Int
      BY <1>1, <1>3
    <2>5. l # 0 => key(p[l]) <= key(k + 1)
      <3>1. l # 0 => l - 1 \notin T /\ l - 1 \in 0 .. k
        BY <2>2
      <3>2. l # 0 => \E m \in l .. k : ~(key(p[m]) > key(k + 1))
        BY <3>1
      <3>3. \A m \in l + 1 .. k : key(p[m]) > key(k + 1)
        BY <2>2
      <3> QED BY <3>2, <3>3, <2>3, <2>4
    <2>6. \A m \in 1 .. l : key(p[m]) <= key(k + 1)
      <3> SUFFICES ASSUME NEW m \in 1 .. l PROVE key(p[m]) <= key(k + 1)
        OBVIOUS
      <3>1. m \in 1 .. k /\ l \in 1 .. k
        OBVIOUS
      <3>2. m = l \/ key(p[m]) <= key(p[l])
        BY <3>1, <1>3
      <3> QED BY <3>1, <3>2, <2>3, <2>4, <2>5
    <2>7. \A m \in l + 1 .. k : key(k + 1) <= key(p[m])
      BY <2>2, <2>3, <2>4
    <2> DEFINE q == [n \in 1 .. k + 1 |-> IF n <= l THEN p[n] ELSE IF n = l + 1 THEN k + 1 ELSE p[n - 1]]
    <2>8. l \in 0 .. k
      OBVIOUS
    <2> HIDE DEF T
    <2>9. q \in [1 .. k + 1 -> 1 .. k + 1]
      BY <2>3, <2>8
    <2>10. ASSUME NEW m \in 1 .. k + 1, NEW n \in 1 .. k + 1, m < n
           PROVE  q[m] # q[n] /\ key(q[m]) <= key(q[n])
      <3>1. CASE n <= l
        BY <3>1, <2>10, <2>8, <1>3
      <3>2. CASE n = l + 1
        BY <3>2, <2>10, <2>8, <2>3, <2>6
      <3>3. CASE n > l + 1 /\ m = l + 1
        BY <3>3, <2>10, <2>8, <2>3, <2>7
      <3>4. CASE n > l + 1 /\ m < l + 1
        <4>1. m \in 1 .. k /\ n - 1 \in 1 .. k /\ m < n - 1 /\ q[m] = p[m] /\ q[n] = p[n - 1]
          BY <3>4, <2>8
        <4> HIDE DEF q
        <4> QED BY <4>1, <1>3
      <3>5. CASE n > l + 1 /\ m > l + 1
        <4>1. m - 1 \in 1 .. k /\ n - 1 \in 1 .. k /\ m - 1 < n - 1 /\ q[m] = p[m - 1] /\ q[n] = p[n - 1]
          BY <3>5, <2>10, <2>8
        <4> HIDE DEF q
        <4> QED BY <4>1, <1>3
      <3> QED BY <3>1, <3>2, <3>3, <3>4, <3>5, <2>8
    <2> HIDE DEF q
    <2> QED BY <2>9, <2>10
  <1>4. \E p : Order(p, Len(items))
    <2> HIDE DEF Order
    <2>1. \A n \in Nat : n \in S => n + 1 \in S
      BY <1>3
    <2> HIDE DEF S
    <2>2. Len(items) \in S
      BY <1>2, <2>1, Upwards
    <2> QED BY <2>2 DEF S
  <1>5. DOMAIN items = 1 .. Len(items)
    OBVIOUS
  <1>6. \E p : Sorts(p, items, side)
    BY <1>4, <1>5 DEF Sorts, key
  <1>7. InOrder(items, side) = CHOOSE p : Sorts(p, items, side)
    BY DEF InOrder, Sorts
  <1> QED BY <1>6, <1>7

\* What ends before its neighbour in the order of the starts begins, ends before all that
\* come after: on each side neighbours stand for all pairs.
LEMMA NeighboursAreAll ==
    ASSUME NEW items \in Seq(Item), NEW side \in Sides, \A n \in DOMAIN items : WellFormed(items[n])
    PROVE  Apart(items, InOrder(items, side), side) <=>
             \A m, n \in DOMAIN items : m # n => Users(items[m], side) \cap Users(items[n], side) = {}
  <1> DEFINE p == InOrder(items, side)
             from(n) == items[n][side]
             to(n) == items[n][side] + items[n].count
             size == Len(items)
  <1>1. size \in Nat /\ DOMAIN items = 1 .. size
    OBVIOUS
  <1>2. \A n \in 1 .. size : from(n) \in Int /\ items[n].count \in Int /\ to(n) \in Int /\ from(n) < to(n)
    <2>1. \A n \in 1 .. size : items[n] \in Item /\ items[n].count > 0
      BY <1>1 DEF WellFormed
    <2>2. CASE side = "start"
      BY <2>1, <2>2 DEF Item
    <2>3. CASE side = "target"
      BY <2>1, <2>3 DEF Item
    <2> QED BY <2>2, <2>3 DEF Sides
  <1>3. p \in [1 .. size -> 1 .. size] /\ \A m, n \in 1 .. size : m < n => p[m] # p[n] /\ from(p[m]) <= from(p[n])
    BY <1>1, OrderExists DEF Sorts
  <1>4. \A m, n \in 1 .. size : Users(items[m], side) \cap Users(items[n], side) = {} <=> to(m) <= from(n) \/ to(n) <= from(m)
    <2> SUFFICES ASSUME NEW m \in 1 .. size, NEW n \in 1 .. size
                 PROVE  Users(items[m], side) \cap Users(items[n], side) = {} <=> to(m) <= from(n) \/ to(n) <= from(m)
      OBVIOUS
    <2>1. Users(items[m], side) = from(m) .. to(m) - 1 /\ Users(items[n], side) = from(n) .. to(n) - 1
      BY Zenon DEF Users
    <2> HIDE DEF from, to
    <2>2. to(m) <= from(n) \/ to(n) <= from(m) => (from(m) .. to(m) - 1) \cap (from(n) .. to(n) - 1) = {}
      BY <1>2
    <2>3. ASSUME ~(to(m) <= from(n) \/ to(n) <= from(m)) PROVE (from(m) .. to(m) - 1) \cap (from(n) .. to(n) - 1) # {}
      <3>1. CASE from(m) <= from(n)
        <4>1. from(n) \in (from(m) .. to(m) - 1) \cap (from(n) .. to(n) - 1)
          BY <1>2, <2>3, <3>1
        <4> QED BY <4>1
      <3>2. CASE from(n) <= from(m)
        <4>1. from(m) \in (from(m) .. to(m) - 1) \cap (from(n) .. to(n) - 1)
          BY <1>2, <2>3, <3>2
        <4> QED BY <4>1
      <3> QED BY <3>1, <3>2, <1>2
    <2> QED BY <2>1, <2>2, <2>3
  <1>5. Apart(items, p, side) <=> \A n \in 1 .. size - 1 : to(p[n]) <= from(p[n + 1])
    BY DEF Apart
  <1> HIDE DEF p, from, to, size
  <1>6. ASSUME Apart(items, p, side), NEW m \in 1 .. size, NEW n \in 1 .. size, m # n
        PROVE  to(m) <= from(n) \/ to(n) <= from(m)
    <2>1. p \in Injection(1 .. size, 1 .. size) /\ IsFiniteSet(1 .. size)
      <3>1. \A k, l \in 1 .. size : k < l \/ l < k \/ k = l
        BY <1>1
      <3>2. \A k, l \in 1 .. size : p[k] = p[l] => k = l
        BY <3>1, <1>3
      <3>3. p \in [1 .. size -> 1 .. size] /\ IsInjective(p)
        BY <1>3, <3>2 DEF IsInjective
      <3> QED BY <1>1, <3>3, FS_Interval DEF Injection
    <2>2. \A k \in 1 .. size : \E l \in 1 .. size : p[l] = k
      <3>1. p \in Surjection(1 .. size, 1 .. size)
        BY <2>1, FS_Injection
      <3> QED BY <3>1 DEF Surjection
    <2>3. PICK k \in 1 .. size : p[k] = m
      BY <2>2
    <2>4. PICK l \in 1 .. size : p[l] = n
      BY <2>2
    <2>5. \A a, b \in 1 .. size : a < b => to(p[a]) <= from(p[b])
      <3> SUFFICES ASSUME NEW a \in 1 .. size, NEW b \in 1 .. size, a < b PROVE to(p[a]) <= from(p[b])
        OBVIOUS
      <3>1. a \in 1 .. size - 1 /\ a + 1 \in 1 .. size /\ (a + 1 = b \/ a + 1 < b)
        BY <1>1
      <3>2. to(p[a]) <= from(p[a + 1])
        BY <3>1, <1>5, <1>6
      <3>3. a + 1 = b \/ from(p[a + 1]) <= from(p[b])
        BY <3>1, <1>3
      <3>4. p[a] \in 1 .. size /\ p[a + 1] \in 1 .. size /\ p[b] \in 1 .. size
        BY <3>1, <1>3
      <3>5. to(p[a]) \in Int /\ from(p[a + 1]) \in Int /\ from(p[b]) \in Int
        BY <3>4, <1>2
      <3> QED BY <3>2, <3>3, <3>5
    <2>6. k < l \/ l < k
      BY <2>3, <2>4, <1>1, <1>6
    <2> QED BY <2>3, <2>4, <2>5, <2>6
  <1>7. ASSUME \A m, n \in 1 .. size : m # n => to(m) <= from(n) \/ to(n) <= from(m)
        PROVE  Apart(items, p, side)
    <2> SUFFICES ASSUME NEW n \in 1 .. size - 1 PROVE to(p[n]) <= from(p[n + 1])
      BY <1>5
    <2>1. n \in 1 .. size /\ n + 1 \in 1 .. size /\ n < n + 1
      BY <1>1
    <2>2. p[n] \in 1 .. size /\ p[n + 1] \in 1 .. size /\ p[n] # p[n + 1] /\ from(p[n]) <= from(p[n + 1])
      BY <2>1, <1>3
    <2> QED BY <2>2, <1>2, <1>7
  <1> QED BY <1>1, <1>4, <1>6, <1>7 DEF p

\* The kernel takes exactly those maps that the check of a container's map accepts and that
\* keep to the kernel's own limits: though the check compares only neighbours, no two of any
\* number of items overlap on either side.
THEOREM ValidIsTaken ==
    ASSUME NEW items \in Seq(Item)
    PROVE  KernelTakes(items) <=> validate_idmap_items(items) /\ Fits(items)
  <1>1. CASE \A n \in DOMAIN items : WellFormed(items[n])
    <2>1. \A side \in Sides : Apart(items, InOrder(items, side), side) <=>
             \A m, n \in DOMAIN items : m # n => Users(items[m], side) \cap Users(items[n], side) = {}
      BY <1>1, NeighboursAreAll
    <2> QED BY <2>1, <1>1 DEF validate_idmap_items, KernelTakes
  <1>2. CASE ~ \A n \in DOMAIN items : WellFormed(items[n])
    BY <1>2 DEF validate_idmap_items, KernelTakes
  <1> QED BY <1>1, <1>2

-----------------------------------------------------------------------------
(* The invariant of a start, part by part                                  *)

\* How far a start is: what is written, what is asked for, and where the list ends.
Progress ==
    /\ pc = "configure" => i = 1 /\ unavailable = {}
    /\ pc \in {"check", "enter", "xml"} => i >= 1
    /\ pc \in {"configure", "rejected", "check", "refused", "enter"} => xml = <<>>
    /\ pc = "xml" => Len(xml) = i - 1
    /\ pc \in {"create", "up"} => Len(xml) = Len(devices) /\ ~PinsRaise
    /\ pc \in {"enter", "xml", "create", "up"} => unavailable = {}
    /\ name # Unasked => pc \in {"check", "xml"} /\ i \in DOMAIN devices /\ ByIds

\* A device found by its ids is at the port found, and was there to be found, if nothing changed.
Found ==
    name # Unasked /\ "usb" \notin changed =>
        IF name = None THEN \A p \in Ports : world.usb[p] # device.ids ELSE world.usb[name] = device.ids

Checked(d) == (pc = "check" /\ d < i) \/ pc \in {"enter", "xml", "create", "up"}
Linked(d) == (pc = "enter" /\ d < i) \/ pc \in {"xml", "create", "up"}

\* The link of a NIC on some host.
LinkIn(w, nic) == IF nic.source # None THEN nic.source ELSE w.route

\* What the check saw of a device, as long as what it saw does not change.
Held(asked, n, w, c) ==
    /\ asked.kind = "gpu" => n = asked.slot
    /\ asked.kind = "usb" /\ asked.port = None /\ "usb" \notin c => \E p \in Ports : w.usb[p] = asked.ids
    /\ asked.kind = "nic" /\ c \cap {"links", "route"} = {} => LinkIn(w, asked) \in w.links

\* A device that was there when it was asked is there still, if nothing changed.
StillThere ==
    \A d \in DOMAIN devices \ unavailable : Checked(d) =>
        /\ Held(devices[d], node[d], world, changed)
        /\ devices[d].kind = "nic" /\ changed \cap {"links", "route"} = {} /\ Linked(d) =>
              LinkIn(world, devices[d]) \in world.up

\* What each device has written is what was asked for: DevicesAsAsked, of each device in turn.
WrittenFor(asked, written, w, c, live) ==
    /\ asked.kind = "usb" /\ asked.port # None => written[1].port = asked.port
    /\ asked.kind = "usb" /\ asked.port = None =>
          "usb" \in c \/ (written # <<>> /\ written[1].ids = asked.ids)
    /\ asked.kind = "nic" =>
          /\ asked.source # None => written[1].source = asked.source
          /\ live /\ c \cap {"links", "route"} = {} => written[1].source = LinkIn(w, asked)
    /\ asked.kind = "gpu" => written[1].char = asked.slot

AllFor(x, w, c, live) == \A d \in DOMAIN x : WrittenFor(devices[d], x[d], w, c, live)

AsAsked == AllFor(xml, world, changed, pc \in {"xml", "create", "up"})

\* The elements of each kind of device.
ShapedAs(kind, written) ==
    /\ kind \in {"disk", "cdrom"} => DOMAIN written = {1} /\ written[1].tag = "disk"
    /\ kind = "nic" => DOMAIN written = {1} /\ written[1].tag = "interface"
    /\ kind = "gpu" => DOMAIN written = {1} /\ written[1].tag = "misc"
    /\ kind = "display" =>
          /\ DOMAIN written = {1, 2, 3, 4}
          /\ written[1].tag = "graphics" /\ written[3].tag = "input" /\ written[4].tag = "video"
          /\ written[2] = [tag |-> "controller", type |-> "usb", model |-> "nec-xhci", index |-> None]
    /\ kind = "usb" =>
          /\ DOMAIN written \in {{}, {1}, {1, 2}}
          /\ written = <<>> <=> DOMAIN written = {}
          /\ 1 \in DOMAIN written => written[1].tag = "usb"
          /\ 2 \in DOMAIN written => written[2].tag = "controller" /\ written[2].type = "usb"

Shaped == \A d \in DOMAIN xml : ShapedAs(devices[d].kind, xml[d])

\* Disks are named and ordered by numbers below the counters.
IsDisk(d) == devices[d].kind \in {"disk", "cdrom"}
Virtio(d) == devices[d].kind = "disk" /\ devices[d].virtio

NumberedIn(x, k) ==
    /\ \A d \in DOMAIN x : IsDisk(d) =>
          /\ x[d][1].prefix = IF Virtio(d) THEN "vd" ELSE "sd"
          /\ x[d][1].boot \in 0 .. k.boot - 1
          /\ Virtio(d) => \E n \in 0 .. k.virtual - 1 : x[d][1].dev = disk_from_number[n]
          /\ ~Virtio(d) => \E n \in 0 .. k.scsi - 1 : x[d][1].dev = disk_from_number[n]
    /\ \A d, e \in DOMAIN x : IsDisk(d) /\ IsDisk(e) /\ d # e =>
          /\ x[d][1].boot # x[e][1].boot
          /\ Virtio(d) = Virtio(e) => x[d][1].dev # x[e][1].dev

Numbered == NumberedIn(xml, counters)

\* The types of controllers have numbers of their own, 0 is that of nec-xhci, and the others have
\* each one controller.
OfType(d, type) == devices[d].kind = "usb" /\ devices[d].controller = type
EmitsIn(x, d) == devices[d].kind = "usb" /\ 2 \in DOMAIN x[d]
Emits(d) == EmitsIn(xml, d)

ControllersIn(x, k) ==
    /\ k.usb["nec-xhci"] = 0 /\ "nec-xhci" \notin k.emitted
    /\ DOMAIN k.usb = k.emitted \cup {"nec-xhci"}
    /\ \A t \in DOMAIN k.usb : k.usb[t] < k.controller
    /\ \A t, u \in DOMAIN k.usb : t # u => k.usb[t] # k.usb[u]
    /\ \A t \in k.emitted : \E d \in DOMAIN x : OfType(d, t) /\ EmitsIn(x, d)
    /\ \A d \in DOMAIN x : devices[d].kind = "usb" =>
          LET type == devices[d].controller
          IN  /\ 1 \in DOMAIN x[d] /\ type # None => type \in DOMAIN k.usb /\ x[d][1].bus = k.usb[type]
              /\ EmitsIn(x, d) => /\ type \in k.emitted
                                  /\ x[d][2].model = type /\ x[d][2].index = k.usb[type]
    /\ \A d, e \in DOMAIN x : EmitsIn(x, d) /\ EmitsIn(x, e) /\ d # e => devices[d].controller # devices[e].controller

Controllers == ControllersIn(xml, counters)

IInv == TypeOK /\ Progress /\ Found /\ StillThere /\ AsAsked /\ Shaped /\ Numbered /\ Controllers /\ IdmapAsKernel

-----------------------------------------------------------------------------
(* What a start is given                                                   *)

\* What a device is, by its kind.
LEMMA DeviceIs ==
    ASSUME NEW d \in Device
    PROVE  /\ d.kind \in {"disk", "cdrom", "display", "usb", "nic", "gpu"}
           /\ d.kind = "disk" => d.virtio \in BOOLEAN
           /\ d.kind = "usb" => /\ d.controller \in {None} \cup STRING
                                /\ d.port \in Ports \/ (d.port = None /\ d.ids \in Ids)
           /\ d.kind = "nic" => d.bus \in Nat
           /\ d.kind = "gpu" => d.slot \in STRING
  BY DEF Device

\* What a configuration is.
LEMMA ConfigIs ==
    ASSUME config \in Config
    PROVE  /\ devices \in Seq(Device) /\ config.vm \in BOOLEAN
           /\ Len(devices) \in Nat /\ DOMAIN devices = 1 .. Len(devices)
           /\ \A d \in DOMAIN devices : devices[d] \in Device
           /\ config.vm => config.machine \in Machine
           /\ config.idmap = None \/ (config.idmap.uid \in Seq(Item) /\ config.idmap.gid \in Seq(Item))
  <1>1. devices \in Seq(Device)
    BY DEF Config, devices
  <1>2. /\ config.vm \in BOOLEAN
        /\ config.vm => config.machine \in Machine
        /\ config.idmap = None \/ (config.idmap.uid \in Seq(Item) /\ config.idmap.gid \in Seq(Item))
    BY DEF Config
  <1> QED BY <1>1, <1>2

-----------------------------------------------------------------------------
(* Typing                                                                  *)

\* A start begins typed.
LEMMA InitTyping == Init => TypeOK /\ changed = {}
  <1> SUFFICES ASSUME Init PROVE TypeOK /\ changed = {}
    OBVIOUS
  <1>1. PICK start \in Starts : config = start.config /\ world = start.world
    BY DEF Init
  <1>2. config \in Config /\ world \in World /\ Len(devices) <= MostDevices
    BY <1>1, StartsAreTyped DEF devices
  <1>3. Len(devices) \in Nat /\ DOMAIN devices = 1 .. Len(devices)
    BY <1>2, ConfigIs
  <1>4. /\ pc = "configure" /\ i = 1 /\ changed = {} /\ unavailable = {} /\ name = Unasked /\ xml = <<>>
        /\ node = [n \in DOMAIN devices |-> None] /\ proxies = [n \in DOMAIN devices |-> "none"]
    BY DEF Init
  <1>5. counters \in [boot : Nat, scsi : Nat, virtual : Nat, controller : Nat,
                      usb : [DOMAIN counters.usb -> Nat], emitted : SUBSET STRING]
    BY DEF Init, Counters
  <1>6. Len(xml) = 0 /\ xml = [d \in 1 .. Len(xml) |-> xml[d]]
    BY <1>4
  <1>7. i \in 0 .. Len(devices) + 1
    BY <1>3, <1>4
  <1> QED BY <1>2, <1>3, <1>4, <1>5, <1>6, <1>7 DEF TypeOK

\* Which steps change what.
LEMMA WhoChanges ==
    ASSUME [Next]_vars
    PROVE  /\ config' = config /\ devices' = devices
           /\ Enter \/ (\E part \in Parts : Change(part)) \/ UNCHANGED world
           /\ (\E part \in Parts : Change(part)) \/ UNCHANGED changed
           /\ Check \/ UNCHANGED <<unavailable, node>>
           /\ find_usb_device_by_ids \/ Check \/ Xml \/ UNCHANGED name
           /\ Entered \/ Xml \/ UNCHANGED <<counters, xml>>
  <1> USE DEF Configure, find_usb_device_by_ids, Check, Verdict, Enter, EnterRaises, Entered, Xml, Serialise, Create,
              Leave, Terminate, Kill, Left, Stops, ProxyEnds, Change
  <1>1. config' = config /\ devices' = devices
    BY DEF Next, Code, vars, devices
  <1>2. Enter \/ (\E part \in Parts : Change(part)) \/ UNCHANGED world
    BY DEF Next, Code, vars
  <1>3. (\E part \in Parts : Change(part)) \/ UNCHANGED changed
    BY DEF Next, Code, vars
  <1>4. Check \/ UNCHANGED <<unavailable, node>>
    BY DEF Next, Code, vars
  <1>5. find_usb_device_by_ids \/ Check \/ Xml \/ UNCHANGED name
    BY DEF Next, Code, vars
  <1>6. Entered \/ Xml \/ UNCHANGED <<counters, xml>>
    BY DEF Next, Code, vars
  <1> QED BY <1>1, <1>2, <1>3, <1>4, <1>5, <1>6

\* Each step leads to a place there is.
LEMMA PlaceTyping ==
    ASSUME TypeOK, [Next]_vars
    PROVE  /\ pc' \in {"configure", "rejected", "check", "refused", "enter", "xml", "create", "up", "leave", "down"}
           /\ i' \in 0 .. Len(devices) + 1
           /\ proxies' \in [DOMAIN devices -> {"none", "runs", "asked", "killed", "gone"}]
  <1>1. Len(devices) \in Nat /\ DOMAIN devices = 1 .. Len(devices) /\ i \in Int
    BY ConfigIs DEF TypeOK
  <1>2. /\ pc' \in {"configure", "rejected", "check", "refused", "enter", "xml", "create", "up", "leave", "down"}
        /\ i' \in 0 .. Len(devices) + 1
    <2> USE <1>1 DEF TypeOK
    <2>1. CASE Configure
      BY <2>1 DEF Configure
    <2>2. CASE find_usb_device_by_ids
      BY <2>2 DEF find_usb_device_by_ids
    <2>3. CASE Check
      BY <2>3 DEF Check, AtDevice
    <2>4. CASE Verdict
      BY <2>4 DEF Verdict
    <2>5. CASE Enter
      BY <2>5 DEF Enter, AtDevice
    <2>6. CASE EnterRaises
      BY <2>6 DEF EnterRaises, AtDevice
    <2>7. CASE Entered
      BY <2>7 DEF Entered
    <2>8. CASE Xml
      BY <2>8 DEF Xml, AtDevice
    <2>9. CASE Serialise
      BY <2>9 DEF Serialise
    <2>10. CASE Create
      BY <2>10 DEF Create
    <2>11. CASE Leave
      BY <2>11 DEF Leave, AtDevice
    <2>12. CASE Terminate \/ Kill \/ (\E n \in 1 .. MostDevices : ProxyEnds(n))
      BY <2>12 DEF Terminate, Kill, ProxyEnds
    <2>13. CASE Left \/ Stops
      BY <2>13 DEF Left, Stops
    <2>14. CASE \E part \in Parts : Change(part)
      BY <2>14 DEF Change
    <2>15. CASE UNCHANGED vars
      BY <2>15 DEF vars
    <2> QED BY <2>1, <2>2, <2>3, <2>4, <2>5, <2>6, <2>7, <2>8, <2>9, <2>10, <2>11, <2>12, <2>13, <2>14, <2>15
        DEF Next, Code
  <1>3. proxies' \in [DOMAIN devices -> {"none", "runs", "asked", "killed", "gone"}]
    <2> USE DEF TypeOK
    <2>1. CASE Enter
      BY <2>1 DEF Enter, AtDevice
    <2>2. CASE Terminate
      BY <2>2 DEF Terminate, AtDevice
    <2>3. CASE Kill
      BY <2>3 DEF Kill, AtDevice
    <2>4. CASE \E n \in 1 .. MostDevices : ProxyEnds(n)
      BY <2>4 DEF ProxyEnds
    <2>5. CASE UNCHANGED proxies
      BY <2>5
    <2> QED BY <2>1, <2>2, <2>3, <2>4, <2>5 DEF Next, Code, vars, Configure, find_usb_device_by_ids, Check, Verdict,
        EnterRaises, Entered, Xml, Serialise, Create, Leave, Left, Stops, Change
  <1> QED BY <1>2, <1>3

\* A change of the host leaves a host, on which what hung on a link went with it.
LEMMA ChangedWorld ==
    ASSUME world \in World, NEW part \in Parts, Change(part)
    PROVE  /\ world' \in World /\ changed' = changed \cup {part}
           /\ part # "usb" => world'.usb = world.usb
           /\ part # "nodes" => world'.nodes = world.nodes
           /\ part # "links" => world'.links = world.links
           /\ part \notin {"links", "route"} =>
                 /\ world'.up = world.up \cap world.links
                 /\ world'.route = IF world.route \in world.links THEN world.route ELSE None
  <1>1. PICK w \in Worlds :
            LET next == [world EXCEPT ![part] = w[part]]
            IN  world' = [next EXCEPT !.up = @ \cap next.links, !.route = IF @ \in next.links THEN @ ELSE None]
    BY DEF Change
  <1>2. w \in World /\ changed' = changed \cup {part}
    BY StartsAreTyped DEF Change
  <1>3. CASE part = "links"
    BY <1>1, <1>2, <1>3 DEF World
  <1>4. CASE part = "route"
    BY <1>1, <1>2, <1>4 DEF World
  <1>5. CASE part = "usb"
    BY <1>1, <1>2, <1>5 DEF World
  <1>6. CASE part = "nodes"
    BY <1>1, <1>2, <1>6 DEF World
  <1> QED BY <1>3, <1>4, <1>5, <1>6 DEF Parts

\* A device is written behind those before it.
LEMMA Written1 ==
    ASSUME TypeOK, Progress, Xml
    PROVE  /\ i \in DOMAIN devices /\ devices[i] \in Device /\ i \in Nat \ {0}
           /\ DOMAIN xml = 1 .. i - 1 /\ DOMAIN xml' = (DOMAIN xml) \cup {i} /\ DOMAIN xml' = 1 .. i
           /\ xml' = [d \in 1 .. Len(xml') |-> xml'[d]] /\ Len(xml') = i /\ i' = i + 1
           /\ \A d \in DOMAIN xml : xml'[d] = xml[d] /\ d # i /\ d \in DOMAIN devices
           /\ xml'[i] = Written.elements /\ counters' = Written.counters
  <1>1. i \in DOMAIN devices /\ xml' = Append(xml, Written.elements) /\ counters' = Written.counters
        /\ i' = i + 1 /\ pc = "xml"
    BY DEF Xml, AtDevice
  <1>2. DOMAIN devices = 1 .. Len(devices) /\ Len(devices) \in Nat /\ devices[i] \in Device
    BY <1>1, ConfigIs DEF TypeOK
  <1>3. Len(xml) = i - 1 /\ xml = [d \in 1 .. Len(xml) |-> xml[d]] /\ i \in Nat \ {0}
    BY <1>1, <1>2 DEF Progress, TypeOK
  <1> DEFINE new == Written.elements
             S == {xml[d] : d \in 1 .. Len(xml)} \cup {new}
  <1> HIDE DEF new
  <1>4. xml \in [1 .. i - 1 -> S] /\ i - 1 \in Nat
    BY <1>3
  <1>5. xml \in Seq(S) /\ new \in S
    BY <1>4
  <1> HIDE DEF S
  <1>6. /\ Append(xml, new) \in Seq(S) /\ Len(Append(xml, new)) = Len(xml) + 1
        /\ \A d \in 1 .. Len(xml) : Append(xml, new)[d] = xml[d]
        /\ Append(xml, new)[Len(xml) + 1] = new
    BY <1>5, AppendProperties
  <1>7. Len(xml) + 1 = i /\ xml' = Append(xml, new)
    BY <1>1, <1>3 DEF new
  <1>8. /\ xml' \in Seq(S) /\ Len(xml') = i /\ xml'[i] = new
        /\ \A d \in 1 .. i - 1 : xml'[d] = xml[d]
    BY <1>6, <1>7, <1>3
  <1>9. DOMAIN xml' = 1 .. i /\ xml' = [d \in 1 .. Len(xml') |-> xml'[d]]
    BY <1>8, LenProperties
  <1>10. DOMAIN xml = 1 .. i - 1 /\ DOMAIN xml' = (DOMAIN xml) \cup {i}
    BY <1>3, <1>9
  <1>11. \A d \in DOMAIN xml : d # i /\ d \in DOMAIN devices
    BY <1>1, <1>2, <1>3, <1>10
  <1> QED BY <1>1, <1>2, <1>3, <1>8, <1>9, <1>10, <1>11 DEF new

CountersOK(k) ==
    k \in [boot : Nat, scsi : Nat, virtual : Nat, controller : Nat, usb : [DOMAIN k.usb -> Nat], emitted : SUBSET STRING]

\* What a disk or a CD-ROM takes.
LEMMA DiskIs ==
    ASSUME CountersOK(counters), NEW c \in {"scsi", "virtual"}
    PROVE  /\ Disk(c).elements = <<[tag |-> "disk", prefix |-> IF c = "virtual" THEN "vd" ELSE "sd",
                                    dev |-> disk_from_number[counters[c]], boot |-> counters.boot]>>
           /\ CountersOK(Disk(c).counters) /\ Disk(c).counters.boot = counters.boot + 1
           /\ Disk(c).counters.usb = counters.usb /\ Disk(c).counters.emitted = counters.emitted
           /\ Disk(c).counters.controller = counters.controller
           /\ c = "scsi" => Disk(c).counters.scsi = counters.scsi + 1 /\ Disk(c).counters.virtual = counters.virtual
           /\ c = "virtual" => Disk(c).counters.virtual = counters.virtual + 1 /\ Disk(c).counters.scsi = counters.scsi
  <1>1. Disk(c).elements = <<[tag |-> "disk", prefix |-> IF c = "virtual" THEN "vd" ELSE "sd",
                              dev |-> disk_from_number[counters[c]], boot |-> counters.boot]>>
    BY DEF Disk
  <1>2. Disk(c).counters = [[counters EXCEPT ![c] = @ + 1] EXCEPT !["boot"] = @ + 1]
    BY DEF Disk, Took
  <1>3. CASE c = "scsi"
    BY <1>1, <1>2, <1>3 DEF CountersOK
  <1>4. CASE c = "virtual"
    BY <1>1, <1>2, <1>4 DEF CountersOK
  <1> QED BY <1>3, <1>4

\* What a USB device takes.
LEMMA UsbIs ==
    ASSUME CountersOK(counters), None \notin STRING, device.controller \in {None} \cup STRING
    PROVE  LET type  == device.controller
               k     == Usb.counters
               known == DOMAIN counters.usb
           IN  /\ CountersOK(k) /\ k.boot = counters.boot /\ k.scsi = counters.scsi /\ k.virtual = counters.virtual
               /\ PortOf = None \/ type = None => k = counters
               /\ PortOf # None /\ type # None =>
                     /\ DOMAIN k.usb = known \cup {type}
                     /\ \A t \in known : k.usb[t] = counters.usb[t]
                     /\ type \notin known => k.usb[type] = counters.controller /\ k.controller = counters.controller + 1
                     /\ type \in known => k.controller = counters.controller
                     /\ k.emitted = counters.emitted \cup ({type} \ {"nec-xhci"})
  <1>1. CASE PortOf = None \/ device.controller = None
    BY <1>1 DEF Usb
  <1>2. CASE PortOf # None /\ device.controller # None
    <2> DEFINE type == device.controller
               known == DOMAIN counters.usb
               emits == type \notin {None, "nec-xhci"} \cup counters.emitted
    <2>1. Usb.counters = [counters EXCEPT
                        !.usb = [t \in known \cup {type} |-> usb_controller_no(counters, t)],
                        !.controller = IF type \in known THEN @ ELSE @ + 1,
                        !.emitted = IF emits THEN @ \cup {type} ELSE @]
      BY <1>2 DEF Usb
    <2>2. type \in STRING /\ type # None
      BY <1>2
    <2>3. \A t \in known \cup {type} : usb_controller_no(counters, t) \in Nat
      BY DEF CountersOK, usb_controller_no
    <2>4. /\ \A t \in known : usb_controller_no(counters, t) = counters.usb[t]
          /\ type \notin known => usb_controller_no(counters, type) = counters.controller
      BY DEF usb_controller_no
    <2>5. counters.emitted \cup ({type} \ {"nec-xhci"}) = IF emits THEN counters.emitted \cup {type} ELSE counters.emitted
      BY <2>2
    <2> HIDE DEF type, known, emits
    <2>6. /\ Usb.counters.usb = [t \in known \cup {type} |-> usb_controller_no(counters, t)]
          /\ Usb.counters.controller = IF type \in known THEN counters.controller ELSE counters.controller + 1
          /\ Usb.counters.emitted = counters.emitted \cup ({type} \ {"nec-xhci"})
          /\ Usb.counters.boot = counters.boot /\ Usb.counters.scsi = counters.scsi
          /\ Usb.counters.virtual = counters.virtual
      BY <2>1, <2>5 DEF CountersOK
    <2>7. CountersOK(Usb.counters)
      <3>1. [t \in known \cup {type} |-> usb_controller_no(counters, t)] \in [known \cup {type} -> Nat]
        BY <2>3
      <3>2. DOMAIN Usb.counters.usb = known \cup {type} /\ Usb.counters.usb \in [known \cup {type} -> Nat]
        BY <2>6, <3>1
      <3>3. Usb.counters = [f \in DOMAIN counters |-> Usb.counters[f]]
        BY <2>1
      <3>4. /\ Usb.counters.boot \in Nat /\ Usb.counters.scsi \in Nat /\ Usb.counters.virtual \in Nat
            /\ Usb.counters.controller \in Nat /\ Usb.counters.emitted \in SUBSET STRING
        BY <2>2, <2>6 DEF CountersOK
      <3>5. DOMAIN counters = {"boot", "scsi", "virtual", "controller", "usb", "emitted"}
        BY DEF CountersOK
      <3> HIDE DEF CountersOK
      <3> QED BY <3>2, <3>3, <3>4, <3>5 DEF CountersOK
    <2> QED BY <1>2, <2>4, <2>6, <2>7 DEF type, known
  <1> QED BY <1>1, <1>2

Uncounting == {"nic", "display", "gpu"}

\* What a device takes of the counters, by its kind.
LEMMA WrittenCounters ==
    ASSUME TypeOK, Progress, Xml
    PROVE  /\ CountersOK(counters) /\ CountersOK(counters')
           /\ device = devices[i] /\ device \in Device
           /\ device.kind \in Uncounting => counters' = counters
           /\ device.kind = "usb" => Written = Usb
           /\ IsDisk(i) => Written = Disk(IF Virtio(i) THEN "virtual" ELSE "scsi")
  <1>1. CountersOK(counters) /\ device = devices[i] /\ device \in Device /\ counters' = Written.counters
    BY Written1 DEF TypeOK, CountersOK, device
  <1>2. CASE device.kind \in Uncounting
    <2>1. Written.counters = counters
      BY <1>2 DEF Written, Uncounted, Uncounting
    <2> QED BY <2>1, <1>1, <1>2 DEF Uncounting, IsDisk
  <1>3. CASE device.kind = "usb"
    <2>1. Written = Usb
      BY <1>3 DEF Written
    <2>2. device.controller \in {None} \cup STRING /\ None \notin STRING
      BY <1>1, <1>3, DeviceIs, NothingIsNone
    <2>3. CountersOK(Usb.counters)
      BY <2>2, <1>1, UsbIs
    <2> QED BY <2>1, <2>3, <1>1, <1>3 DEF Uncounting, IsDisk
  <1>4. CASE device.kind \in {"disk", "cdrom"}
    <2>1. Written = Disk(IF Virtio(i) THEN "virtual" ELSE "scsi")
      <3>1. CASE device.kind = "disk"
        BY <3>1, <1>1 DEF Written, Virtio
      <3>2. CASE device.kind = "cdrom"
        BY <3>2, <1>1 DEF Written, Virtio, CdRom
      <3> QED BY <1>4, <3>1, <3>2
    <2>2. \A c \in {"scsi", "virtual"} : CountersOK(Disk(c).counters)
      BY <1>1, DiskIs
    <2>3. CountersOK(Written.counters)
      BY <2>1, <2>2
    <2> QED BY <2>1, <2>3, <1>1, <1>4 DEF Uncounting
  <1> QED BY <1>1, <1>2, <1>3, <1>4, DeviceIs DEF Uncounting, IsDisk

\* Each step keeps the types.
LEMMA StepTyping == TypeOK /\ Progress /\ [Next]_vars => TypeOK'
  <1> SUFFICES ASSUME TypeOK, Progress, [Next]_vars PROVE TypeOK'
    OBVIOUS
  <1>0. Len(devices) \in Nat /\ DOMAIN devices = 1 .. Len(devices) /\ devices \in Seq(Device)
        /\ \A d \in DOMAIN devices : devices[d] \in Device
    BY ConfigIs DEF TypeOK
  <1>1. config' = config /\ devices' = devices
    BY WhoChanges
  <1>2. world' \in World /\ changed' \subseteq Parts
    <2>1. CASE Enter
      <3>1. AtDevice("enter") /\ changed' = changed
        BY <2>1 DEF Enter
      <3>2. device.kind = "nic" /\ LinkOf(device) \in world.links => LinkOf(device) \in Links
        BY DEF TypeOK, World
      <3> HIDE DEF LinkOf
      <3> QED BY <2>1, <3>1, <3>2 DEF Enter, TypeOK, World
    <2>2. CASE \E part \in Parts : Change(part)
      BY <2>2, ChangedWorld DEF TypeOK
    <2>3. CASE UNCHANGED <<world, changed>>
      BY <2>3 DEF TypeOK
    <2>4. Enter => UNCHANGED changed
      BY DEF Enter
    <2> QED BY <2>1, <2>2, <2>3, <2>4, WhoChanges
  <1>3. unavailable' \subseteq DOMAIN devices /\ node' \in [DOMAIN devices -> {None} \cup STRING]
    <2>1. CASE Check
      <3>1. i \in DOMAIN devices
        BY <2>1 DEF Check, AtDevice
      <3>2. unavailable' = unavailable \/ unavailable' = unavailable \cup {i}
        BY <2>1 DEF Check
      <3>3. device.kind = "gpu" => device.slot \in STRING
        BY <1>0, <3>1, DeviceIs DEF device
      <3> QED BY <2>1, <3>1, <3>2, <3>3 DEF Check, TypeOK
    <2>2. CASE UNCHANGED <<unavailable, node>>
      BY <2>2 DEF TypeOK
    <2> QED BY <2>1, <2>2, WhoChanges
  <1>4. name' \in Ports \cup {None, Unasked}
    <2>1. CASE find_usb_device_by_ids
      BY <2>1 DEF find_usb_device_by_ids
    <2>2. CASE Check \/ Xml
      BY <2>2 DEF Check, Xml
    <2>3. CASE UNCHANGED name
      BY <2>3 DEF TypeOK
    <2> QED BY <2>1, <2>2, <2>3, WhoChanges
  <1>5. CountersOK(counters') /\ xml' = [d \in 1 .. Len(xml') |-> xml'[d]] /\ Len(xml') \in 0 .. Len(devices)
    <2>1. CASE Entered
      <3>1. counters' = Counters /\ xml' = xml
        BY <2>1 DEF Entered
      <3>2. CountersOK(Counters)
        BY DEF Counters, CountersOK
      <3> QED BY <3>1, <3>2 DEF TypeOK
    <2>2. CASE Xml
      <3>1. CountersOK(counters')
        BY <2>2, WrittenCounters
      <3>2. i \in DOMAIN devices /\ Len(xml') = i /\ xml' = [d \in 1 .. Len(xml') |-> xml'[d]]
        BY <2>2, Written1
      <3> QED BY <3>1, <3>2, <1>0
    <2>3. CASE UNCHANGED <<counters, xml>>
      BY <2>3 DEF TypeOK, CountersOK
    <2> QED BY <2>1, <2>2, <2>3, WhoChanges
  <1> QED BY <1>1, <1>2, <1>3, <1>4, <1>5, PlaceTyping DEF TypeOK, CountersOK

-----------------------------------------------------------------------------
(* How far a start is                                                      *)

\* Each step knows how far it is.
LEMMA StepProgress == TypeOK /\ Progress /\ [Next]_vars => Progress'
  <1> SUFFICES ASSUME TypeOK, Progress, [Next]_vars PROVE Progress'
    OBVIOUS
  <1>0. Len(devices) \in Nat /\ DOMAIN devices = 1 .. Len(devices) /\ i \in Int
    BY ConfigIs DEF TypeOK
  <1>1. config' = config /\ devices' = devices
    BY WhoChanges
  <1>2. PinsRaise' = PinsRaise
    BY <1>1 DEF PinsRaise, Pinned, machine
  <1>3. device' = IF i' = i THEN device ELSE device'
    BY <1>1 DEF device
  <1>4. i' = i => ByIds' = ByIds
    BY <1>1 DEF ByIds, device
  <1>5. (\E phase \in {"check", "xml"} : AtDevice(phase)) => pc \in {"check", "xml"} /\ i \in DOMAIN devices
    BY DEF AtDevice
  <1>6. AfterAll("check") \/ AfterAll("enter") \/ AfterAll("xml") => name = Unasked
    BY <1>0 DEF AfterAll, Progress
  <1> USE <1>0, <1>1 DEF Progress
  <1>10. CASE Configure
    BY <1>10, <1>2, <1>4 DEF Configure
  <1>11. CASE find_usb_device_by_ids
    BY <1>11, <1>2, <1>4, <1>5 DEF find_usb_device_by_ids
  <1>12. CASE Check
    BY <1>12, <1>2 DEF Check, AtDevice
  <1>13. CASE Verdict
    BY <1>13, <1>2, <1>6 DEF Verdict, AfterAll
  <1>14. CASE Enter
    BY <1>14, <1>2 DEF Enter, AtDevice
  <1>15. CASE EnterRaises
    BY <1>15, <1>2 DEF EnterRaises, AtDevice
  <1>16. CASE Entered
    BY <1>16, <1>2, <1>6, EmptySeq DEF Entered, AfterAll
  <1>17. CASE Xml
    <2>1. Len(xml') = i /\ i' = i + 1 /\ pc' = "xml" /\ pc = "xml" /\ name' = Unasked /\ unavailable' = unavailable
      BY <1>17, Written1 DEF Xml, AtDevice
    <2> QED BY <2>1, <1>2
  <1>18. CASE Serialise
    <2>1. pc = "xml" /\ i = Len(devices) + 1 /\ UNCHANGED <<name, unavailable, xml>> /\ name = Unasked
          /\ (pc' = "leave" \/ (pc' = "create" /\ ~PinsRaise))
      BY <1>18, <1>6 DEF Serialise, AfterAll
    <2> QED BY <2>1, <1>2
  <1>19. CASE Create
    BY <1>19, <1>2 DEF Create
  <1>20. CASE Leave \/ Terminate \/ Kill \/ Left \/ Stops
    BY <1>20, <1>2, <1>4 DEF Leave, Terminate, Kill, Left, Stops, AtDevice
  <1>21. CASE \E n \in 1 .. MostDevices : ProxyEnds(n)
    BY <1>21, <1>2, <1>4 DEF ProxyEnds
  <1>22. CASE \E part \in Parts : Change(part)
    BY <1>22, <1>2, <1>4 DEF Change
  <1>23. CASE UNCHANGED vars
    BY <1>23, <1>2, <1>4 DEF vars
  <1> QED BY <1>10, <1>11, <1>12, <1>13, <1>14, <1>15, <1>16, <1>17, <1>18, <1>19, <1>20, <1>21, <1>22, <1>23
      DEF Next, Code

\* Whatever changed is not forgotten.
LEMMA ChangesStay ==
    ASSUME TypeOK, [Next]_vars
    PROVE  /\ changed \subseteq changed'
           /\ "usb" \notin changed' => world'.usb = world.usb
           /\ changed' \cap {"links", "route"} = {} =>
                 /\ world'.links = world.links
                 /\ world.route \in world.links => world'.route = world.route
                 /\ world.up \cap world.links \subseteq world'.up
  <1>1. CASE Enter
    <2>1. changed' = changed
      BY <1>1 DEF Enter
    <2>2. world' = world \/ world' = [world EXCEPT !.up = @ \cup {LinkOf(device)}]
      BY <1>1 DEF Enter
    <2> HIDE DEF LinkOf
    <2> QED BY <2>1, <2>2 DEF TypeOK, World
  <1>2. CASE \E part \in Parts : Change(part)
    <2>1. PICK part \in Parts : Change(part)
      BY <1>2
    <2> QED BY <2>1, ChangedWorld DEF TypeOK
  <1>3. CASE UNCHANGED <<world, changed>>
    BY <1>3
  <1>4. Enter => UNCHANGED changed
    BY DEF Enter
  <1> QED BY <1>1, <1>2, <1>3, <1>4, WhoChanges

\* A link that is there stays the link of its NIC.
LEMMA LinkStays ==
    ASSUME TypeOK, [Next]_vars, changed' \cap {"links", "route"} = {}, NEW nic, LinkIn(world, nic) \in world.links
    PROVE  /\ LinkIn(world', nic) = LinkIn(world, nic) /\ LinkIn(world', nic) \in world'.links
           /\ LinkIn(world, nic) \in world.up => LinkIn(world', nic) \in world'.up
           /\ changed \cap {"links", "route"} = {}
  BY ChangesStay DEF LinkIn

\* What find_usb_device_by_ids found stays found until it is used.
LEMMA StepFound == TypeOK /\ Progress /\ Found /\ [Next]_vars => Found'
  <1> SUFFICES ASSUME TypeOK, Progress, Found, [Next]_vars, name' # Unasked, "usb" \notin changed'
               PROVE  IF name' = None THEN \A p \in Ports : world'.usb[p] # device'.ids
                      ELSE world'.usb[name'] = device'.ids
    BY DEF Found
  <1>1. Progress' /\ config' = config /\ devices' = devices
    BY StepProgress, WhoChanges
  <1>2. world'.usb = world.usb /\ "usb" \notin changed
    BY ChangesStay
  <1>3. CASE find_usb_device_by_ids
    <2>1. i' = i /\ device' = device /\ name' \in LET matching == {p \in Ports : world.usb[p] = device.ids}
                                                   IN  IF matching = {} THEN {None} ELSE matching
      BY <1>3, <1>1 DEF find_usb_device_by_ids, device
    <2>2. None \notin Ports
      BY NothingIsNone
    <2> QED BY <2>1, <2>2, <1>2
  <1>4. CASE Check \/ Xml
    BY <1>4 DEF Check, Xml
  <1>5. CASE name' = name
    <2>1. i' = i
      <3>1. pc \in {"check", "xml"} /\ i \in DOMAIN devices
        BY <1>5 DEF Progress
      <3>2. DOMAIN devices = 1 .. Len(devices) /\ Len(devices) \in Nat
        BY ConfigIs DEF TypeOK
      <3>3. CASE Check \/ Xml
        BY <3>3 DEF Check, Xml
      <3>4. CASE Verdict \/ Serialise \/ Entered
        BY <3>1, <3>2, <3>4 DEF Verdict, Serialise, Entered, AfterAll
      <3>5. CASE Enter \/ EnterRaises \/ Leave
        BY <3>1, <3>5 DEF Enter, EnterRaises, Leave, AtDevice
      <3>6. CASE Create \/ Stops
        BY <3>1, <3>6 DEF Create, Stops
      <3> QED BY <3>3, <3>4, <3>5, <3>6 DEF Next, Code, vars, Configure, find_usb_device_by_ids, Terminate, Kill, Left,
              ProxyEnds, Change
    <2>2. device' = device
      BY <2>1, <1>1 DEF device
    <2> QED BY <2>2, <1>2, <1>5 DEF Found
  <1> QED BY <1>3, <1>4, <1>5, WhoChanges

\* Only Check and Enter, and the steps between the lists, make a device be checked or linked.
LEMMA CheckedIs ==
    ASSUME TypeOK, Progress, [Next]_vars, NEW d \in DOMAIN devices
    PROVE  /\ Checked(d)' => Checked(d) \/ (Check /\ d = i)
           /\ Linked(d)' => Linked(d) \/ (Enter /\ d = i)
           /\ Linked(d) => Checked(d)
  <1>0. Len(devices) \in Nat /\ DOMAIN devices = 1 .. Len(devices) /\ i \in Int /\ d \in Int /\ d <= Len(devices) /\ d >= 1
    BY ConfigIs DEF TypeOK
  <1>1. Linked(d) => Checked(d)
    BY DEF Linked, Checked
  <1> USE DEF Checked, Linked
  <1>2. CASE Configure \/ find_usb_device_by_ids
    BY <1>2, <1>0 DEF Configure, find_usb_device_by_ids, Progress
  <1>3. CASE Check \/ Verdict
    BY <1>3, <1>0 DEF Check, Verdict, AtDevice, AfterAll
  <1>4. CASE Enter \/ EnterRaises \/ Entered
    BY <1>4, <1>0 DEF Enter, EnterRaises, Entered, AtDevice, AfterAll
  <1>5. CASE Xml \/ Serialise \/ Create
    BY <1>5, <1>0 DEF Xml, Serialise, Create, AtDevice, AfterAll
  <1>6. CASE Leave \/ Terminate \/ Kill \/ Left \/ Stops
    BY <1>6, <1>0 DEF Leave, Terminate, Kill, Left, Stops, AtDevice
  <1>7. CASE (\E n \in 1 .. MostDevices : ProxyEnds(n)) \/ (\E part \in Parts : Change(part)) \/ UNCHANGED vars
    BY <1>7 DEF ProxyEnds, Change, vars
  <1> QED BY <1>1, <1>2, <1>3, <1>4, <1>5, <1>6, <1>7 DEF Next, Code

\* A device that the check accepts is there.
LEMMA AcceptedIsThere ==
    ASSUME TypeOK, Progress, Found, Check, i \notin unavailable'
    PROVE  Held(devices[i], node'[i], world, changed) /\ world' = world /\ changed' = changed
  <1>1. /\ i \in DOMAIN devices /\ Ready /\ TRUE \in Available
        /\ node' = IF device.kind = "gpu" /\ device.slot \in world.nodes THEN [node EXCEPT ![i] = device.slot] ELSE node
        /\ world' = world /\ changed' = changed
    BY DEF Check, AtDevice, devices
  <1>2. device \in Device /\ device = devices[i] /\ node \in [DOMAIN devices -> {None} \cup STRING]
    BY <1>1, ConfigIs DEF TypeOK, device
  <1> SUFFICES Held(device, node'[i], world, changed)
    BY <1>1, <1>2
  <1>3. CASE device.kind = "gpu"
    <2>1. device.slot \in world.nodes
      BY <1>1, <1>3 DEF Available
    <2> QED BY <1>1, <1>2, <1>3, <2>1 DEF Held
  <1>4. CASE device.kind = "usb"
    <2>1. get_usb_device_details(PortOf) # None
      BY <1>1, <1>4 DEF Available
    <2>2. ASSUME device.port = None, "usb" \notin changed
          PROVE  \E p \in Ports : world.usb[p] = device.ids
      <3>1. ByIds /\ name # Unasked /\ PortOf = name /\ name \in Ports
        BY <2>1, <2>2, <1>1, <1>4 DEF ByIds, Ready, PortOf, get_usb_device_details, TypeOK
      <3>2. name # None
        BY <3>1, NothingIsNone
      <3> QED BY <3>1, <3>2, <2>2 DEF Found
    <2> QED BY <1>1, <1>4, <2>2 DEF Held
  <1>5. CASE device.kind = "nic"
    <2>1. LinkOf(device) \in world.links
      BY <1>1, <1>5 DEF Available
    <2> QED BY <1>1, <1>5, <2>1 DEF Held, LinkIn, LinkOf
  <1>6. CASE device.kind \in {"disk", "cdrom", "display"}
    BY <1>1, <1>6 DEF Held
  <1> QED BY <1>2, <1>3, <1>4, <1>5, <1>6, DeviceIs

\* What is held stays held, whatever changes.
LEMMA HeldStays ==
    ASSUME TypeOK, [Next]_vars, NEW asked, NEW n, Held(asked, n, world, changed)
    PROVE  Held(asked, n, world', changed')
  BY ChangesStay, LinkStays DEF Held

\* What the check has seen stays seen, and what was entered stays up.
LEMMA StepStillThere == TypeOK /\ Progress /\ Found /\ StillThere /\ [Next]_vars => StillThere'
  <1>a. ASSUME TypeOK, Progress, Found, StillThere, [Next]_vars,
               NEW d \in DOMAIN devices, d \notin unavailable', Checked(d)'
        PROVE  /\ Held(devices[d], node'[d], world', changed')
               /\ devices[d].kind = "nic" /\ changed' \cap {"links", "route"} = {} /\ Linked(d)' =>
                            LinkIn(world', devices[d]) \in world'.up
    <2> USE <1>a
    <2>2. d \notin unavailable
      BY WhoChanges DEF Check
    <2>3. CASE Check /\ d = i
      <3>1. Held(devices[d], node'[d], world', changed')
        BY <2>3, AcceptedIsThere
      <3>2. ~Linked(d)'
        BY <2>3 DEF Check, AtDevice, Linked
      <3> QED BY <3>1, <3>2
    <2>4. CASE Checked(d)
      <3>1. /\ Held(devices[d], node[d], world, changed)
            /\ devices[d].kind = "nic" /\ changed \cap {"links", "route"} = {} /\ Linked(d) =>
                  LinkIn(world, devices[d]) \in world.up
        BY <2>2, <2>4 DEF StillThere
      <3>2. node'[d] = node[d]
        <4>1. CASE Check
          <5>1. d # i
            BY <2>4, <4>1, ConfigIs DEF Checked, Check, AtDevice, TypeOK
          <5> QED BY <4>1, <5>1 DEF Check, TypeOK
        <4> QED BY <4>1, WhoChanges
      <3>3. Held(devices[d], node'[d], world', changed')
        <4> DEFINE asked == devices[d]
                   n == node[d]
        <4> HIDE DEF asked, n
        <4>1. Held(asked, n, world, changed)
          BY <3>1 DEF asked, n
        <4>2. Held(asked, n, world', changed')
          BY <4>1, HeldStays
        <4> QED BY <4>2, <3>2 DEF asked, n
      <3>4. ASSUME devices[d].kind = "nic", changed' \cap {"links", "route"} = {}, Linked(d)'
            PROVE  LinkIn(world', devices[d]) \in world'.up
        <4> DEFINE nic == devices[d]
        <4>1. nic.kind = "nic" /\ LinkIn(world, nic) \in world.links /\ changed \cap {"links", "route"} = {}
          BY <3>1, <3>4, ChangesStay DEF Held
        <4>2. Linked(d) => LinkIn(world, nic) \in world.up
          BY <3>1, <4>1
        <4>3. d = i => nic = device
          BY DEF device
        <4> HIDE DEF nic
        <4>4. CASE Linked(d)
          <5>1. LinkIn(world', nic) \in world'.up
            BY <3>4, <4>1, <4>2, <4>4, LinkStays
          <5> QED BY <5>1 DEF nic
        <4>5. CASE Enter /\ d = i
          <5>1. LinkOf(device) = LinkIn(world, nic)
            BY <4>3, <4>5 DEF LinkOf, LinkIn
          <5>2. world' = [world EXCEPT !.up = @ \cup {LinkIn(world, nic)}]
            BY <4>1, <4>3, <4>5, <5>1 DEF Enter
          <5>3. LinkIn(world', nic) = LinkIn(world, nic)
            BY <3>4, <4>1, LinkStays
          <5> HIDE DEF LinkIn
          <5> QED BY <5>2, <5>3 DEF TypeOK, World, nic
        <4> QED BY <3>4, <4>4, <4>5, CheckedIs
      <3> QED BY <3>3, <3>4
    <2> QED BY <2>3, <2>4, CheckedIs
  <1>b. StillThere' <=>
        \A d \in DOMAIN devices' \ unavailable' : Checked(d)' =>
            /\ Held(devices'[d], node'[d], world', changed')
            /\ devices'[d].kind = "nic" /\ changed' \cap {"links", "route"} = {} /\ Linked(d)' =>
                  LinkIn(world', devices'[d]) \in world'.up
    BY DEF StillThere
  <1> QED BY <1>a, <1>b, WhoChanges

-----------------------------------------------------------------------------
(* What is written                                                         *)

\* A list of one element, and that with its controller behind it.
LEMMA OneOrTwo ==
    ASSUME NEW a, NEW b
    PROVE  /\ DOMAIN <<a>> = {1} /\ <<a>>[1] = a /\ <<a>> # <<>> /\ DOMAIN <<>> = {}
           /\ <<a>> \o <<>> = <<a>>
           /\ DOMAIN (<<a>> \o <<b>>) = {1, 2} /\ (<<a>> \o <<b>>)[1] = a /\ (<<a>> \o <<b>>)[2] = b
           /\ <<a>> \o <<b>> # <<>>
  <1>1. <<a>> \in Seq({a, b}) /\ <<b>> \in Seq({a, b})
    OBVIOUS
  <1>2. Len(<<a>>) = 1 /\ Len(<<b>>) = 1
    OBVIOUS
  <1>3. <<a>> \o <<b>> \in Seq({a, b}) /\ Len(<<a>> \o <<b>>) = 2
        /\ (<<a>> \o <<b>>)[1] = a /\ (<<a>> \o <<b>>)[2] = b
    BY <1>1, <1>2, ConcatProperties
  <1>4. <<a>> \o <<>> = <<a>>
    BY <1>1, ConcatEmptySeq
  <1>5. DOMAIN (<<a>> \o <<b>>) = {1, 2}
    <2>1. DOMAIN (<<a>> \o <<b>>) = 1 .. 2
      BY <1>3, LenProperties
    <2> QED BY <2>1
  <1> QED BY <1>3, <1>4, <1>5

\* What a USB device writes.
LEMMA UsbElements ==
    LET e    == Usb.elements
        type == device.controller
        no   == usb_controller_no(counters, type)
    IN  /\ ShapedAs("usb", e)
        /\ e = <<>> <=> PortOf = None
        /\ e # <<>> => /\ 1 \in DOMAIN e /\ e[1].port = PortOf /\ e[1].ids = get_usb_device_details(PortOf)
                       /\ e[1].bus = IF type = None THEN None ELSE no
        /\ 2 \in DOMAIN e => type # None /\ e[2].model = type /\ e[2].index = no
        /\ 2 \in DOMAIN e <=> PortOf # None /\ type \notin {None, "nec-xhci"} \cup counters.emitted
  <1> DEFINE type == device.controller
             bus == IF type = None THEN None ELSE usb_controller_no(counters, type)
             a == [tag |-> "usb", port |-> PortOf, ids |-> get_usb_device_details(PortOf), bus |-> bus]
             b == [tag |-> "controller", type |-> "usb", model |-> type, index |-> bus]
             emits == type \notin {None, "nec-xhci"} \cup counters.emitted
  <1>1. Usb.elements = IF PortOf = None THEN <<>> ELSE <<a>> \o IF emits THEN <<b>> ELSE <<>>
    BY DEF Usb
  <1>2. /\ a.tag = "usb" /\ a.port = PortOf /\ a.ids = get_usb_device_details(PortOf) /\ a.bus = bus
        /\ b.tag = "controller" /\ b.type = "usb" /\ b.model = type /\ b.index = bus
    OBVIOUS
  <1>3. emits => type # None
    OBVIOUS
  <1> HIDE DEF a, b, emits
  <1>4. CASE PortOf = None
    BY <1>1, <1>4, OneOrTwo DEF ShapedAs
  <1>5. CASE PortOf # None /\ emits
    <2>1. Usb.elements = <<a>> \o <<b>>
      BY <1>1, <1>5
    <2> DEFINE e == Usb.elements
    <2>2. DOMAIN e = {1, 2} /\ e[1] = a /\ e[2] = b /\ e # <<>>
      BY <2>1, OneOrTwo
    <2> HIDE DEF e
    <2> QED BY <1>2, <1>3, <1>5, <2>2 DEF ShapedAs, e, emits
  <1>6. CASE PortOf # None /\ ~emits
    <2>1. Usb.elements = <<a>>
      BY <1>1, <1>6, OneOrTwo
    <2> DEFINE e == Usb.elements
    <2>2. DOMAIN e = {1} /\ e[1] = a /\ e # <<>>
      BY <2>1, OneOrTwo
    <2> HIDE DEF e
    <2> QED BY <1>2, <1>6, <2>2 DEF ShapedAs, e, emits
  <1> QED BY <1>4, <1>5, <1>6

\* What the device at hand writes, by its kind.
LEMMA WrittenElements ==
    ASSUME TypeOK, Progress, Xml
    PROVE  LET e == Written.elements
           IN  /\ ShapedAs(device.kind, e)
               /\ IsDisk(i) => /\ e[1].prefix = IF Virtio(i) THEN "vd" ELSE "sd"
                               /\ e[1].boot = counters.boot
                               /\ e[1].dev = disk_from_number[IF Virtio(i) THEN counters.virtual ELSE counters.scsi]
               /\ device.kind = "nic" => e[1].source = LinkOf(device)
               /\ device.kind = "gpu" => e[1].char = node[i]
               /\ device.kind = "usb" => e = Usb.elements
  <1>1. device = devices[i] /\ device \in Device
    BY WrittenCounters
  <1>2. CASE IsDisk(i)
    <2> DEFINE c == IF Virtio(i) THEN "virtual" ELSE "scsi"
               a == [tag |-> "disk", prefix |-> IF c = "virtual" THEN "vd" ELSE "sd",
                     dev |-> disk_from_number[counters[c]], boot |-> counters.boot]
    <2>1. Written.elements = <<a>>
      BY <1>2, WrittenCounters DEF Disk
    <2>2. /\ a.tag = "disk" /\ a.boot = counters.boot /\ a.prefix = IF Virtio(i) THEN "vd" ELSE "sd"
          /\ a.dev = disk_from_number[IF Virtio(i) THEN counters.virtual ELSE counters.scsi]
      OBVIOUS
    <2> HIDE DEF a
    <2> DEFINE e == Written.elements
    <2>3. DOMAIN e = {1} /\ e[1] = a
      BY <2>1, OneOrTwo
    <2> HIDE DEF e
    <2>4. device.kind \in {"disk", "cdrom"}
      BY <1>1, <1>2 DEF IsDisk
    <2> QED BY <2>2, <2>3, <2>4 DEF ShapedAs, e
  <1>3. CASE device.kind = "usb"
    <2>1. Written = Usb /\ ~IsDisk(i)
      BY <1>1, <1>3, WrittenCounters DEF IsDisk
    <2> QED BY <1>3, <2>1, UsbElements
  <1>4. CASE device.kind = "nic"
    <2>1. Written.elements = <<[tag |-> "interface", source |-> LinkOf(device), bus |-> device.bus]>> /\ ~IsDisk(i)
      BY <1>1, <1>4 DEF Written, Uncounted, Interface, IsDisk
    <2> QED BY <1>4, <2>1 DEF ShapedAs
  <1>5. CASE device.kind = "gpu"
    <2>1. Written.elements = <<[tag |-> "misc", char |-> node[i]]>> /\ ~IsDisk(i)
      BY <1>1, <1>5 DEF Written, Uncounted, RenderNode, IsDisk
    <2> QED BY <1>5, <2>1 DEF ShapedAs
  <1>6. CASE device.kind = "display"
    <2>1. Written.elements = <<[tag |-> "graphics", spice |-> device.spice],
                        [tag |-> "controller", type |-> "usb", model |-> "nec-xhci", index |-> None],
                        [tag |-> "input"], [tag |-> "video"]>> /\ ~IsDisk(i)
      BY <1>1, <1>6 DEF Written, Uncounted, Display, IsDisk
    <2> QED BY <1>6, <2>1 DEF ShapedAs
  <1> QED BY <1>1, <1>2, <1>3, <1>4, <1>5, <1>6, DeviceIs DEF IsDisk

\* Each step keeps the elements as their devices wrote them.
LEMMA StepShaped == TypeOK /\ Progress /\ Shaped /\ [Next]_vars => Shaped'
  <1> SUFFICES ASSUME TypeOK, Progress, Shaped, [Next]_vars PROVE Shaped'
    OBVIOUS
  <1>1. CASE Xml
    <2>1. ShapedAs(devices[i].kind, xml'[i])
      BY <1>1, Written1, WrittenElements DEF device
    <2>2. \A d \in DOMAIN xml : ShapedAs(devices[d].kind, xml'[d])
      BY <1>1, Written1 DEF Shaped
    <2>3. \A d \in DOMAIN xml' : ShapedAs(devices[d].kind, xml'[d])
      BY <1>1, <2>1, <2>2, Written1
    <2> QED BY <2>3, WhoChanges DEF Shaped
  <1>2. CASE UNCHANGED xml
    BY <1>2, WhoChanges DEF Shaped
  <1>3. Entered => UNCHANGED xml
    BY DEF Entered
  <1> QED BY <1>1, <1>2, <1>3, WhoChanges

-----------------------------------------------------------------------------
(* Numbers                                                                 *)

\* Numbers are taken one after the other, and different numbers give different names.
LEMMA NextNumber ==
    ASSUME TypeOK, Progress, Numbered, Xml, IsDisk(i)
    PROVE  NumberedIn(xml', counters')
  <1> DEFINE new == xml'[i][1]
             c == IF Virtio(i) THEN "virtual" ELSE "scsi"
             no == IF Virtio(i) THEN counters.virtual ELSE counters.scsi
  <1>1. /\ new.prefix = IF Virtio(i) THEN "vd" ELSE "sd"
        /\ new.boot = counters.boot /\ new.dev = disk_from_number[no]
    BY Written1, WrittenElements
  <1>2. counters' = Disk(c).counters
    BY Written1, WrittenCounters
  <1>3. /\ counters.boot \in Nat /\ counters.scsi \in Nat /\ counters.virtual \in Nat
        /\ counters'.boot = counters.boot + 1
        /\ counters'.scsi = IF Virtio(i) THEN counters.scsi ELSE counters.scsi + 1
        /\ counters'.virtual = IF Virtio(i) THEN counters.virtual + 1 ELSE counters.virtual
    <2>1. CountersOK(counters)
      BY WrittenCounters
    <2>2. /\ counters.boot \in Nat /\ counters.scsi \in Nat /\ counters.virtual \in Nat
      BY <2>1 DEF CountersOK
    <2>3. CASE Virtio(i)
      <3>1. counters' = Disk("virtual").counters
        BY <1>2, <2>3
      <3> QED BY <2>1, <2>2, <2>3, <3>1, DiskIs
    <2>4. CASE ~Virtio(i)
      <3>1. counters' = Disk("scsi").counters
        BY <1>2, <2>4
      <3> QED BY <2>1, <2>2, <2>4, <3>1, DiskIs
    <2> QED BY <2>3, <2>4
  <1>4. DOMAIN xml' = (DOMAIN xml) \cup {i} /\ \A d \in DOMAIN xml : xml'[d] = xml[d] /\ d # i
    BY Written1
  <1> HIDE DEF new, no, c
  <1>5. ASSUME NEW d \in DOMAIN xml, IsDisk(d)
        PROVE  /\ xml[d][1].prefix = IF Virtio(d) THEN "vd" ELSE "sd"
               /\ xml[d][1].boot \in 0 .. counters.boot - 1
               /\ Virtio(d) => \E n \in 0 .. counters.virtual - 1 : xml[d][1].dev = disk_from_number[n]
               /\ ~Virtio(d) => \E n \in 0 .. counters.scsi - 1 : xml[d][1].dev = disk_from_number[n]
               /\ xml[d][1].boot # new.boot
               /\ Virtio(d) = Virtio(i) => xml[d][1].dev # new.dev
    <2>1. /\ xml[d][1].prefix = IF Virtio(d) THEN "vd" ELSE "sd"
          /\ xml[d][1].boot \in 0 .. counters.boot - 1
          /\ Virtio(d) => \E n \in 0 .. counters.virtual - 1 : xml[d][1].dev = disk_from_number[n]
          /\ ~Virtio(d) => \E n \in 0 .. counters.scsi - 1 : xml[d][1].dev = disk_from_number[n]
      BY <1>5 DEF Numbered, NumberedIn
    <2>2. xml[d][1].boot # new.boot
      BY <2>1, <1>1, <1>3
    <2>3. ASSUME Virtio(d) = Virtio(i) PROVE xml[d][1].dev # new.dev
      <3>1. PICK n \in 0 .. no - 1 : xml[d][1].dev = disk_from_number[n]
        BY <2>1, <2>3 DEF no
      <3>2. no \in Nat /\ n \in Nat /\ n # no
        BY <3>1, <1>3 DEF no
      <3> QED BY <3>1, <3>2, <1>1, DiskNamesDiffer
    <2> QED BY <2>1, <2>2, <2>3
  <1>6. ASSUME NEW d \in DOMAIN xml', IsDisk(d)
        PROVE  /\ xml'[d][1].prefix = IF Virtio(d) THEN "vd" ELSE "sd"
               /\ xml'[d][1].boot \in 0 .. counters'.boot - 1
               /\ Virtio(d) => \E n \in 0 .. counters'.virtual - 1 : xml'[d][1].dev = disk_from_number[n]
               /\ ~Virtio(d) => \E n \in 0 .. counters'.scsi - 1 : xml'[d][1].dev = disk_from_number[n]
    <2>1. CASE d = i
      <3>1. no \in 0 .. (IF Virtio(i) THEN counters'.virtual - 1 ELSE counters'.scsi - 1)
        BY <1>3 DEF no
      <3>2. new.boot \in 0 .. counters'.boot - 1
        BY <1>1, <1>3
      <3> QED BY <2>1, <3>1, <3>2, <1>1 DEF new
    <2>2. CASE d \in DOMAIN xml
      <3>1. /\ xml'[d] = xml[d] /\ xml[d][1].boot \in 0 .. counters'.boot - 1
            /\ \A n : n \in 0 .. counters.virtual - 1 => n \in 0 .. counters'.virtual - 1
            /\ \A n : n \in 0 .. counters.scsi - 1 => n \in 0 .. counters'.scsi - 1
        BY <2>2, <1>3, <1>4, <1>5, <1>6
      <3> QED BY <3>1, <2>2, <1>5, <1>6
    <2> QED BY <2>1, <2>2, <1>4
  <1>7. ASSUME NEW d \in DOMAIN xml', NEW e \in DOMAIN xml', IsDisk(d), IsDisk(e), d # e
        PROVE  /\ xml'[d][1].boot # xml'[e][1].boot
               /\ Virtio(d) = Virtio(e) => xml'[d][1].dev # xml'[e][1].dev
    <2>1. CASE d = i
      BY <2>1, <1>4, <1>5, <1>7 DEF new
    <2>2. CASE e = i
      BY <2>2, <1>4, <1>5, <1>7 DEF new
    <2>3. CASE d # i /\ e # i
      BY <2>3, <1>4, <1>7 DEF Numbered, NumberedIn
    <2> QED BY <2>1, <2>2, <2>3
  <1> QED BY <1>6, <1>7 DEF NumberedIn

\* No other step touches the numbers of disks.
LEMMA StepNumbered == TypeOK /\ Progress /\ Numbered /\ [Next]_vars => Numbered'
  <1> SUFFICES ASSUME TypeOK, Progress, Numbered, [Next]_vars PROVE NumberedIn(xml', counters')
    BY WhoChanges DEF Numbered, NumberedIn, IsDisk, Virtio
  <1>1. CASE Xml /\ ~IsDisk(i)
    <2>1. /\ counters'.boot = counters.boot /\ counters'.scsi = counters.scsi /\ counters'.virtual = counters.virtual
      <3>1. device = devices[i] /\ device \in Device /\ CountersOK(counters)
        BY <1>1, WrittenCounters
      <3>2. CASE device.kind \in Uncounting
        BY <1>1, <3>2, WrittenCounters
      <3>3. CASE device.kind = "usb"
        <4>1. device.controller \in {None} \cup STRING /\ None \notin STRING /\ counters' = Usb.counters
          BY <1>1, <3>1, <3>3, DeviceIs, NothingIsNone, WrittenCounters, Written1
        <4> QED BY <3>1, <4>1, UsbIs
      <3> QED BY <1>1, <3>1, <3>2, <3>3, DeviceIs DEF Uncounting, IsDisk
    <2>2. DOMAIN xml' = (DOMAIN xml) \cup {i} /\ \A d \in DOMAIN xml : xml'[d] = xml[d] /\ d # i
      BY <1>1, Written1
    <2>3. NumberedIn(xml, counters)
      BY DEF Numbered, NumberedIn
    <2>4. \A d \in DOMAIN xml' : IsDisk(d) => d \in DOMAIN xml /\ xml'[d] = xml[d]
      BY <1>1, <2>2
    <2> QED BY <2>1, <2>3, <2>4 DEF NumberedIn
  <1>2. CASE Entered
    <2>1. xml' = <<>>
      BY <1>2 DEF Entered, AfterAll, Progress
    <2> QED BY <2>1 DEF NumberedIn
  <1>3. CASE UNCHANGED <<counters, xml>>
    BY <1>3 DEF Numbered, NumberedIn
  <1>4. CASE Xml /\ IsDisk(i)
    BY <1>4, NextNumber
  <1> QED BY <1>1, <1>2, <1>3, <1>4, WhoChanges

-----------------------------------------------------------------------------
(* Controllers                                                             *)

\* A device that takes no number and has no controller changes nothing.
LEMMA WithoutController ==
    ASSUME NEW x, NEW y, NEW k, NEW l, NEW n, ControllersIn(x, k),
           l.usb = k.usb, l.emitted = k.emitted, l.controller = k.controller,
           DOMAIN y = (DOMAIN x) \cup {n}, \A d \in DOMAIN x : y[d] = x[d] /\ d # n,
           devices[n].kind = "usb" => /\ 2 \notin DOMAIN y[n]
                                      /\ 1 \in DOMAIN y[n] /\ devices[n].controller # None =>
                                            /\ devices[n].controller \in DOMAIN k.usb
                                            /\ y[n][1].bus = k.usb[devices[n].controller]
    PROVE  ControllersIn(y, l)
  <1>1. ~EmitsIn(y, n) /\ \A d \in DOMAIN x : EmitsIn(y, d) <=> EmitsIn(x, d)
    BY DEF EmitsIn
  <1> HIDE DEF EmitsIn
  <1>2. /\ l.usb["nec-xhci"] = 0 /\ "nec-xhci" \notin l.emitted
        /\ DOMAIN l.usb = l.emitted \cup {"nec-xhci"}
        /\ \A t \in DOMAIN l.usb : l.usb[t] < l.controller
        /\ \A t, u \in DOMAIN l.usb : t # u => l.usb[t] # l.usb[u]
    BY DEF ControllersIn
  <1>3. \A t \in l.emitted : \E d \in DOMAIN y : OfType(d, t) /\ EmitsIn(y, d)
    BY <1>1 DEF ControllersIn
  <1>4. ASSUME NEW d \in DOMAIN y, devices[d].kind = "usb"
        PROVE  LET type == devices[d].controller
               IN  /\ 1 \in DOMAIN y[d] /\ type # None => type \in DOMAIN l.usb /\ y[d][1].bus = l.usb[type]
                   /\ EmitsIn(y, d) => /\ type \in l.emitted
                                       /\ y[d][2].model = type /\ y[d][2].index = l.usb[type]
    <2>1. CASE d = n
      BY <1>1, <1>4, <2>1
    <2>2. CASE d \in DOMAIN x
      BY <1>1, <1>4, <2>2 DEF ControllersIn
    <2> QED BY <2>1, <2>2
  <1>5. \A d, e \in DOMAIN y : EmitsIn(y, d) /\ EmitsIn(y, e) /\ d # e => devices[d].controller # devices[e].controller
    BY <1>1 DEF ControllersIn
  <1> QED BY <1>2, <1>3, <1>4, <1>5 DEF ControllersIn

\* The first of a type takes the next number and has the controller written.
LEMMA WithController ==
    ASSUME NEW x, NEW y, NEW k, NEW l, NEW n, ControllersIn(x, k),
           DOMAIN y = (DOMAIN x) \cup {n}, \A d \in DOMAIN x : y[d] = x[d] /\ d # n,
           devices[n].kind = "usb",
           NEW type, type = devices[n].controller, type # None, type \notin DOMAIN k.usb, type # "nec-xhci",
           1 \in DOMAIN y[n], y[n][1].bus = k.controller,
           2 \in DOMAIN y[n], y[n][2].model = type, y[n][2].index = k.controller,
           k.controller \in Nat, \A t \in DOMAIN k.usb : k.usb[t] \in Nat,
           DOMAIN l.usb = (DOMAIN k.usb) \cup {type}, \A t \in DOMAIN k.usb : l.usb[t] = k.usb[t],
           l.usb[type] = k.controller, l.controller = k.controller + 1, l.emitted = k.emitted \cup {type}
    PROVE  ControllersIn(y, l)
  <1>1. EmitsIn(y, n) /\ OfType(n, type) /\ \A d \in DOMAIN x : EmitsIn(y, d) <=> EmitsIn(x, d)
    BY DEF EmitsIn, OfType
  <1>2. \A d \in DOMAIN x : EmitsIn(x, d) => devices[d].controller \in k.emitted /\ devices[d].kind = "usb"
    BY DEF ControllersIn, EmitsIn
  <1> HIDE DEF EmitsIn
  <1>3. /\ l.usb["nec-xhci"] = 0 /\ "nec-xhci" \notin l.emitted
        /\ DOMAIN l.usb = l.emitted \cup {"nec-xhci"}
    BY DEF ControllersIn
  <1>4. /\ \A t \in DOMAIN l.usb : l.usb[t] < l.controller
        /\ \A t, u \in DOMAIN l.usb : t # u => l.usb[t] # l.usb[u]
    <2>1. \A t \in DOMAIN k.usb : k.usb[t] \in Nat /\ k.usb[t] < k.controller
      BY DEF ControllersIn
    <2>2. \A t, u \in DOMAIN k.usb : t # u => k.usb[t] # k.usb[u]
      BY DEF ControllersIn
    <2> QED BY <2>1, <2>2
  <1>5. \A t \in l.emitted : \E d \in DOMAIN y : OfType(d, t) /\ EmitsIn(y, d)
    BY <1>1 DEF ControllersIn
  <1>6. ASSUME NEW d \in DOMAIN y, devices[d].kind = "usb"
        PROVE  LET of == devices[d].controller
               IN  /\ 1 \in DOMAIN y[d] /\ of # None => of \in DOMAIN l.usb /\ y[d][1].bus = l.usb[of]
                   /\ EmitsIn(y, d) => of \in l.emitted /\ y[d][2].model = of /\ y[d][2].index = l.usb[of]
    <2>1. CASE d = n
      BY <1>1, <1>6, <2>1
    <2>2. CASE d \in DOMAIN x
      <3> DEFINE of == devices[d].controller
      <3>1. /\ 1 \in DOMAIN x[d] /\ of # None => of \in DOMAIN k.usb /\ x[d][1].bus = k.usb[of]
            /\ EmitsIn(x, d) => of \in k.emitted /\ of \in DOMAIN k.usb /\ x[d][2].model = of /\ x[d][2].index = k.usb[of]
        BY <1>6, <2>2 DEF ControllersIn
      <3> QED BY <3>1, <2>2, <1>1
    <2> QED BY <2>1, <2>2
  <1>7. \A d, e \in DOMAIN y : EmitsIn(y, d) /\ EmitsIn(y, e) /\ d # e => devices[d].controller # devices[e].controller
    <2>1. type \notin k.emitted
      BY DEF ControllersIn
    <2>2. \A d, e \in DOMAIN x : EmitsIn(x, d) /\ EmitsIn(x, e) /\ d # e => devices[d].controller # devices[e].controller
      BY DEF ControllersIn
    <2> QED BY <1>1, <1>2, <2>1, <2>2
  <1> QED BY <1>3, <1>4, <1>5, <1>6, <1>7 DEF ControllersIn

\* Each step keeps one controller for each type.
LEMMA StepControllers == TypeOK /\ Progress /\ Controllers /\ [Next]_vars => Controllers'
  <1> SUFFICES ASSUME TypeOK, Progress, Controllers, [Next]_vars PROVE ControllersIn(xml', counters')
    BY WhoChanges DEF ControllersIn, Controllers, Emits, EmitsIn, OfType
  <1>0. ControllersIn(xml, counters)
    BY DEF ControllersIn, Controllers, Emits, EmitsIn
  <1>1. CASE Entered
    <2>1. xml' = <<>> /\ counters' = Counters
      BY <1>1 DEF Entered, AfterAll, Progress
    <2> QED BY <2>1 DEF ControllersIn, Counters
  <1>2. CASE UNCHANGED <<counters, xml>>
    BY <1>0, <1>2
  <1>3. CASE Xml
    <2>1. /\ DOMAIN xml' = (DOMAIN xml) \cup {i} /\ \A d \in DOMAIN xml : xml'[d] = xml[d] /\ d # i
          /\ xml'[i] = Written.elements
      BY <1>3, Written1
    <2>2. device = devices[i] /\ device \in Device /\ CountersOK(counters)
      BY <1>3, WrittenCounters
    <2>3. CASE device.kind # "usb"
      <3>1. /\ counters'.usb = counters.usb /\ counters'.emitted = counters.emitted
            /\ counters'.controller = counters.controller
        <4>1. CASE device.kind \in Uncounting
          BY <1>3, <4>1, WrittenCounters
        <4>2. CASE IsDisk(i)
          <5>1. \E c \in {"scsi", "virtual"} : counters' = Disk(c).counters
            BY <1>3, <4>2, WrittenCounters, Written1
          <5> QED BY <5>1, <2>2, DiskIs
        <4> QED BY <2>2, <2>3, <4>1, <4>2, DeviceIs DEF Uncounting, IsDisk
      <3>2. devices[i].kind # "usb"
        BY <2>2, <2>3
      <3> DEFINE y == xml'
                 l == counters'
      <3>3. /\ l.usb = counters.usb /\ l.emitted = counters.emitted /\ l.controller = counters.controller
            /\ DOMAIN y = (DOMAIN xml) \cup {i} /\ \A d \in DOMAIN xml : y[d] = xml[d] /\ d # i
        BY <2>1, <3>1
      <3> HIDE DEF y, l
      <3>4. ControllersIn(y, l)
        BY <1>0, <3>2, <3>3, WithoutController
      <3> QED BY <3>4 DEF y, l
    <2>4. CASE device.kind = "usb"
      <3> DEFINE type == devices[i].controller
                 y == xml'
                 l == counters'
      <3>1. type \in {None} \cup STRING /\ None \notin STRING /\ type = device.controller /\ devices[i].kind = "usb"
        BY <2>2, <2>4, DeviceIs, NothingIsNone
      <3>2. y[i] = Usb.elements /\ l = Usb.counters
        BY <1>3, <2>1, <2>4, WrittenElements, WrittenCounters, Written1
      <3>3. /\ PortOf = None \/ type = None => l = counters
            /\ PortOf # None /\ type # None =>
                  /\ DOMAIN l.usb = (DOMAIN counters.usb) \cup {type}
                  /\ \A t \in DOMAIN counters.usb : l.usb[t] = counters.usb[t]
                  /\ type \notin DOMAIN counters.usb =>
                        l.usb[type] = counters.controller /\ l.controller = counters.controller + 1
                  /\ type \in DOMAIN counters.usb => l.controller = counters.controller
                  /\ l.emitted = counters.emitted \cup ({type} \ {"nec-xhci"})
            /\ CountersOK(l)
        BY <2>2, <3>1, <3>2, UsbIs
      <3>4. /\ 1 \in DOMAIN y[i] <=> PortOf # None
            /\ 1 \in DOMAIN y[i] => y[i][1].bus = IF type = None THEN None ELSE usb_controller_no(counters, type)
            /\ 2 \in DOMAIN y[i] => y[i][2].model = type /\ y[i][2].index = usb_controller_no(counters, type)
            /\ 2 \in DOMAIN y[i] <=> PortOf # None /\ type \notin {None, "nec-xhci"} \cup counters.emitted
        BY <3>1, <3>2, UsbElements DEF ShapedAs
      <3>5. DOMAIN y = (DOMAIN xml) \cup {i} /\ \A d \in DOMAIN xml : y[d] = xml[d] /\ d # i
        BY <2>1
      <3>6. /\ type \in DOMAIN counters.usb => usb_controller_no(counters, type) = counters.usb[type]
            /\ type \notin DOMAIN counters.usb => usb_controller_no(counters, type) = counters.controller
        BY DEF usb_controller_no
      <3>7. DOMAIN counters.usb = counters.emitted \cup {"nec-xhci"} /\ "nec-xhci" \notin counters.emitted
        BY <1>0 DEF ControllersIn
      <3>8. counters.controller \in Nat /\ \A t \in DOMAIN counters.usb : counters.usb[t] \in Nat
        BY <2>2 DEF CountersOK
      <3>9. CASE PortOf = None \/ type = None
        <4>1. /\ l.usb = counters.usb /\ l.emitted = counters.emitted /\ l.controller = counters.controller
              /\ 2 \notin DOMAIN y[i] /\ ~(1 \in DOMAIN y[i] /\ type # None)
          BY <3>3, <3>4, <3>9
        <4> HIDE DEF y, l
        <4>2. ControllersIn(y, l)
          BY <1>0, <3>1, <3>5, <4>1, WithoutController
        <4> QED BY <4>2 DEF y, l
      <3>10. CASE PortOf # None /\ type # None /\ type \in DOMAIN counters.usb
        <4>1. l.emitted = counters.emitted /\ l.controller = counters.controller
          BY <3>3, <3>7, <3>10
        <4>2. l.usb = counters.usb
          <5>1. DOMAIN l.usb = DOMAIN counters.usb /\ \A t \in DOMAIN counters.usb : l.usb[t] = counters.usb[t]
            BY <3>3, <3>10
          <5>2. l.usb \in [DOMAIN l.usb -> Nat] /\ counters.usb \in [DOMAIN counters.usb -> Nat]
            BY <2>2, <3>3 DEF CountersOK
          <5> QED BY <5>1, <5>2
        <4>3. 2 \notin DOMAIN y[i] /\ y[i][1].bus = counters.usb[type]
          BY <3>4, <3>6, <3>7, <3>10
        <4> HIDE DEF y, l
        <4>4. ControllersIn(y, l)
          BY <1>0, <3>1, <3>5, <3>10, <4>1, <4>2, <4>3, WithoutController
        <4> QED BY <4>4 DEF y, l
      <3>11. CASE PortOf # None /\ type # None /\ type \notin DOMAIN counters.usb
        <4>1. type # "nec-xhci" /\ l.emitted = counters.emitted \cup {type}
          BY <3>3, <3>7, <3>11
        <4>2. /\ 1 \in DOMAIN y[i] /\ y[i][1].bus = counters.controller
              /\ 2 \in DOMAIN y[i] /\ y[i][2].model = type /\ y[i][2].index = counters.controller
          BY <3>4, <3>6, <3>7, <3>11
        <4>3. /\ DOMAIN l.usb = (DOMAIN counters.usb) \cup {type}
              /\ \A t \in DOMAIN counters.usb : l.usb[t] = counters.usb[t]
              /\ l.usb[type] = counters.controller /\ l.controller = counters.controller + 1
          BY <3>3, <3>11
        <4> HIDE DEF y, l
        <4>4. ControllersIn(y, l)
          BY <1>0, <3>1, <3>5, <3>8, <3>11, <4>1, <4>2, <4>3, WithController
        <4> QED BY <4>4 DEF y, l
      <3> QED BY <3>9, <3>10, <3>11
    <2> QED BY <2>3, <2>4
  <1> QED BY <1>1, <1>2, <1>3, WhoChanges

-----------------------------------------------------------------------------
(* What was asked for                                                      *)

\* The device at hand is written as it was asked for.
LEMMA WritesWhatIsAsked ==
    ASSUME TypeOK, Progress, Found, StillThere, Xml
    PROVE  WrittenFor(devices[i], xml'[i], world, changed, TRUE)
  <1>1. /\ i \in DOMAIN devices /\ xml'[i] = Written.elements /\ device = devices[i] /\ device \in Device
        /\ pc = "xml" /\ Ready
    BY Written1, WrittenCounters DEF Xml, AtDevice
  <1>2. Held(device, node[i], world, changed)
    <2>1. i \notin unavailable /\ Checked(i)
      BY <1>1 DEF Progress, Checked
    <2> QED BY <1>1, <2>1 DEF StillThere
  <1> DEFINE e == Written.elements
  <1> SUFFICES WrittenFor(device, e, world, changed, TRUE)
    BY <1>1
  <1>3. CASE device.kind = "usb"
    <2>1. e = Usb.elements
      BY <1>3, WrittenElements
    <2>2. /\ e = <<>> <=> PortOf = None
          /\ e # <<>> => e[1].port = PortOf /\ e[1].ids = get_usb_device_details(PortOf)
      BY <2>1, UsbElements
    <2> HIDE DEF e
    <2>3. ASSUME device.port # None PROVE e[1].port = device.port
      BY <1>3, <2>2, <2>3 DEF PortOf, ByIds
    <2>4. ASSUME device.port = None, "usb" \notin changed PROVE e # <<>> /\ e[1].ids = device.ids
      <3>1. ByIds /\ name # Unasked /\ PortOf = name
        BY <1>1, <1>3, <2>4 DEF ByIds, Ready, PortOf
      <3>2. \E p \in Ports : world.usb[p] = device.ids
        BY <1>2, <1>3, <2>4 DEF Held
      <3>3. name # None /\ world.usb[name] = device.ids
        BY <2>4, <3>1, <3>2 DEF Found
      <3>4. device.ids \in Ids
        BY <1>1, <1>3, <2>4, DeviceIs, NothingIsNone
      <3>5. get_usb_device_details(name) = device.ids
        BY <3>3, <3>4 DEF get_usb_device_details
      <3> QED BY <2>2, <3>1, <3>3, <3>5
    <2> QED BY <1>3, <2>3, <2>4 DEF WrittenFor
  <1>4. CASE device.kind = "nic"
    <2>1. e[1].source = LinkOf(device)
      BY <1>4, WrittenElements
    <2> HIDE DEF e
    <2> QED BY <1>4, <2>1 DEF WrittenFor, LinkIn, LinkOf
  <1>5. CASE device.kind = "gpu"
    <2>1. e[1].char = node[i]
      BY <1>5, WrittenElements
    <2> HIDE DEF e
    <2> QED BY <1>2, <1>5, <2>1 DEF WrittenFor, Held
  <1>6. CASE device.kind \notin {"usb", "nic", "gpu"}
    BY <1>6 DEF WrittenFor
  <1> QED BY <1>3, <1>4, <1>5, <1>6

\* What is written stays right, though the host changes under it.
LEMMA WrittenForStays ==
    ASSUME TypeOK, [Next]_vars, NEW asked, NEW written, NEW live, NEW after,
           WrittenFor(asked, written, world, changed, live),
           after => live,
           after /\ asked.kind = "nic" /\ changed \cap {"links", "route"} = {} => LinkIn(world, asked) \in world.links
    PROVE  WrittenFor(asked, written, world', changed', after)
  <1>1. changed \subseteq changed'
    BY ChangesStay
  <1>2. ASSUME after, asked.kind = "nic", changed' \cap {"links", "route"} = {}
        PROVE  LinkIn(world', asked) = LinkIn(world, asked)
    BY <1>1, <1>2, LinkStays
  <1> HIDE DEF LinkIn
  <1> QED BY <1>1, <1>2 DEF WrittenFor

\* Each step keeps what is written as it was asked for.
LEMMA StepAsAsked == TypeOK /\ Progress /\ Found /\ StillThere /\ AsAsked /\ [Next]_vars => AsAsked'
  <1> SUFFICES ASSUME TypeOK, Progress, Found, StillThere, AsAsked, [Next]_vars
               PROVE  AllFor(xml', world', changed', pc' \in {"xml", "create", "up"})
    BY WhoChanges DEF AsAsked, AllFor, WrittenFor, LinkIn, LinkOf
  <1> DEFINE live == pc \in {"xml", "create", "up"}
             after == pc' \in {"xml", "create", "up"}
  <1>1. \A d \in DOMAIN xml : WrittenFor(devices[d], xml[d], world, changed, live)
    BY DEF AsAsked, AllFor
  <1>2. DOMAIN xml # {} => (after => live)
    <2>1. pc = "enter" => DOMAIN xml = {}
      BY DEF Progress
    <2>2. after => pc \in {"enter", "xml", "create", "up"}
      <3>1. CASE Configure \/ Verdict
        BY <3>1 DEF Configure, Verdict
      <3>2. CASE Enter \/ EnterRaises \/ Entered \/ Leave \/ Terminate \/ Kill \/ Left
        BY <3>2 DEF Enter, EnterRaises, Entered, Leave, Terminate, Kill, Left, AtDevice, AfterAll
      <3>3. CASE Xml \/ Serialise \/ Create \/ Stops
        BY <3>3 DEF Xml, Serialise, Create, Stops, AtDevice, AfterAll
      <3>4. CASE UNCHANGED pc
        BY <3>4
      <3> QED BY <3>1, <3>2, <3>3, <3>4 DEF Next, Code, vars, find_usb_device_by_ids, Check, ProxyEnds, Change
    <2> QED BY <2>1, <2>2
  <1>3. ASSUME NEW d \in DOMAIN xml, live, devices[d].kind = "nic", changed \cap {"links", "route"} = {}
        PROVE  LinkIn(world, devices[d]) \in world.links
    <2>1. d \in DOMAIN devices \ unavailable /\ Checked(d)
      <3>1. DOMAIN xml = 1 .. Len(xml) /\ Len(xml) \in 0 .. Len(devices) /\ DOMAIN devices = 1 .. Len(devices)
            /\ Len(devices) \in Nat
        BY ConfigIs DEF TypeOK
      <3>2. d \in DOMAIN devices
        BY <3>1
      <3> QED BY <1>3, <3>2 DEF Progress, Checked
    <2> QED BY <2>1, <1>3 DEF StillThere, Held
  <1>4. \A d \in DOMAIN xml : WrittenFor(devices[d], xml[d], world', changed', after)
    <2> SUFFICES ASSUME NEW d \in DOMAIN xml PROVE WrittenFor(devices[d], xml[d], world', changed', after)
      OBVIOUS
    <2> DEFINE asked == devices[d]
               written == xml[d]
    <2>1. /\ WrittenFor(asked, written, world, changed, live) /\ (after => live)
          /\ after /\ asked.kind = "nic" /\ changed \cap {"links", "route"} = {} => LinkIn(world, asked) \in world.links
      BY <1>1, <1>2, <1>3
    <2> HIDE DEF asked, written, live, after
    <2>2. WrittenFor(asked, written, world', changed', after)
      BY <2>1, WrittenForStays
    <2> QED BY <2>2 DEF asked, written
  <1>5. CASE Xml
    <2>1. world' = world /\ changed' = changed /\ after
      BY <1>5 DEF Xml, AtDevice
    <2>2. WrittenFor(devices[i], xml'[i], world', changed', after)
      BY <1>5, <2>1, WritesWhatIsAsked
    <2>3. DOMAIN xml' = (DOMAIN xml) \cup {i} /\ \A d \in DOMAIN xml : xml'[d] = xml[d]
      BY <1>5, Written1
    <2> HIDE DEF after
    <2>4. \A d \in DOMAIN xml' : WrittenFor(devices[d], xml'[d], world', changed', after)
      BY <1>4, <2>2, <2>3
    <2> QED BY <2>4 DEF AllFor, after
  <1>6. CASE UNCHANGED xml
    BY <1>4, <1>6 DEF AllFor
  <1>7. Entered => UNCHANGED xml
    BY DEF Entered
  <1> QED BY <1>5, <1>6, <1>7, WhoChanges

-----------------------------------------------------------------------------
(* The check of the maps                                                   *)

\* Only Configure decides on the maps.
LEMMA StepIdmap == TypeOK /\ IdmapAsKernel /\ [Next]_vars => IdmapAsKernel'
  <1> DEFINE maps == {config.idmap.uid, config.idmap.gid}
  <1> SUFFICES ASSUME TypeOK, IdmapAsKernel, [Next]_vars, config.idmap # None
               PROVE  /\ pc' = "rejected" => \E items \in maps : ~KernelTakes(items)
                      /\ pc' \notin {"configure", "rejected"} =>
                            \A items \in maps : Fits(items) => KernelTakes(items)
    BY WhoChanges DEF IdmapAsKernel
  <1>1. CASE Configure
    <2>1. \A items \in maps : items \in Seq(Item)
      BY ConfigIs DEF TypeOK
    <2>2. \A items \in maps : KernelTakes(items) <=> validate_idmap_items(items) /\ Fits(items)
      <3> HIDE DEF maps
      <3> QED BY <2>1, ValidIsTaken
    <2>3. pc' = IF \A items \in maps : validate_idmap_items(items) THEN "check" ELSE "rejected"
      BY <1>1 DEF Configure
    <2> HIDE DEF maps
    <2> QED BY <2>2, <2>3
  <1>2. CASE ~Configure
    <2>1. UNCHANGED pc \/ (pc \notin {"configure", "rejected"} /\ pc' \notin {"configure", "rejected"})
      BY <1>2 DEF Next, Code, vars, find_usb_device_by_ids, Check, Verdict, Enter, EnterRaises, Entered, Xml, Serialise, Create,
           Leave, Terminate, Kill, Left, Stops, ProxyEnds, Change, AtDevice, AfterAll
    <2> QED BY <2>1 DEF IdmapAsKernel
  <1> QED BY <1>1, <1>2

-----------------------------------------------------------------------------
(* All parts together                                                      *)

\* A start begins with the invariant.
LEMMA InitInductive == Init => IInv
  <1> SUFFICES ASSUME Init PROVE IInv
    OBVIOUS
  <1>1. TypeOK
    BY InitTyping
  <1>2. /\ pc = "configure" /\ i = 1 /\ unavailable = {} /\ name = Unasked /\ xml = <<>> /\ DOMAIN xml = {}
        /\ counters = Counters
    BY DEF Init
  <1>3. Progress
    BY <1>2 DEF Progress
  <1>4. Found /\ StillThere /\ AsAsked /\ Shaped /\ Numbered
    BY <1>2 DEF Found, StillThere, Checked, AsAsked, Shaped, Numbered, AllFor, NumberedIn
  <1>5. Controllers
    BY <1>2 DEF Controllers, Counters, ControllersIn
  <1>6. IdmapAsKernel
    BY <1>2 DEF IdmapAsKernel
  <1> QED BY <1>1, <1>3, <1>4, <1>5, <1>6 DEF IInv

\* Each step keeps the invariant.
LEMMA StepInductive == IInv /\ [Next]_vars => IInv'
  BY StepTyping, StepProgress, StepFound, StepStillThere, StepAsAsked, StepShaped, StepNumbered, StepControllers,
     StepIdmap DEF IInv

\* The invariant holds of every start, whatever is configured and however the host changes.
THEOREM Inductive == Spec => []IInv
  <1>1. Init => IInv
    BY InitInductive
  <1>2. IInv /\ [Next]_vars => IInv'
    BY StepInductive
  <1> QED BY <1>1, <1>2, PTL DEF Spec

\* Every variable of a start keeps its type.
THEOREM Typing == Spec => []TypeOK
  <1>1. IInv => TypeOK
    BY DEF IInv
  <1> QED BY <1>1, Inductive, PTL

\* A configuration is rejected only if the kernel would refuse one of its maps, and of one
\* that is not rejected the kernel takes each map that keeps to the limits of the kernel: what
\* is compared is enough, for maps of any length (domain/container/configuration.py:47-62).
THEOREM IdmapChecked == Spec => []IdmapAsKernel
  <1>1. IInv => IdmapAsKernel
    BY DEF IInv
  <1> QED BY <1>1, Inductive, PTL

-----------------------------------------------------------------------------
(* What the invariant is for                                               *)

\* A document that is complete has the elements of each device.
LEMMA XmlIs ==
    ASSUME TypeOK, Progress, pc \in {"create", "up"}
    PROVE  /\ DOMAIN xml = DOMAIN devices /\ DOMAIN xml = 1 .. Len(xml)
           /\ \A d \in DOMAIN xml : devices[d] \in Device
  BY ConfigIs DEF TypeOK, Progress

\* A place is a device and the number of one of its elements.
LEMMA PlaceIs ==
    ASSUME NEW tag, NEW p
    PROVE  p \in Places(tag) <=>
             \E d \in DOMAIN xml : \E n \in DOMAIN xml[d] : xml[d][n].tag = tag /\ p = <<d, n>>
  BY DEF Places

\* Elements of disks are where disks and CD-ROMs are, one each.
LEMMA DiskPlaces ==
    ASSUME TypeOK, Progress, Shaped, pc \in {"create", "up"}, NEW p \in Places("disk")
    PROVE  \E d \in DOMAIN xml : IsDisk(d) /\ p = <<d, 1>> /\ At(p) = xml[d][1]
  <1>0. PICK d \in DOMAIN xml : \E n \in DOMAIN xml[d] : xml[d][n].tag = "disk" /\ p = <<d, n>>
    BY PlaceIs
  <1>1. PICK n \in DOMAIN xml[d] : xml[d][n].tag = "disk" /\ p = <<d, n>>
    BY <1>0
  <1>2. ShapedAs(devices[d].kind, xml[d]) /\ devices[d] \in Device
    BY XmlIs DEF Shaped
  <1>3. devices[d].kind \in {"disk", "cdrom"} /\ n = 1
    <2>1. n \in {1, 2, 3, 4}
      BY <1>2, DeviceIs DEF ShapedAs
    <2> QED BY <1>1, <1>2, <2>1, DeviceIs DEF ShapedAs
  <1> QED BY <1>1, <1>3 DEF IsDisk, At

\* TargetsAreUnique: equal prefixes count with one counter, and its numbers have names of their own.
LEMMA Targets == IInv => TargetsAreUnique
  <1> SUFFICES ASSUME IInv, pc \in {"create", "up"}, NEW p \in Places("disk"), NEW q \in Places("disk"), p # q
               PROVE  /\ <<At(p).prefix, At(p).dev>> # <<At(q).prefix, At(q).dev>>
                      /\ At(p).boot # At(q).boot
    BY DEF TargetsAreUnique
  <1>1. PICK d \in DOMAIN xml : IsDisk(d) /\ p = <<d, 1>> /\ At(p) = xml[d][1]
    BY DiskPlaces DEF IInv
  <1>2. PICK e \in DOMAIN xml : IsDisk(e) /\ q = <<e, 1>> /\ At(q) = xml[e][1]
    BY DiskPlaces DEF IInv
  <1>3. d # e
    BY <1>1, <1>2
  <1>4. /\ xml[d][1].prefix = IF Virtio(d) THEN "vd" ELSE "sd"
        /\ xml[e][1].prefix = IF Virtio(e) THEN "vd" ELSE "sd"
        /\ xml[d][1].boot # xml[e][1].boot
        /\ Virtio(d) = Virtio(e) => xml[d][1].dev # xml[e][1].dev
    BY <1>1, <1>2, <1>3 DEF IInv, Numbered, NumberedIn
  <1>5. xml[d][1].prefix = xml[e][1].prefix => Virtio(d) = Virtio(e)
    BY <1>4 DEF Virtio
  <1> QED BY <1>1, <1>2, <1>4, <1>5

\* Controllers are where displays and USB devices are.
LEMMA UsbPlaces ==
    ASSUME TypeOK, Progress, Shaped, pc \in {"create", "up"}, NEW p \in Places("controller")
    PROVE  \/ At(p).type = "usb" /\ At(p).model = "nec-xhci" /\ At(p).index = None
           \/ \E d \in DOMAIN xml : Emits(d) /\ p = <<d, 2>> /\ At(p) = xml[d][2] /\ At(p).type = "usb"
  <1>0. PICK d \in DOMAIN xml : \E n \in DOMAIN xml[d] : xml[d][n].tag = "controller" /\ p = <<d, n>>
    BY PlaceIs
  <1>1. PICK n \in DOMAIN xml[d] : xml[d][n].tag = "controller" /\ p = <<d, n>>
    BY <1>0
  <1>2. ShapedAs(devices[d].kind, xml[d]) /\ devices[d] \in Device
    BY XmlIs DEF Shaped
  <1>3. n = 2 /\ devices[d].kind \in {"usb", "display"}
    <2>1. n \in {1, 2, 3, 4}
      BY <1>2, DeviceIs DEF ShapedAs
    <2> QED BY <1>1, <1>2, <2>1, DeviceIs DEF ShapedAs
  <1>4. At(p) = xml[d][2]
    BY <1>1, <1>3 DEF At
  <1>5. CASE devices[d].kind = "display"
    BY <1>2, <1>4, <1>5 DEF ShapedAs
  <1>6. CASE devices[d].kind = "usb"
    BY <1>1, <1>2, <1>3, <1>4, <1>6 DEF ShapedAs, Emits, EmitsIn
  <1> QED BY <1>3, <1>5, <1>6

\* A controller that was written has the number of its type.
LEMMA EmittedIs ==
    ASSUME TypeOK, Progress, Shaped, Controllers, pc \in {"create", "up"}, NEW d \in DOMAIN xml, Emits(d)
    PROVE  LET type == devices[d].controller
           IN  /\ type \in STRING /\ type \in DOMAIN counters.usb /\ type # "nec-xhci"
               /\ xml[d][2].model = type /\ xml[d][2].index = counters.usb[type]
               /\ xml[d][2].index \in Nat \ {0}
               /\ <<d, 2>> \in Places("controller") /\ xml[d][2].type = "usb"
  <1> DEFINE type == devices[d].controller
  <1>1. devices[d].kind = "usb" /\ 2 \in DOMAIN xml[d]
    BY DEF Emits, EmitsIn
  <1>2. type \in counters.emitted /\ xml[d][2].model = type /\ xml[d][2].index = counters.usb[type]
    BY <1>1 DEF Controllers, ControllersIn, Emits
  <1>3. type \in STRING /\ counters.usb \in [DOMAIN counters.usb -> Nat]
    BY <1>2 DEF TypeOK
  <1>4. type \in DOMAIN counters.usb /\ type # "nec-xhci" /\ counters.usb[type] # 0
    <2>1. /\ counters.usb["nec-xhci"] = 0 /\ "nec-xhci" \notin counters.emitted
          /\ DOMAIN counters.usb = counters.emitted \cup {"nec-xhci"}
          /\ \A t, u \in DOMAIN counters.usb : t # u => counters.usb[t] # counters.usb[u]
      BY DEF Controllers, ControllersIn, Emits
    <2> QED BY <1>2, <2>1
  <1>5. xml[d][2].tag = "controller" /\ xml[d][2].type = "usb"
    BY <1>1 DEF Shaped, ShapedAs
  <1>6. <<d, 2>> \in Places("controller")
    BY <1>1, <1>5, PlaceIs
  <1> QED BY <1>2, <1>3, <1>4, <1>5, <1>6

\* AddressesHaveControllers: that of a USB device was written by the first of its type.
LEMMA Addresses == IInv => AddressesHaveControllers
  <1> SUFFICES ASSUME IInv, pc \in {"create", "up"} PROVE AddressesHaveControllers
    BY DEF AddressesHaveControllers
  <1> DEFINE usbs == {p \in Places("controller") : At(p).type = "usb"}
             pcis == {e \in Extras : e.tag = "controller" /\ e.type = "pci"}
  <1> USE DEF IInv
  <1>1. None \notin Nat
    BY NothingIsNone
  <1>2. ASSUME NEW p \in usbs, NEW q \in usbs, p # q, At(p).index # None
        PROVE  At(p).index # At(q).index
    <2>1. PICK d \in DOMAIN xml : Emits(d) /\ p = <<d, 2>> /\ At(p) = xml[d][2]
      BY <1>2, UsbPlaces
    <2>2. CASE At(q).index = None
      BY <1>2, <2>2
    <2>3. CASE \E e \in DOMAIN xml : Emits(e) /\ q = <<e, 2>> /\ At(q) = xml[e][2]
      <3>1. PICK e \in DOMAIN xml : Emits(e) /\ q = <<e, 2>> /\ At(q) = xml[e][2]
        BY <2>3
      <3>2. devices[d].controller # devices[e].controller
        BY <1>2, <2>1, <3>1 DEF Controllers, ControllersIn, Emits
      <3>3. /\ devices[d].controller \in DOMAIN counters.usb /\ devices[e].controller \in DOMAIN counters.usb
            /\ xml[d][2].index = counters.usb[devices[d].controller]
            /\ xml[e][2].index = counters.usb[devices[e].controller]
        BY <2>1, <3>1, EmittedIs
      <3> QED BY <2>1, <3>1, <3>2, <3>3 DEF Controllers, ControllersIn, Emits
    <2> QED BY <2>2, <2>3, UsbPlaces
  <1>3. ASSUME NEW p \in usbs
        PROVE  IF At(p).index = None THEN At(p).model = "nec-xhci" ELSE At(p).index # 0
    <2>1. CASE \E d \in DOMAIN xml : Emits(d) /\ p = <<d, 2>> /\ At(p) = xml[d][2]
      <3>1. At(p).index \in Nat \ {0}
        BY <2>1, EmittedIs
      <3> QED BY <1>1, <3>1
    <2>2. CASE At(p).model = "nec-xhci" /\ At(p).index = None
      BY <2>2
    <2> QED BY <2>1, <2>2, UsbPlaces
  <1>4. ASSUME NEW d \in OfKind("usb"), xml[d] # <<>>, devices[d].controller # None
        PROVE  \/ devices[d].controller = "nec-xhci" /\ xml[d][1].bus = 0
               \/ \E p \in usbs : At(p).index = xml[d][1].bus /\ At(p).model = devices[d].controller
    <2> DEFINE type == devices[d].controller
    <2>1. d \in DOMAIN xml /\ devices[d].kind = "usb"
      BY XmlIs DEF OfKind
    <2>2. 1 \in DOMAIN xml[d]
      <3>1. ShapedAs("usb", xml[d])
        BY <2>1 DEF Shaped
      <3> QED BY <1>4, <3>1 DEF ShapedAs
    <2>3. type \in DOMAIN counters.usb /\ xml[d][1].bus = counters.usb[type]
      BY <1>4, <2>1, <2>2 DEF Controllers, ControllersIn, Emits
    <2>4. CASE type = "nec-xhci"
      BY <2>3, <2>4 DEF Controllers, ControllersIn, Emits
    <2>5. CASE type # "nec-xhci"
      <3>1. type \in counters.emitted
        BY <2>3, <2>5 DEF Controllers, ControllersIn, Emits
      <3>2. PICK e \in DOMAIN xml : OfType(e, type) /\ Emits(e)
        BY <3>1 DEF Controllers, ControllersIn, Emits
      <3>3. /\ <<e, 2>> \in Places("controller") /\ xml[e][2].type = "usb"
            /\ xml[e][2].model = type /\ xml[e][2].index = counters.usb[type]
        BY <3>2, EmittedIs DEF OfType
      <3>4. At(<<e, 2>>) = xml[e][2]
        BY DEF At
      <3> HIDE DEF type
      <3>5. <<e, 2>> \in usbs /\ At(<<e, 2>>).index = xml[d][1].bus /\ At(<<e, 2>>).model = type
        BY <2>3, <3>3, <3>4
      <3> QED BY <3>5 DEF type
    <2> QED BY <2>4, <2>5
  <1>5. ASSUME NEW e \in pcis
        PROVE  config.vm => e \in pci_expansion_controllers
    BY DEF Extras, VmExtras
  <1>6. ASSUME NEW d \in OfKind("nic"), config.vm, devices[d].bus > 0
        PROVE  \E e \in pcis : e.index = devices[d].bus /\ (e.model = "pcie-root-port") = config.q35
    <2> DEFINE e == [tag |-> "controller", type |-> "pci", index |-> devices[d].bus,
                     model |-> IF config.q35 THEN "pcie-root-port" ELSE "pci-bridge"]
    <2>1. devices[d].bus \in {devices[c].bus : c \in OfKind("nic")} \ {0}
      BY <1>6
    <2>2. e \in Extras
      BY <1>6, <2>1 DEF Extras, pci_expansion_controllers
    <2>3. config.q35 \in BOOLEAN
      BY DEF TypeOK, Config
    <2>4. e.index = devices[d].bus /\ (e.model = "pcie-root-port") = config.q35
      BY <2>3
    <2> QED BY <2>2, <2>4
  <1>7. ASSUME NEW e \in pcis, NEW f \in pcis, e # f
        PROVE  e.index # f.index
    <2>1. config.vm
      BY <1>7 DEF Extras, ContainerExtras, DriverNodesOfFirst
    <2> QED BY <1>5, <1>7, <2>1 DEF pci_expansion_controllers
  <1> QED BY <1>2, <1>3, <1>4, <1>6, <1>7 DEF AddressesHaveControllers

\* No two disks of a document have one target or one place in the boot order.
THEOREM TargetsDiffer == Spec => []TargetsAreUnique
  BY Targets, Inductive, PTL

\* Every address of a document is on a controller of the kind that was asked for, and no two
\* controllers have one number.
THEOREM AddressesHold == Spec => []AddressesHaveControllers
  BY Addresses, Inductive, PTL

\* DevicesAsAsked: what is written, of a domain that is up.
LEMMA Devices == IInv => DevicesAsAsked
  <1> SUFFICES ASSUME IInv, pc = "up", NEW d \in DOMAIN devices
               PROVE  LET asked   == devices[d]
                          written == xml[d]
                      IN  CASE asked.kind = "usb" /\ asked.port # None -> written[1].port = asked.port
                            [] asked.kind = "usb" /\ asked.port = None ->
                                  "usb" \in changed \/ (written # <<>> /\ written[1].ids = asked.ids)
                            [] asked.kind = "nic" ->
                                  /\ asked.source # None => written[1].source = asked.source
                                  /\ changed \cap {"links", "route"} = {} => written[1].source \in world.up
                            [] asked.kind = "gpu" -> written[1].char = asked.slot
                            [] OTHER -> written # <<>>
    BY DEF DevicesAsAsked
  <1> DEFINE asked == devices[d]
             written == xml[d]
  <1>1. d \in DOMAIN xml /\ asked \in Device
    BY XmlIs DEF IInv
  <1>2. d \notin unavailable /\ Checked(d) /\ Linked(d)
    BY DEF IInv, Progress, Checked, Linked
  <1>3. /\ asked.kind = "usb" /\ asked.port # None => written[1].port = asked.port
        /\ asked.kind = "usb" /\ asked.port = None =>
              "usb" \in changed \/ (written # <<>> /\ written[1].ids = asked.ids)
        /\ asked.kind = "nic" /\ asked.source # None => written[1].source = asked.source
        /\ asked.kind = "nic" /\ changed \cap {"links", "route"} = {} => written[1].source = LinkOf(asked)
        /\ asked.kind = "gpu" => written[1].char = asked.slot
    BY <1>1 DEF IInv, AsAsked, AllFor, WrittenFor, LinkIn, LinkOf
  <1>4. asked.kind = "nic" /\ changed \cap {"links", "route"} = {} => LinkOf(asked) \in world.up
    BY <1>2 DEF IInv, StillThere, LinkIn, Held, LinkOf
  <1>5. asked.kind \in {"disk", "cdrom", "display"} => written # <<>>
    <2>1. ShapedAs(asked.kind, written)
      BY <1>1 DEF IInv, Shaped
    <2>2. DOMAIN <<>> = {}
      OBVIOUS
    <2> HIDE DEF asked, written
    <2>3. asked.kind \in {"disk", "cdrom", "display"} => 1 \in DOMAIN written
      BY <2>1 DEF ShapedAs
    <2> QED BY <2>2, <2>3
  <1>6. asked.kind \in {"disk", "cdrom", "display", "usb", "nic", "gpu"}
    BY <1>1, DeviceIs
  <1> HIDE DEF asked, written
  <1>7. CASE asked.kind = "usb"
    BY <1>3, <1>7 DEF asked, written
  <1>8. CASE asked.kind = "nic"
    BY <1>3, <1>4, <1>8 DEF asked, written
  <1>9. CASE asked.kind = "gpu"
    BY <1>3, <1>9 DEF asked, written
  <1>10. CASE asked.kind \in {"disk", "cdrom", "display"}
    BY <1>5, <1>10 DEF asked, written
  <1> QED BY <1>6, <1>7, <1>8, <1>9, <1>10

\* The first of some devices.
LEMMA FirstIs ==
    ASSUME TypeOK, NEW gpus \in SUBSET DOMAIN devices, gpus # {}
    PROVE  \E first \in gpus :
               DriverNodesOfFirst(gpus) = {[tag |-> "misc", char |-> n] : n \in DriverNodes(devices[first].vendor)}
  <1>1. gpus \in SUBSET Nat
    BY ConfigIs DEF TypeOK
  <1>2. \E first \in gpus : \A e \in gpus : first <= e
    BY <1>1, Least
  <1> DEFINE first == CHOOSE e \in gpus : \A f \in gpus : e <= f
  <1>3. first \in gpus
    BY <1>2
  <1>4. DriverNodesOfFirst(gpus) = {[tag |-> "misc", char |-> n] : n \in DriverNodes(devices[first].vendor)}
    BY DEF DriverNodesOfFirst
  <1> HIDE DEF first
  <1> QED BY <1>3, <1>4

\* DriverNodesPresent: the first GPU that is not Intel's stands for all.
LEMMA DriverNodesThere == IInv => DriverNodesPresent
  <1> SUFFICES ASSUME IInv, ~config.vm, OneDriver, NEW d \in OfKind("gpu"), NEW n \in DriverNodes(devices[d].vendor)
               PROVE  [tag |-> "misc", char |-> n] \in document
    BY DEF DriverNodesPresent
  <1> DEFINE gpus == {e \in OfKind("gpu") : devices[e].vendor \in {"AMD", "NVIDIA"}}
  <1>1. d \in gpus
    BY DEF DriverNodes
  <1>2. gpus \in SUBSET DOMAIN devices /\ gpus # {}
    BY <1>1 DEF OfKind
  <1>3. PICK first \in gpus :
            DriverNodesOfFirst(gpus) = {[tag |-> "misc", char |-> m] : m \in DriverNodes(devices[first].vendor)}
    <2> HIDE DEF gpus
    <2> QED BY <1>2, FirstIs DEF IInv
  <1>4. devices[first].vendor = devices[d].vendor
    BY <1>1 DEF OneDriver
  <1>5. [tag |-> "misc", char |-> n] \in ContainerExtras
    BY <1>3, <1>4 DEF ContainerExtras
  <1>6. Extras = ContainerExtras
    BY DEF Extras
  <1> QED BY <1>5, <1>6 DEF document

\* A part of a set of CPUs that can be read is a number or a range from less to more.
LEMMA ReadableIs ==
    ASSUME NEW part \in Seq(Nat) \ {<<>>}, ~PartRaises(part)
    PROVE  Len(part) = 1 \/ (Len(part) = 2 /\ part[1] < part[2])
  <1>1. part \in Seq(Nat) /\ part # <<>>
    OBVIOUS
  <1>2. Len(part) \in Nat /\ Len(part) # 0
    BY <1>1
  <1>3. ~(Len(part) > 2)
    BY DEF PartRaises
  <1>4. Len(part) = 2 => ~(part[1] >= part[2])
    BY DEF PartRaises
  <1>5. part \in [1 .. Len(part) -> Nat]
    BY <1>1, LenProperties
  <1> DEFINE length == Len(part)
  <1>6. length = 1 \/ length = 2
    <2> HIDE DEF length
    <2>1. length \in Nat /\ length # 0 /\ ~(length > 2)
      BY <1>2, <1>3 DEF length
    <2> QED BY <2>1
  <1>7. ASSUME length = 2 PROVE part[1] < part[2]
    <2>1. part \in [1 .. 2 -> Nat]
      BY <1>5, <1>7
    <2>2. part[1] \in Nat /\ part[2] \in Nat
      BY <2>1
    <2> QED BY <1>4, <1>7, <2>2
  <1> QED BY <1>6, <1>7

\* PinsAreTheSet: nothing that raises gets this far.
LEMMA PinsOfMachine == IInv => PinsAreTheSet
  <1> SUFFICES ASSUME IInv, config.vm, Pinned, pc \in {"create", "up"}
               PROVE  /\ \A part \in ToSet(machine.cpuset) : Len(part) = 1 \/ (Len(part) = 2 /\ part[1] < part[2])
                      /\ ToSet(Pins) = UNION {part[1] .. part[Len(part)] : part \in ToSet(machine.cpuset)}
                      /\ Cardinality(ToSet(Pins)) = Len(Pins)
    BY DEF PinsAreTheSet
  <1> DEFINE parts == machine.cpuset
  <1>1. parts \in Seq(Seq(Nat) \ {<<>>})
    BY ConfigIs DEF IInv, TypeOK, machine, Machine
  <1>2. \A n \in DOMAIN parts : ~PartRaises(parts[n])
    BY DEF IInv, Progress, PinsRaise
  <1>3. Pins = parse_numeric_set(parts)
    BY DEF Pins
  <1> HIDE DEF parts
  <1>4. /\ ToSet(parse_numeric_set(parts)) = UNION {part[1] .. part[Len(part)] : part \in ToSet(parts)}
        /\ Cardinality(ToSet(parse_numeric_set(parts))) = Len(parse_numeric_set(parts))
    BY <1>1, <1>2, CpusOfASet
  <1>5. ASSUME NEW part \in ToSet(parts) PROVE Len(part) = 1 \/ (Len(part) = 2 /\ part[1] < part[2])
    <2>1. PICK n \in DOMAIN parts : part = parts[n]
      BY <1>5 DEF ToSet
    <2>2. part \in Seq(Nat) \ {<<>>}
      BY <1>1, <2>1
    <2>3. ~PartRaises(part)
      BY <1>2, <2>1
    <2> QED BY <2>2, <2>3, ReadableIs
  <1> QED BY <1>3, <1>4, <1>5 DEF parts

\* A domain that is up has the devices that it was configured with, but for those that the host
\* took away or that are not named by what they are.
THEOREM DevicesHold == Spec => []DevicesAsAsked
  BY Devices, Inductive, PTL

\* A container with the GPUs of one vendor has the nodes that its driver needs.
THEOREM DriverNodesHold == Spec => []DriverNodesPresent
  BY DriverNodesThere, Inductive, PTL

\* A machine whose set of CPUs cannot be read does not start, and the vCPUs of one that does
\* are pinned to the CPUs of its set and to no other, each CPU once.
THEOREM PinsHold == Spec => []PinsAreTheSet
  BY PinsOfMachine, Inductive, PTL

=============================================================================
