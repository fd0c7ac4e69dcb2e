--------------------------- MODULE HashTableProofs ---------------------------
(***************************************************************************)
(* The hash table implements the dictionary, for any entries, keys, hash   *)
(* routine and numbers of buckets.                                         *)
(*                                                                         *)
(* What a recursive function computes is proved from the least natural     *)
(* number for which it would not (Least).                                  *)
(***************************************************************************)
EXTENDS HashTable, FiniteSetTheorems, SequenceTheorems, WellFoundedInduction, TLAPS

-----------------------------------------------------------------------------
(***************************************************************************)
(* The inductive invariant.                                                *)
(***************************************************************************)

\* Every entry is in the list its key is looked for in, and no list has two
\* entries with one key.
Placed(b) == \A i \in DOMAIN b : \A j \in DOMAIN b[i] : BucketOf(b, KeyOf[b[i][j]]) = i

Unique(list) == \A j, l \in DOMAIN list : KeyOf[list[j]] = KeyOf[list[l]] => j = l

WellFormed(b) == Placed(b) /\ \A i \in DOMAIN b : Unique(b[i])

KeysOf(b) == {KeyOf[e] : e \in Elements(b)}

\* The entries of a resize are on one side only.
FormInv ==
    /\ WellFormed(buckets) /\ WellFormed(old)
    /\ KeysOf(buckets) \cap KeysOf(old) = {}

CountInv ==
    /\ IsFiniteSet(KeysOf(buckets)) /\ IsFiniteSet(KeysOf(old))
    /\ count = Cardinality(KeysOf(buckets))

\* The next entry of an enumeration is in the list that is enumerated.
EnumInv ==
    enum.active => /\ old = NoBuckets
                   /\ enum.bucket \in DOMAIN buckets
                   /\ enum.next # Null => enum.next \in Range(buckets[enum.bucket])

TableInv == TableTypeOK /\ FormInv /\ CountInv /\ EnumInv

-----------------------------------------------------------------------------
(***************************************************************************)
(* Lists.                                                                  *)
(***************************************************************************)

\* A set of natural numbers has a least element.
LEMMA Least ==
  ASSUME NEW T, T \subseteq Nat, T # {}
  PROVE  \E x \in T : \A y \in T : x <= y
<1>1. IsWellFoundedOn(OpToRel(<, Nat), Nat)
  BY NatLessThanWellFounded
<1>2. PICK x \in T : \A y \in T : ~ (<<y, x>> \in OpToRel(<, Nat))
  BY <1>1, WFMin
<1>3. \A y \in T : ~ (y < x)
  BY <1>2 DEF OpToRel
<1> QED BY <1>3

\* Min of FiniteSetsExt is that element.
LEMMA MinFact ==
  ASSUME NEW T, T \subseteq Nat, T # {}
  PROVE  Min(T) \in T /\ \A y \in T : Min(T) <= y
BY Least DEF Min

\* Taking the i-th entry out of a list.
LEMMA UnlinkFact ==
  ASSUME NEW list \in Seq(Entries), NEW i \in DOMAIN list
  PROVE  /\ Unlink(list, i) \in Seq(Entries)
         /\ Len(Unlink(list, i)) = Len(list) - 1
         /\ \A j \in 1 .. Len(list) - 1 : Unlink(list, i)[j] = IF j < i THEN list[j] ELSE list[j + 1]
<1> DEFINE a == SubSeq(list, 1, i - 1)
           b == SubSeq(list, i + 1, Len(list))
<1>0. Len(list) \in Nat /\ i \in 1 .. Len(list) /\ \A j \in 1 .. Len(list) : list[j] \in Entries
  OBVIOUS
<1>1. a \in Seq(Entries) /\ Len(a) = i - 1 /\ \A j \in 1 .. i - 1 : a[j] = list[j]
  BY <1>0
<1>2. b \in Seq(Entries) /\ Len(b) = Len(list) - i /\ \A j \in 1 .. Len(list) - i : b[j] = list[i + j]
  BY <1>0
<1> HIDE DEF a, b
<1>3. /\ a \o b \in Seq(Entries) /\ Len(a \o b) = Len(a) + Len(b)
      /\ \A j \in 1 .. Len(a) + Len(b) : (a \o b)[j] = IF j <= Len(a) THEN a[j] ELSE b[j - Len(a)]
  BY <1>1, <1>2, ConcatProperties
<1>4. Unlink(list, i) = a \o b
  BY DEF Unlink, a, b
<1>5. ASSUME NEW j \in 1 .. Len(list) - 1
      PROVE  (a \o b)[j] = IF j < i THEN list[j] ELSE list[j + 1]
  <2>1. CASE j < i
    <3>0. j \in 1 .. Len(a) + Len(b) /\ j <= Len(a) /\ j \in 1 .. i - 1
      BY <1>0, <1>1, <1>2, <2>1
    <3>1. (a \o b)[j] = a[j]
      BY <1>3, <3>0
    <3>2. a[j] = list[j]
      BY <1>1, <3>0
    <3> QED BY <2>1, <3>1, <3>2
  <2>2. CASE ~ (j < i)
    <3>0. j \in 1 .. Len(a) + Len(b) /\ ~ (j <= Len(a))
      BY <1>0, <1>1, <1>2, <2>2
    <3>1. (a \o b)[j] = b[j - (i - 1)]
      BY <1>1, <1>3, <3>0
    <3>2. j - (i - 1) \in 1 .. Len(list) - i /\ i + (j - (i - 1)) = j + 1
      BY <1>0, <2>2
    <3> QED BY <1>2, <2>2, <3>1, <3>2
  <2> QED BY <2>1, <2>2
<1>6. Len(a) + Len(b) = Len(list) - 1
  BY <1>0, <1>1, <1>2
<1> QED BY <1>3, <1>4, <1>5, <1>6

\* The equation of the function in Without, for the first m entries.
KeptUpTo(list, k, m, f) ==
    f = [n \in 0 .. m |-> IF n = 0 THEN <<>>
                          ELSE IF KeyOf[list[n]] = k THEN f[n - 1] ELSE Append(f[n - 1], list[n])]

\* The function that Without evaluates at the end of the list.
KeptOf(list, k) == CHOOSE f : KeptUpTo(list, k, Len(list), f)

\* The equation has a solution.
LEMMA KeptExists ==
  ASSUME NEW list \in Seq(Entries), NEW k
  PROVE  \E f : KeptUpTo(list, k, Len(list), f)
<1> DEFINE T == {m \in Nat : ~ \E f : KeptUpTo(list, k, m, f)}
<1>0. Len(list) \in Nat
  OBVIOUS
<1> SUFFICES ASSUME T # {} PROVE FALSE
  BY <1>0
<1>1. PICK m \in T : \A y \in T : m <= y
  BY Least
<1>2. m # 0
  <2> DEFINE f == [n \in 0 .. 0 |-> <<>>]
  <2>1. KeptUpTo(list, k, 0, f)
    BY DEF KeptUpTo
  <2> QED BY <2>1, <1>1
<1>3. m - 1 \in Nat /\ m - 1 \notin T
  BY <1>1, <1>2
<1>4. PICK g : KeptUpTo(list, k, m - 1, g)
  BY <1>3
<1> DEFINE h == [n \in 0 .. m |->
                   IF n < m THEN g[n]
                   ELSE IF KeyOf[list[m]] = k THEN g[m - 1] ELSE Append(g[m - 1], list[m])]
<1>5. \A n \in 0 .. m - 1 : g[n] = IF n = 0 THEN <<>>
                                    ELSE IF KeyOf[list[n]] = k THEN g[n - 1] ELSE Append(g[n - 1], list[n])
  BY <1>3, <1>4 DEF KeptUpTo
<1>6. \A n \in 0 .. m : h[n] = IF n = 0 THEN <<>>
                                ELSE IF KeyOf[list[n]] = k THEN h[n - 1] ELSE Append(h[n - 1], list[n])
  <2> SUFFICES ASSUME NEW n \in 0 .. m
               PROVE  h[n] = IF n = 0 THEN <<>>
                             ELSE IF KeyOf[list[n]] = k THEN h[n - 1] ELSE Append(h[n - 1], list[n])
    OBVIOUS
  <2>1. CASE n = 0
    BY <1>1, <1>2, <1>5, <2>1
  <2>2. CASE n # 0
    <3>1. h[n - 1] = g[n - 1]
      BY <1>1, <2>2
    <3> QED BY <1>1, <1>2, <1>5, <2>2, <3>1
  <2> QED BY <2>1, <2>2
<1>7. KeptUpTo(list, k, m, h)
  BY <1>6 DEF KeptUpTo
<1> QED BY <1>1, <1>7

\* What is kept of the first n entries.
KeptProperly(list, k, n, s) ==
    /\ s \in Seq(Entries) /\ Unique(s)
    /\ \A x : x \in Range(s) <=> \E j \in 1 .. n : x = list[j] /\ KeyOf[x] # k

\* Appending an entry whose key is new.
LEMMA AppendFact ==
  ASSUME NEW s \in Seq(Entries), NEW e \in Entries
  PROVE  /\ Append(s, e) \in Seq(Entries)
         /\ \A x : x \in Range(Append(s, e)) <=> x \in Range(s) \/ x = e
         /\ Unique(s) /\ (\A x \in Range(s) : KeyOf[x] # KeyOf[e]) => Unique(Append(s, e))
<1> DEFINE a == Append(s, e)
<1>1. /\ a \in Seq(Entries) /\ Len(a) = Len(s) + 1 /\ a[Len(s) + 1] = e
      /\ \A i \in 1 .. Len(s) : a[i] = s[i]
  BY AppendProperties
<1>2. DOMAIN s = 1 .. Len(s) /\ DOMAIN a = 1 .. Len(s) + 1 /\ Len(s) \in Nat
  BY <1>1
<1> HIDE DEF a
<1>3. \A x : x \in Range(a) <=> x \in Range(s) \/ x = e
  BY <1>1, <1>2 DEF Range
<1>4. ASSUME Unique(s), \A x \in Range(s) : KeyOf[x] # KeyOf[e]
      PROVE  Unique(a)
  <2> SUFFICES ASSUME NEW j \in DOMAIN a, NEW l \in DOMAIN a, KeyOf[a[j]] = KeyOf[a[l]]
               PROVE  j = l
    BY DEF Unique
  <2>1. \A i \in 1 .. Len(s) : a[i] = s[i] /\ a[i] \in Range(s) /\ KeyOf[a[i]] # KeyOf[e]
    BY <1>1, <1>2, <1>4 DEF Range
  <2>2. CASE j \in 1 .. Len(s) /\ l \in 1 .. Len(s)
    BY <1>2, <1>4, <2>1, <2>2 DEF Unique
  <2>3. CASE j \notin 1 .. Len(s) /\ l \notin 1 .. Len(s)
    BY <1>2, <2>3
  <2>4. ASSUME NEW p \in 1 .. Len(s), NEW q \in DOMAIN a, q \notin 1 .. Len(s)
        PROVE  KeyOf[a[p]] # KeyOf[a[q]]
    BY <1>1, <1>2, <2>1, <2>4
  <2> QED BY <2>2, <2>3, <2>4
<1> QED BY <1>1, <1>3, <1>4 DEF a

\* Without keeps the entries with other keys, and nothing else.
LEMMA WithoutFact ==
  ASSUME NEW list \in Seq(Entries), NEW k, Unique(list)
  PROVE  /\ Without(list, k) \in Seq(Entries) /\ Unique(Without(list, k))
         /\ \A x : x \in Range(Without(list, k)) <=> x \in Range(list) /\ KeyOf[x] # k
<1> DEFINE f == KeptOf(list, k)
<1>1. KeptUpTo(list, k, Len(list), f)
  BY KeptExists DEF KeptOf
<1>2. Without(list, k) = f[Len(list)]
  BY DEF Without, KeptOf, KeptUpTo
<1>3. \A n \in 0 .. Len(list) : f[n] = IF n = 0 THEN <<>>
                                       ELSE IF KeyOf[list[n]] = k THEN f[n - 1] ELSE Append(f[n - 1], list[n])
  BY <1>1 DEF KeptUpTo
<1>4. Len(list) \in Nat /\ DOMAIN list = 1 .. Len(list) /\ \A j \in 1 .. Len(list) : list[j] \in Entries
  OBVIOUS
<1> HIDE DEF f
<1>5. KeptProperly(list, k, 0, f[0])
  <2>1. f[0] = <<>>
    BY <1>3, <1>4
  <2> QED BY <2>1 DEF KeptProperly, Unique, Range
<1>6. ASSUME NEW n \in 1 .. Len(list), KeptProperly(list, k, n - 1, f[n - 1])
      PROVE  KeptProperly(list, k, n, f[n])
  <2>1. n - 1 \in Nat /\ n \in Nat /\ 1 .. n = (1 .. n - 1) \cup {n} /\ list[n] \in Entries
    BY <1>4
  <2>2. CASE KeyOf[list[n]] = k
    <3>1. f[n] = f[n - 1]
      BY <1>3, <1>4, <2>2
    <3> QED BY <1>6, <2>1, <2>2, <3>1 DEF KeptProperly
  <2>3. CASE KeyOf[list[n]] # k
    <3>0. n \in 0 .. Len(list) /\ n # 0
      BY <1>4
    <3>1. f[n] = Append(f[n - 1], list[n])
      BY <1>3, <2>3, <3>0, Zenon
    <3>2. \A x \in Range(f[n - 1]) : KeyOf[x] # KeyOf[list[n]]
      <4> SUFFICES ASSUME NEW j \in 1 .. n - 1, KeyOf[list[j]] = KeyOf[list[n]] PROVE FALSE
        BY <1>6 DEF KeptProperly
      <4>1. j \in DOMAIN list /\ n \in DOMAIN list /\ j # n
        BY <1>4
      <4> QED BY <4>1 DEF Unique
    <3>3. /\ Append(f[n - 1], list[n]) \in Seq(Entries) /\ Unique(Append(f[n - 1], list[n]))
          /\ \A x : x \in Range(Append(f[n - 1], list[n])) <=> x \in Range(f[n - 1]) \/ x = list[n]
      BY <1>6, <2>1, <3>2, AppendFact DEF KeptProperly
    <3> QED BY <1>6, <2>1, <2>3, <3>1, <3>3 DEF KeptProperly
  <2> QED BY <2>2, <2>3
<1>7. KeptProperly(list, k, Len(list), f[Len(list)])
  <2> DEFINE T == {n \in 0 .. Len(list) : ~ KeptProperly(list, k, n, f[n])}
  <2> SUFFICES ASSUME T # {} PROVE FALSE
    BY <1>4
  <2>0. T \subseteq Nat
    BY <1>4
  <2>1. PICK n \in T : \A y \in T : n <= y
    BY <2>0, Least
  <2>2. n # 0 /\ n \in 1 .. Len(list) /\ n - 1 \in 0 .. Len(list) /\ n - 1 \notin T
    BY <1>4, <1>5, <2>1
  <2>3. KeptProperly(list, k, n - 1, f[n - 1])
    BY <2>2
  <2> QED BY <1>6, <2>1, <2>2, <2>3
<1>8. \A x : x \in Range(list) <=> \E j \in 1 .. Len(list) : x = list[j]
  BY <1>4 DEF Range
<1> QED BY <1>2, <1>7, <1>8 DEF KeptProperly

-----------------------------------------------------------------------------
(***************************************************************************)
(* Buckets.                                                                *)
(***************************************************************************)

\* The index of a list is the remainder of the hash value.
LEMMA BucketFact ==
  ASSUME NEW n \in Nat \ {0}, NEW b \in [0 .. n - 1 -> Seq(Entries)]
  PROVE  Cardinality(DOMAIN b) = n /\ \A k \in Keys : BucketOf(b, k) \in 0 .. n - 1
<1>1. DOMAIN b = 0 .. n - 1 /\ n - 1 \in Int /\ ~ (0 > n - 1)
  OBVIOUS
<1>2. Cardinality(0 .. n - 1) = n
  BY <1>1, FS_Interval
<1>3. ASSUME NEW k \in Keys PROVE Hash[k] % n \in 0 .. n - 1
  BY HashAssumption
<1> QED BY <1>1, <1>2, <1>3 DEF BucketOf

\* The entries of the table are those of its lists.
LEMMA MemberFact ==
  ASSUME NEW n \in Nat, NEW b \in [0 .. n - 1 -> Seq(Entries)]
  PROVE  \A x : x \in Elements(b) <=> \E i \in 0 .. n - 1 : x \in Range(b[i])
<1>1. DOMAIN b = 0 .. n - 1
  OBVIOUS
<1> QED BY <1>1 DEF Elements

\* An entry is in the list of its key.
LEMMA PlacedFact ==
  ASSUME NEW n \in Nat, NEW b \in [0 .. n - 1 -> Seq(Entries)], Placed(b)
  PROVE  \A i, x : i \in 0 .. n - 1 /\ x \in Range(b[i]) => x \in Entries /\ BucketOf(b, KeyOf[x]) = i
<1> SUFFICES ASSUME NEW i \in 0 .. n - 1, NEW x \in Range(b[i])
             PROVE  x \in Entries /\ BucketOf(b, KeyOf[x]) = i
  OBVIOUS
<1>1. DOMAIN b = 0 .. n - 1 /\ b[i] \in Seq(Entries)
  OBVIOUS
<1>2. PICK j \in DOMAIN b[i] : x = b[i][j]
  BY DEF Range
<1>3. b[i][j] \in Entries
  BY <1>1, <1>2
<1> QED BY <1>1, <1>2, <1>3 DEF Placed

\* No two entries of the table have the same key.
LEMMA OneEntry ==
  ASSUME NEW n \in Nat, NEW b \in [0 .. n - 1 -> Seq(Entries)], WellFormed(b),
         NEW x \in Elements(b), NEW y \in Elements(b), KeyOf[x] = KeyOf[y]
  PROVE  x = y
<1>0. Placed(b) /\ DOMAIN b = 0 .. n - 1
  BY DEF WellFormed
<1>1. PICK i \in 0 .. n - 1 : x \in Range(b[i])
  BY <1>0, MemberFact
<1>2. y \in Range(b[i])
  <2>1. PICK j \in 0 .. n - 1 : y \in Range(b[j])
    BY <1>0, MemberFact
  <2>2. x \in Entries /\ BucketOf(b, KeyOf[x]) = i
    BY <1>0, <1>1, PlacedFact, ZenonT(30)
  <2>3. BucketOf(b, KeyOf[y]) = j
    BY <1>0, <2>1, PlacedFact
  <2> QED BY <2>1, <2>2, <2>3
<1>3. Unique(b[i])
  BY <1>0 DEF WellFormed
<1> QED BY <1>1, <1>2, <1>3 DEF Unique, Range

\* c is b with another list.
Replaces(c, b, i, list) == c = [b EXCEPT ![i] = list]

\* Replacing a list by one whose entries belong there.
LEMMA ReplaceFact ==
  ASSUME NEW n \in Nat, NEW b \in [0 .. n - 1 -> Seq(Entries)], WellFormed(b),
         NEW i \in 0 .. n - 1, NEW list \in Seq(Entries), Unique(list),
         \A x \in Range(list) : BucketOf(b, KeyOf[x]) = i, NEW c, Replaces(c, b, i, list)
  PROVE  /\ c \in [0 .. n - 1 -> Seq(Entries)] /\ WellFormed(c)
         /\ \A x : x \in Elements(c) <=> \/ x \in Elements(b) /\ BucketOf(b, KeyOf[x]) # i
                                         \/ x \in Range(list)
<1>1. /\ c \in [0 .. n - 1 -> Seq(Entries)] /\ DOMAIN c = DOMAIN b /\ DOMAIN b = 0 .. n - 1
      /\ c[i] = list /\ \A j \in 0 .. n - 1 : j # i => c[j] = b[j]
  BY DEF Replaces
<1>2. \A k : BucketOf(c, k) = BucketOf(b, k)
  BY <1>1 DEF BucketOf
<1>3. \A j \in 0 .. n - 1 : Unique(c[j])
  BY <1>1 DEF WellFormed
<1>4. ASSUME NEW j \in 0 .. n - 1, NEW l \in DOMAIN c[j]
      PROVE  BucketOf(c, KeyOf[c[j][l]]) = j
  <2>1. CASE j = i
    <3>1. c[j][l] \in Range(list)
      BY <1>1, <2>1 DEF Range
    <3> QED BY <1>2, <2>1, <3>1
  <2>2. CASE j # i
    BY <1>1, <1>2, <2>2 DEF WellFormed, Placed
  <2> QED BY <2>1, <2>2
<1>5. WellFormed(c)
  BY <1>1, <1>3, <1>4 DEF WellFormed, Placed
<1>6. Placed(b) /\ Placed(c)
  BY <1>5 DEF WellFormed
<1>7. ASSUME NEW x
      PROVE  x \in Elements(c) <=> \/ x \in Elements(b) /\ BucketOf(b, KeyOf[x]) # i
                                   \/ x \in Range(list)
  <2>1. ASSUME NEW j \in 0 .. n - 1, x \in Range(b[j])
        PROVE  x \in Entries /\ BucketOf(b, KeyOf[x]) = j
    <3>1. \A l, y : l \in 0 .. n - 1 /\ y \in Range(b[l]) => y \in Entries /\ BucketOf(b, KeyOf[y]) = l
      BY <1>6, PlacedFact, Zenon
    <3> QED BY <2>1, <3>1, Zenon
  <2>2. x \in Elements(c) <=> \E j \in 0 .. n - 1 : x \in Range(c[j])
    BY <1>1, <1>6, MemberFact
  <2>3. x \in Elements(b) <=> \E j \in 0 .. n - 1 : x \in Range(b[j])
    BY <1>6, MemberFact
  <2> QED BY <1>1, <2>1, <2>2, <2>3
<1> QED BY <1>1, <1>5, <1>7

\* The entries with a key: one place, if there are any.
LEMMA MatchesFact ==
  ASSUME NEW n \in Nat \ {0}, NEW b \in [0 .. n - 1 -> Seq(Entries)], WellFormed(b), NEW k \in Keys
  PROVE  LET list == b[BucketOf(b, k)]
             same == Matches(list, k)
         IN  /\ list \in Seq(Entries) /\ Unique(list)
             /\ k \in KeysOf(b) => \E j \in DOMAIN list : /\ same = {j} /\ Max(same) = j /\ Min(same) = j
                                                          /\ list[j] \in Elements(b) /\ KeyOf[list[j]] = k
             /\ k \notin KeysOf(b) => same = {}
<1> DEFINE i == BucketOf(b, k)
           list == b[i]
           same == Matches(list, k)
<1>0. i \in 0 .. n - 1 /\ DOMAIN b = 0 .. n - 1 /\ Placed(b) /\ list \in Seq(Entries) /\ Unique(list)
  BY BucketFact DEF WellFormed
<1>1. \A j \in same : list[j] \in Elements(b) /\ KeyOf[list[j]] = k /\ list[j] \in Range(list)
  <2> SUFFICES ASSUME NEW j \in same
               PROVE  list[j] \in Elements(b) /\ KeyOf[list[j]] = k /\ list[j] \in Range(list)
    OBVIOUS
  <2>1. list[j] \in Range(list) /\ KeyOf[list[j]] = k
    BY DEF Matches, Range
  <2> QED BY <1>0, <2>1, MemberFact
<1>2. ASSUME k \in KeysOf(b)
      PROVE  \E j \in DOMAIN list : /\ same = {j} /\ Max(same) = j /\ Min(same) = j
                                    /\ list[j] \in Elements(b) /\ KeyOf[list[j]] = k
  <2>1. PICK x \in Elements(b) : KeyOf[x] = k
    BY <1>2 DEF KeysOf
  <2>2. x \in Range(list)
    <3>1. PICK j \in 0 .. n - 1 : x \in Range(b[j])
      BY <1>0, MemberFact
    <3>2. BucketOf(b, KeyOf[x]) = j
      BY <1>0, <3>1, PlacedFact
    <3> QED BY <2>1, <3>1, <3>2
  <2>3. PICK j \in DOMAIN list : x = list[j]
    BY <2>2 DEF Range
  <2>4. same = {j}
    BY <1>0, <2>1, <2>3 DEF Matches, Unique
  <2>5. j \in Nat
    BY <1>0, <2>3
  <2> HIDE DEF same, list
  <2>6. Max(same) = j /\ Min(same) = j
    BY <2>4, <2>5 DEF Max, Min
  <2> QED BY <2>1, <2>3, <2>4, <2>6
<1>3. ASSUME k \notin KeysOf(b) PROVE same = {}
  BY <1>1, <1>3 DEF KeysOf
<1> QED BY <1>0, <1>2, <1>3

-----------------------------------------------------------------------------
(***************************************************************************)
(* What the operations do to the buckets.                                  *)
(***************************************************************************)

\* The lists after an entry e was put in front.
LEMMA ConsFact ==
  ASSUME NEW s \in Seq(Entries), NEW e \in Entries, Unique(s), \A x \in Range(s) : KeyOf[x] # KeyOf[e]
  PROVE  /\ <<e>> \o s \in Seq(Entries) /\ Unique(<<e>> \o s)
         /\ \A x : x \in Range(<<e>> \o s) <=> x = e \/ x \in Range(s)
<1> DEFINE a == <<e>> \o s
<1>1. <<e>> \in Seq(Entries) /\ Len(<<e>>) = 1 /\ <<e>>[1] = e /\ Len(s) \in Nat /\ DOMAIN s = 1 .. Len(s)
  OBVIOUS
<1>2. /\ a \in Seq(Entries) /\ Len(a) = 1 + Len(s)
      /\ \A j \in 1 .. 1 + Len(s) : a[j] = IF j <= 1 THEN <<e>>[j] ELSE s[j - 1]
  BY <1>1, ConcatProperties
<1> HIDE DEF a
<1>3. DOMAIN a = 1 .. 1 + Len(s)
  BY <1>1, <1>2
<1>4. a[1] = e /\ \A j \in DOMAIN a : j # 1 => j - 1 \in DOMAIN s /\ a[j] = s[j - 1]
  BY <1>1, <1>2, <1>3
<1>5. \A j \in DOMAIN s : j + 1 \in DOMAIN a /\ a[j + 1] = s[j]
  BY <1>1, <1>2, <1>3
<1>6. 1 \in DOMAIN a
  BY <1>1, <1>3
<1>7. ASSUME NEW x PROVE x \in Range(a) <=> x = e \/ x \in Range(s)
  <2>1. ASSUME x \in Range(a) PROVE x = e \/ x \in Range(s)
    BY <1>4, <2>1 DEF Range
  <2>2. ASSUME x \in Range(s) PROVE x \in Range(a)
    BY <1>5, <2>2 DEF Range
  <2>3. e \in Range(a)
    BY <1>4, <1>6 DEF Range
  <2> QED BY <2>1, <2>2, <2>3
<1>8. ASSUME NEW j \in DOMAIN a, NEW l \in DOMAIN a, KeyOf[a[j]] = KeyOf[a[l]] PROVE j = l
  <2>1. \A p \in DOMAIN a : p # 1 => KeyOf[a[p]] # KeyOf[e]
    BY <1>4 DEF Range
  <2>2. CASE j # 1 /\ l # 1
    <3>1. j - 1 = l - 1
      BY <1>4, <1>8, <2>2 DEF Unique
    <3> QED BY <1>1, <1>3, <3>1
  <2> QED BY <1>4, <1>8, <2>1, <2>2
<1>9. Unique(a)
  BY <1>8 DEF Unique
<1> QED BY <1>2, <1>7, <1>9 DEF a

\* JphtPutEntryHashtable: the entries, the number of keys and the entry returned.
LEMMA PutFact ==
  ASSUME NEW n \in Nat \ {0}, NEW b \in [0 .. n - 1 -> Seq(Entries)], WellFormed(b), NEW e \in Entries,
         NEW c \in Nat, IsFiniteSet(KeysOf(b)), c = Cardinality(KeysOf(b)), NEW none
  PROVE  LET a == PutInto([buckets |-> b, count |-> c, old |-> none], e)
         IN  /\ a.buckets \in [0 .. n - 1 -> Seq(Entries)] /\ WellFormed(a.buckets)
             /\ \A x : x \in Elements(a.buckets) <=> x = e \/ (x \in Elements(b) /\ KeyOf[x] # KeyOf[e])
             /\ IsFiniteSet(KeysOf(a.buckets)) /\ a.count = Cardinality(KeysOf(a.buckets)) /\ a.count \in Nat
             /\ KeyOf[e] \in KeysOf(b) => a.old \in Elements(b) /\ KeyOf[a.old] = KeyOf[e]
             /\ KeyOf[e] \notin KeysOf(b) => a.old = Null
<1> DEFINE k == KeyOf[e]
           i == BucketOf(b, k)
           list == b[i]
           same == Matches(list, k)
           new == <<e>> \o Without(list, k)
           d == [b EXCEPT ![i] = new]
           a == PutInto([buckets |-> b, count |-> c, old |-> none], e)
<1>0. k \in Keys /\ i \in 0 .. n - 1 /\ Placed(b) /\ n \in Nat
  BY BucketFact, HashAssumption DEF WellFormed
<1>1. /\ a.buckets = d
      /\ a.count = c - Cardinality(same) + 1
      /\ a.old = IF same = {} THEN Null ELSE list[Max(same)]
  BY DEF PutInto
<1>2. /\ list \in Seq(Entries) /\ Unique(list)
      /\ k \in KeysOf(b) => \E j \in DOMAIN list : /\ same = {j} /\ Max(same) = j /\ Min(same) = j
                                                   /\ list[j] \in Elements(b) /\ KeyOf[list[j]] = k
      /\ k \notin KeysOf(b) => same = {}
  BY <1>0, MatchesFact
<1>3. /\ Without(list, k) \in Seq(Entries) /\ Unique(Without(list, k))
      /\ \A x : x \in Range(Without(list, k)) <=> x \in Range(list) /\ KeyOf[x] # k
  BY <1>2, WithoutFact
<1>4. new \in Seq(Entries) /\ Unique(new) /\ \A x : x \in Range(new) <=> x = e \/ x \in Range(Without(list, k))
  BY <1>3, ConsFact
<1>p. \A l, y : l \in 0 .. n - 1 /\ y \in Range(b[l]) => y \in Entries /\ BucketOf(b, KeyOf[y]) = l
  BY <1>0, PlacedFact, Zenon
<1>5. \A x \in Range(new) : BucketOf(b, KeyOf[x]) = i
  BY <1>0, <1>3, <1>4, <1>p
<1>6. /\ d \in [0 .. n - 1 -> Seq(Entries)] /\ WellFormed(d)
      /\ \A x : x \in Elements(d) <=> (x \in Elements(b) /\ BucketOf(b, KeyOf[x]) # i) \/ x \in Range(new)
  <2>1. Replaces(d, b, i, new)
    BY DEF Replaces
  <2> HIDE DEF new, i, d
  <2> QED BY <1>0, <1>4, <1>5, <2>1, ReplaceFact, ZenonT(30)
<1> HIDE DEF new, d, list, same
<1>7. ASSUME NEW x
      PROVE  x \in Elements(d) <=> x = e \/ (x \in Elements(b) /\ KeyOf[x] # k)
  <2>1. x \in Elements(b) <=> \E l \in 0 .. n - 1 : x \in Range(b[l])
    BY <1>0, MemberFact
  <2>2. x \in Range(list) => x \in Elements(b)
    BY <1>0, <2>1 DEF list
  <2>3. x \in Elements(b) /\ BucketOf(b, KeyOf[x]) = i => x \in Range(list)
    BY <1>p, <2>1 DEF list
  <2>4. x \in Elements(b) /\ BucketOf(b, KeyOf[x]) # i => KeyOf[x] # k
    OBVIOUS
  <2>5. x \in Elements(d) <=> (x \in Elements(b) /\ BucketOf(b, KeyOf[x]) # i) \/ x \in Range(new)
    BY <1>6
  <2>6. x \in Range(new) <=> x = e \/ (x \in Range(list) /\ KeyOf[x] # k)
    BY <1>3, <1>4, Zenon
  <2> HIDE DEF i, k
  <2> QED BY <2>2, <2>3, <2>4, <2>5, <2>6
<1>8. KeysOf(d) = KeysOf(b) \cup {k}
  <2>1. ASSUME NEW q PROVE q \in KeysOf(d) <=> q \in KeysOf(b) \/ q = k
    <3>1. q \in KeysOf(d) => q \in KeysOf(b) \/ q = k
      BY <1>7 DEF KeysOf
    <3>0. e \in Elements(d)
      BY <1>7, Zenon
    <3>2. k \in KeysOf(d)
      BY <3>0 DEF KeysOf
    <3>3. ASSUME q \in KeysOf(b), q # k PROVE q \in KeysOf(d)
      BY <1>7, <3>3 DEF KeysOf
    <3> QED BY <3>1, <3>2, <3>3
  <2> QED BY <2>1
<1>9. IsFiniteSet(KeysOf(d)) /\ Cardinality(KeysOf(d)) = IF k \in KeysOf(b) THEN c ELSE c + 1
  <2> HIDE DEF k
  <2> QED BY <1>8, FS_AddElement, SMTT(30)
<1>10. CASE k \in KeysOf(b)
  <2>1. PICK j \in DOMAIN list : same = {j} /\ Max(same) = j /\ list[j] \in Elements(b) /\ KeyOf[list[j]] = k
    BY <1>2, <1>10
  <2>2. Cardinality(same) = 1
    BY <2>1, FS_Singleton
  <2>3. a.old = list[j] /\ a.count = c
    BY <1>1, <2>1, <2>2
  <2> QED BY <1>1, <1>6, <1>7, <1>9, <1>10, <2>1, <2>3
<1>11. CASE k \notin KeysOf(b)
  <2>1. same = {} /\ Cardinality(same) = 0
    BY <1>2, <1>11, FS_EmptySet
  <2>2. a.old = Null /\ a.count = c + 1
    BY <1>1, <2>1
  <2> QED BY <1>1, <1>6, <1>7, <1>9, <1>11, <2>2
<1> QED BY <1>10, <1>11

\* The entries of a list without its j-th entry.
LEMMA UnlinkKeys ==
  ASSUME NEW list \in Seq(Entries), NEW j \in DOMAIN list, Unique(list)
  PROVE  /\ Unlink(list, j) \in Seq(Entries) /\ Unique(Unlink(list, j))
         /\ \A x : x \in Range(Unlink(list, j)) <=> x \in Range(list) /\ x # list[j]
<1> DEFINE u == Unlink(list, j)
<1>1. /\ u \in Seq(Entries) /\ Len(u) = Len(list) - 1
      /\ \A l \in 1 .. Len(list) - 1 : u[l] = IF l < j THEN list[l] ELSE list[l + 1]
  BY UnlinkFact
<1> HIDE DEF u
<1>2. Len(list) \in Nat /\ DOMAIN list = 1 .. Len(list) /\ j \in 1 .. Len(list)
  OBVIOUS
<1>3. DOMAIN u = 1 .. Len(list) - 1
  BY <1>1
<1> DEFINE at(l) == IF l < j THEN l ELSE l + 1
<1>4. \A l \in DOMAIN u : at(l) \in DOMAIN list /\ at(l) # j /\ u[l] = list[at(l)]
  BY <1>1, <1>2, <1>3
<1>5. \A l, m \in DOMAIN u : at(l) = at(m) => l = m
  BY <1>2, <1>3
<1>6. \A l \in DOMAIN list : l # j => \E m \in DOMAIN u : at(m) = l
  <2> SUFFICES ASSUME NEW l \in DOMAIN list, l # j PROVE \E m \in DOMAIN u : at(m) = l
    OBVIOUS
  <2>1. CASE l < j
    BY <1>2, <1>3, <2>1
  <2>2. CASE l > j
    <3>1. l - 1 \in DOMAIN u /\ at(l - 1) = l
      BY <1>2, <1>3, <2>2
    <3> QED BY <3>1
  <2> QED BY <1>2, <2>1, <2>2
<1> HIDE DEF at
<1>7. Unique(u)
  BY <1>4, <1>5 DEF Unique
<1>8. \A l \in DOMAIN list : l # j => list[l] # list[j]
  BY DEF Unique
<1>9. ASSUME NEW x PROVE x \in Range(u) <=> x \in Range(list) /\ x # list[j]
  <2>1. ASSUME x \in Range(u) PROVE x \in Range(list) /\ x # list[j]
    BY <1>4, <1>8, <2>1 DEF Range
  <2>2. ASSUME x \in Range(list), x # list[j] PROVE x \in Range(u)
    BY <1>4, <1>6, <2>2 DEF Range
  <2> QED BY <2>1, <2>2
<1> QED BY <1>1, <1>7, <1>9 DEF u

\* c is b without its entry e.
Drops(c, b, e, n) ==
    /\ c \in [0 .. n - 1 -> Seq(Entries)] /\ WellFormed(c)
    /\ e \in Elements(b) /\ e \in Entries
    /\ \A x : x \in Elements(c) <=> x \in Elements(b) /\ x # e
    /\ KeysOf(c) = KeysOf(b) \ {KeyOf[e]} /\ KeyOf[e] \in KeysOf(b)
    /\ IsFiniteSet(KeysOf(c)) /\ Cardinality(KeysOf(c)) = Cardinality(KeysOf(b)) - 1

\* Taking an entry out of one of the lists.
LEMMA DropFact ==
  ASSUME NEW n \in Nat, NEW b \in [0 .. n - 1 -> Seq(Entries)], WellFormed(b), IsFiniteSet(KeysOf(b)),
         NEW i \in 0 .. n - 1, NEW j \in DOMAIN b[i],
         NEW c, Replaces(c, b, i, Unlink(b[i], j))
  PROVE  Drops(c, b, b[i][j], n)
<1> DEFINE e == b[i][j]
           list == b[i]
           u == Unlink(list, j)
<1>0. /\ DOMAIN b = 0 .. n - 1 /\ Placed(b) /\ list \in Seq(Entries) /\ Unique(list)
      /\ e \in Range(list) /\ Replaces(c, b, i, u) /\ j \in DOMAIN list /\ e = list[j]
  BY DEF WellFormed, Range
<1>1. u \in Seq(Entries) /\ Unique(u) /\ \A x : x \in Range(u) <=> x \in Range(list) /\ x # e
  BY <1>0, UnlinkKeys
<1>p. \A l, y : l \in 0 .. n - 1 /\ y \in Range(b[l]) => y \in Entries /\ BucketOf(b, KeyOf[y]) = l
  BY <1>0, PlacedFact, Zenon
<1>m. \A x : x \in Elements(b) <=> \E l \in 0 .. n - 1 : x \in Range(b[l])
  BY MemberFact
<1> HIDE DEF u, e
<1>2. \A x \in Range(u) : BucketOf(b, KeyOf[x]) = i
  BY <1>1, <1>p
<1>3. /\ c \in [0 .. n - 1 -> Seq(Entries)] /\ WellFormed(c)
      /\ \A x : x \in Elements(c) <=> (x \in Elements(b) /\ BucketOf(b, KeyOf[x]) # i) \/ x \in Range(u)
  BY <1>0, <1>1, <1>2, ReplaceFact
<1>4. e \in Elements(b) /\ e \in Entries /\ BucketOf(b, KeyOf[e]) = i
  BY <1>0, <1>p, <1>m
<1>5. ASSUME NEW x PROVE x \in Elements(c) <=> x \in Elements(b) /\ x # e
  <2>1. x \in Range(list) => x \in Elements(b)
    BY <1>m
  <2>2. x \in Elements(b) /\ BucketOf(b, KeyOf[x]) = i => x \in Range(list)
    BY <1>m, <1>p
  <2> QED BY <1>1, <1>3, <1>4, <2>1, <2>2
<1>6. \A x \in Elements(b) : KeyOf[x] = KeyOf[e] => x = e
  BY <1>4, OneEntry
<1>7. KeysOf(c) = KeysOf(b) \ {KeyOf[e]} /\ KeyOf[e] \in KeysOf(b)
  BY <1>4, <1>5, <1>6 DEF KeysOf
<1>8. IsFiniteSet(KeysOf(c)) /\ Cardinality(KeysOf(c)) = Cardinality(KeysOf(b)) - 1
  BY <1>7, FS_RemoveElement
<1>9. Drops(c, b, e, n)
  BY <1>3, <1>4, <1>5, <1>7, <1>8 DEF Drops
<1> QED BY <1>9 DEF e

\* The tail is the list without its first entry.
LEMMA TailFact ==
  ASSUME NEW list \in Seq(Entries), list # <<>>
  PROVE  Tail(list) = Unlink(list, 1) /\ Head(list) = list[1] /\ 1 \in DOMAIN list
<1>1. Len(list) \in Nat /\ Len(list) # 0 /\ DOMAIN list = 1 .. Len(list)
  OBVIOUS
<1>2. 1 \in DOMAIN list
  BY <1>1
<1> DEFINE u == Unlink(list, 1)
           t == Tail(list)
<1>3. u \in Seq(Entries) /\ Len(u) = Len(list) - 1 /\ \A j \in 1 .. Len(list) - 1 : u[j] = list[j + 1]
  <2>1. \A j \in 1 .. Len(list) - 1 : ~ (j < 1)
    BY <1>1
  <2> QED BY <1>2, <2>1, UnlinkFact
<1>4. t \in Seq(Entries) /\ Len(t) = Len(list) - 1 /\ \A j \in 1 .. Len(list) - 1 : t[j] = list[j + 1]
  BY <1>1
<1> HIDE DEF u, t
<1>5. t = u
  BY <1>3, <1>4, SeqEqual
<1> QED BY <1>2, <1>5 DEF u, t

-----------------------------------------------------------------------------
(***************************************************************************)
(* The steps: each keeps the invariant and is a step of the dictionary.    *)
(***************************************************************************)

DictStep == D!DictNext \/ UNCHANGED D!dictVars

\* New buckets are empty.
LEMMA EmptyFact ==
  ASSUME NEW n \in Nat
  PROVE  /\ EmptyBuckets(n) \in [0 .. n - 1 -> Seq(Entries)] /\ WellFormed(EmptyBuckets(n))
         /\ Elements(EmptyBuckets(n)) = {} /\ KeysOf(EmptyBuckets(n)) = {}
         /\ IsFiniteSet(KeysOf(EmptyBuckets(n))) /\ Cardinality(KeysOf(EmptyBuckets(n))) = 0
<1> DEFINE b == EmptyBuckets(n)
<1>1. b \in [0 .. n - 1 -> Seq(Entries)] /\ DOMAIN b = 0 .. n - 1 /\ \A i \in 0 .. n - 1 : b[i] = <<>>
  BY DEF EmptyBuckets
<1> HIDE DEF b
<1>2. WellFormed(b)
  BY <1>1 DEF WellFormed, Placed, Unique
<1>3. \A x : x \in Elements(b) <=> \E i \in 0 .. n - 1 : x \in Range(b[i])
  BY <1>1, MemberFact
<1>4. Elements(b) = {}
  BY <1>1, <1>3 DEF Range
<1>5. KeysOf(b) = {}
  BY <1>4 DEF KeysOf
<1> QED BY <1>1, <1>2, <1>4, <1>5, FS_EmptySet DEF b

\* The buckets there are, and their number.
LEMMA TypeFacts ==
  ASSUME TableTypeOK
  PROVE  /\ \E n \in Sizes : n \in Nat \ {0} /\ buckets \in [0 .. n - 1 -> Seq(Entries)]
         /\ \E n \in Sizes \cup {0} : n \in Nat /\ old \in [0 .. n - 1 -> Seq(Entries)]
BY HashAssumption DEF TableTypeOK

\* Without a resize, the entries are those of the buckets.
LEMMA IdleFacts ==
  ASSUME old = NoBuckets
  PROVE  Contents = Elements(buckets) /\ Elements(old) = {} /\ KeysOf(old) = {}
BY EmptyFact DEF Contents, NoBuckets

\* The entry with a key, and that there is none.
LEMMA OnlyFact ==
  ASSUME NEW k
  PROVE  /\ \A y \in Contents : KeyOf[y] = k /\ (\A x \in Contents : KeyOf[x] = k => x = y)
                                  => D!WithKey(k) = {y} /\ D!Only(D!WithKey(k)) = y
         /\ (\A x \in Contents : KeyOf[x] # k) => D!WithKey(k) = {} /\ D!Only(D!WithKey(k)) = Null
<1>1. ASSUME NEW y \in Contents, KeyOf[y] = k, \A x \in Contents : KeyOf[x] = k => x = y
      PROVE  D!WithKey(k) = {y} /\ D!Only(D!WithKey(k)) = y
  <2>1. D!WithKey(k) = {y}
    BY <1>1 DEF D!WithKey
  <2>2. D!Only({y}) = y
    BY DEF D!Only
  <2> QED BY <2>1, <2>2
<1>2. ASSUME \A x \in Contents : KeyOf[x] # k
      PROVE  D!WithKey(k) = {} /\ D!Only(D!WithKey(k)) = Null
  BY <1>2 DEF D!WithKey, D!Only
<1> QED BY <1>1, <1>2

\* The dictionary's entry with a key is the one MatchesFact finds.
LEMMA FoundFact ==
  ASSUME TableInv, old = NoBuckets, NEW k \in Keys
  PROVE  /\ \A y \in Elements(buckets) : KeyOf[y] = k => D!WithKey(k) = {y} /\ D!Only(D!WithKey(k)) = y
         /\ k \notin KeysOf(buckets) => D!WithKey(k) = {} /\ D!Only(D!WithKey(k)) = Null
<1>1. PICK n \in Sizes : n \in Nat \ {0} /\ buckets \in [0 .. n - 1 -> Seq(Entries)]
  BY TypeFacts DEF TableInv
<1>2. WellFormed(buckets) /\ Contents = Elements(buckets)
  BY IdleFacts DEF TableInv, FormInv
<1>3. \A x, y \in Contents : KeyOf[x] = KeyOf[y] => x = y
  BY <1>1, <1>2, OneEntry
<1>4. k \notin KeysOf(buckets) => \A x \in Contents : KeyOf[x] # k
  BY <1>2 DEF KeysOf
<1> QED BY <1>2, <1>3, <1>4, OnlyFact

\* The initial table is empty.
LEMMA InitStep ==
  TableInit => TableInv /\ D!DictInit
<1> SUFFICES ASSUME TableInit PROVE TableInv /\ D!DictInit
  OBVIOUS
<1>1. PICK n \in Sizes : buckets = EmptyBuckets(n)
  BY DEF TableInit
<1>2. n \in Nat /\ old = EmptyBuckets(0) /\ count = 0 /\ result = Null /\ enum = NoEnum /\ 0 \in Nat
  BY HashAssumption DEF TableInit, NoBuckets
<1>3. TableTypeOK
  BY <1>1, <1>2, EmptyFact DEF TableTypeOK, NoEnum
<1>4. FormInv /\ CountInv
  BY <1>1, <1>2, EmptyFact DEF FormInv, CountInv
<1>5. EnumInv /\ ~ enum.active /\ enum.active = FALSE
  BY <1>2 DEF EnumInv, NoEnum
<1>6. Contents = {} /\ Remaining = {}
  BY <1>1, <1>2, <1>5, EmptyFact DEF Contents, Remaining
<1> QED BY <1>2, <1>3, <1>4, <1>5, <1>6 DEF TableInv, D!DictInit

\* JphtPutEntryHashtable.
LEMMA PutStep ==
  ASSUME TableInv, NEW e \in Entries, PutEntry(e)
  PROVE  TableInv' /\ DictStep
<1> DEFINE after == PutInto(Table, e)
           k == KeyOf[e]
<1>0. /\ ~ enum.active /\ old = NoBuckets /\ UNCHANGED <<enum, old>>
      /\ buckets' = after.buckets /\ count' = after.count /\ result' = after.old
      /\ k \in Keys
  BY HashAssumption DEF PutEntry, Idle
<1>1. PICK n \in Sizes : n \in Nat \ {0} /\ buckets \in [0 .. n - 1 -> Seq(Entries)]
  BY TypeFacts DEF TableInv
<1>2. /\ WellFormed(buckets) /\ WellFormed(old) /\ count \in Nat /\ TableTypeOK
      /\ IsFiniteSet(KeysOf(buckets)) /\ count = Cardinality(KeysOf(buckets)) /\ IsFiniteSet(KeysOf(old))
  BY DEF TableInv, FormInv, CountInv, TableTypeOK
<1>3. /\ buckets' \in [0 .. n - 1 -> Seq(Entries)] /\ WellFormed(buckets')
      /\ \A x : x \in Elements(buckets') <=> x = e \/ (x \in Elements(buckets) /\ KeyOf[x] # k)
      /\ IsFiniteSet(KeysOf(buckets')) /\ count' = Cardinality(KeysOf(buckets')) /\ count' \in Nat
      /\ k \in KeysOf(buckets) => result' \in Elements(buckets) /\ KeyOf[result'] = k
      /\ k \notin KeysOf(buckets) => result' = Null
  BY <1>0, <1>1, <1>2, PutFact DEF Table
<1> HIDE DEF after
<1>4. \A x : x \in Elements(buckets) => x \in Entries
  BY <1>1, <1>2, MemberFact, PlacedFact DEF WellFormed
<1>5. TableTypeOK'
  BY <1>0, <1>1, <1>2, <1>3, <1>4 DEF TableTypeOK
<1>6. FormInv' /\ CountInv' /\ EnumInv'
  BY <1>0, <1>2, <1>3, IdleFacts DEF FormInv, CountInv, EnumInv
<1>7. Contents = Elements(buckets) /\ Contents' = Elements(buckets')
  BY <1>0, IdleFacts, EmptyFact DEF Contents, NoBuckets
<1>8. result' = D!Only(D!WithKey(k)) /\ Contents' = (Contents \ D!WithKey(k)) \cup {e}
  <2>1. \A x : x \in D!WithKey(k) <=> x \in Contents /\ KeyOf[x] = k
    BY DEF D!WithKey
  <2>2. Contents' = (Contents \ D!WithKey(k)) \cup {e}
    BY <1>3, <1>7, <2>1
  <2>3. result' = D!Only(D!WithKey(k))
    BY <1>0, <1>3, FoundFact
  <2> QED BY <2>2, <2>3
<1>9. Remaining = {} /\ Remaining' = {}
  BY <1>0 DEF Remaining
<1>10. D!DictPut(e)
  BY <1>0, <1>8, <1>9 DEF D!DictPut
<1> QED BY <1>5, <1>6, <1>10 DEF TableInv, DictStep, D!DictNext

\* JphtGetEntryHashtable.
LEMMA GetStep ==
  ASSUME TableInv, NEW k \in Keys, GetEntry(k)
  PROVE  TableInv' /\ DictStep
<1>0. ~ enum.active /\ old = NoBuckets /\ UNCHANGED <<buckets, count, enum, old>> /\ result' = Find(k)
  BY DEF GetEntry, Idle
<1>1. PICK n \in Sizes : n \in Nat \ {0} /\ buckets \in [0 .. n - 1 -> Seq(Entries)]
  BY TypeFacts DEF TableInv
<1>2. WellFormed(buckets) /\ TableTypeOK
  BY DEF TableInv, FormInv
<1> DEFINE list == buckets[BucketOf(buckets, k)]
           same == Matches(list, k)
<1>3. /\ list \in Seq(Entries)
      /\ k \in KeysOf(buckets) => \E j \in DOMAIN list : /\ same = {j} /\ Max(same) = j /\ Min(same) = j
                                                         /\ list[j] \in Elements(buckets) /\ KeyOf[list[j]] = k
      /\ k \notin KeysOf(buckets) => same = {}
  BY <1>1, <1>2, MatchesFact
<1>4. result' = IF same = {} THEN Null ELSE list[Min(same)]
  BY <1>0 DEF Find
<1> HIDE DEF list, same
<1>5. result' = D!Only(D!WithKey(k)) /\ result' \in Entries \cup {Null}
  <2>1. CASE k \in KeysOf(buckets)
    <3>1. PICK j \in DOMAIN list : same = {j} /\ Min(same) = j /\ list[j] \in Elements(buckets) /\ KeyOf[list[j]] = k
      BY <1>3, <2>1
    <3>2. result' = list[j] /\ list[j] \in Entries
      BY <1>3, <1>4, <3>1
    <3> QED BY <1>0, <3>1, <3>2, FoundFact
  <2>2. CASE k \notin KeysOf(buckets)
    BY <1>0, <1>3, <1>4, <2>2, FoundFact
  <2> QED BY <2>1, <2>2
<1>6. TableInv'
  <2>1. TableTypeOK'
    BY <1>0, <1>2, <1>5 DEF TableTypeOK
  <2>2. FormInv' /\ CountInv' /\ EnumInv'
    BY <1>0 DEF TableInv, FormInv, CountInv, EnumInv
  <2> QED BY <2>1, <2>2 DEF TableInv
<1>7. Contents' = Contents /\ Remaining' = Remaining
  BY <1>0 DEF Contents, Remaining, Elements
<1>8. D!DictGet(k)
  BY <1>0, <1>5, <1>7 DEF D!DictGet
<1> QED BY <1>6, <1>8 DEF DictStep, D!DictNext

\* What JphtRemoveEntryHashtable does to the buckets, also from a callback.
LEMMA RemoveKeyFact ==
  ASSUME TableInv, NEW k \in Keys, RemoveKey(k)
  PROVE  LET i == BucketOf(buckets, k)
         IN  /\ \E n \in Sizes : buckets' \in [0 .. n - 1 -> Seq(Entries)]
             /\ WellFormed(buckets') /\ KeysOf(buckets') \subseteq KeysOf(buckets)
             /\ IsFiniteSet(KeysOf(buckets')) /\ count' = Cardinality(KeysOf(buckets')) /\ count' \in Nat
             /\ \/ /\ k \notin KeysOf(buckets) /\ result' = Null /\ buckets' = buckets /\ count' = count
                \/ \E j \in DOMAIN buckets[i] :
                      /\ result' = buckets[i][j] /\ KeyOf[buckets[i][j]] = k
                      /\ buckets[i][j] \in Elements(buckets) /\ buckets[i][j] \in Entries
                      /\ buckets' = [buckets EXCEPT ![i] = Unlink(buckets[i], j)]
                      /\ \A x : x \in Elements(buckets') <=> x \in Elements(buckets) /\ x # buckets[i][j]
<1> DEFINE i == BucketOf(buckets, k)
           list == buckets[i]
           same == Matches(list, k)
<1>1. PICK n \in Sizes : n \in Nat \ {0} /\ buckets \in [0 .. n - 1 -> Seq(Entries)]
  BY TypeFacts DEF TableInv
<1>2. /\ WellFormed(buckets) /\ IsFiniteSet(KeysOf(buckets)) /\ count = Cardinality(KeysOf(buckets))
      /\ count \in Nat
  BY DEF TableInv, FormInv, CountInv, TableTypeOK
<1>3. /\ k \in KeysOf(buckets) => \E j \in DOMAIN list : /\ same = {j} /\ Max(same) = j /\ Min(same) = j
                                                         /\ list[j] \in Elements(buckets) /\ KeyOf[list[j]] = k
      /\ k \notin KeysOf(buckets) => same = {}
  BY <1>1, <1>2, MatchesFact
<1>4. i \in 0 .. n - 1 /\ n \in Nat
  BY <1>1, BucketFact
<1>5. CASE k \in KeysOf(buckets)
  <2>1. PICK j \in DOMAIN list : same = {j} /\ Min(same) = j /\ KeyOf[list[j]] = k
    BY <1>3, <1>5
  <2>2. /\ result' = list[j] /\ buckets' = [buckets EXCEPT ![i] = Unlink(buckets[i], j)]
        /\ count' = count - 1
    <3>1. same # {}
      BY <2>1
    <3>2. result' = list[Min(same)] /\ buckets' = [buckets EXCEPT ![i] = Unlink(@, Min(same))] /\ count' = count - 1
      BY <3>1 DEF RemoveKey
    <3> QED BY <2>1, <3>2
  <2>a. Replaces(buckets', buckets, i, Unlink(buckets[i], j)) /\ j \in DOMAIN buckets[i]
    BY <2>1, <2>2 DEF Replaces
  <2> HIDE DEF i
  <2>b. Drops(buckets', buckets, buckets[i][j], n)
    BY <1>1, <1>2, <1>4, <2>a, DropFact
  <2>3. /\ buckets' \in [0 .. n - 1 -> Seq(Entries)] /\ WellFormed(buckets')
        /\ list[j] \in Elements(buckets) /\ list[j] \in Entries
        /\ \A x : x \in Elements(buckets') <=> x \in Elements(buckets) /\ x # list[j]
        /\ KeysOf(buckets') = KeysOf(buckets) \ {KeyOf[list[j]]}
        /\ IsFiniteSet(KeysOf(buckets')) /\ Cardinality(KeysOf(buckets')) = Cardinality(KeysOf(buckets)) - 1
    BY <2>b DEF Drops
  <2>4. count' \in Nat
    BY <1>2, <2>2, <2>3, FS_CardinalityType
  <2> QED BY <1>2, <2>1, <2>2, <2>3, <2>4 DEF i
<1>6. CASE k \notin KeysOf(buckets)
  <2>1. result' = Null /\ UNCHANGED <<buckets, count>>
    BY <1>3, <1>6 DEF RemoveKey
  <2> QED BY <1>1, <1>2, <1>6, <2>1
<1> QED BY <1>5, <1>6

\* JphtRemoveEntryHashtable.
LEMMA RemoveStep ==
  ASSUME TableInv, NEW k \in Keys, RemoveEntry(k)
  PROVE  TableInv' /\ DictStep
<1>0. ~ enum.active /\ old = NoBuckets /\ UNCHANGED <<enum, old>> /\ RemoveKey(k)
  BY DEF RemoveEntry, Idle
<1> DEFINE i == BucketOf(buckets, k)
           list == buckets[i]
<1>1. /\ \E n \in Sizes : buckets' \in [0 .. n - 1 -> Seq(Entries)]
      /\ WellFormed(buckets') /\ KeysOf(buckets') \subseteq KeysOf(buckets)
      /\ IsFiniteSet(KeysOf(buckets')) /\ count' = Cardinality(KeysOf(buckets')) /\ count' \in Nat
      /\ \/ /\ k \notin KeysOf(buckets) /\ result' = Null /\ buckets' = buckets /\ count' = count
         \/ \E j \in DOMAIN list :
               /\ result' = list[j] /\ KeyOf[list[j]] = k
               /\ list[j] \in Elements(buckets) /\ list[j] \in Entries
               /\ \A x : x \in Elements(buckets') <=> x \in Elements(buckets) /\ x # list[j]
  BY <1>0, RemoveKeyFact
<1> HIDE DEF list
<1>2. TableTypeOK'
  BY <1>0, <1>1 DEF TableInv, TableTypeOK
<1>3. FormInv' /\ CountInv' /\ EnumInv'
  BY <1>0, <1>1 DEF TableInv, FormInv, CountInv, EnumInv
<1>4. Contents = Elements(buckets) /\ Contents' = Elements(buckets')
  BY <1>0, IdleFacts, EmptyFact DEF Contents, NoBuckets
<1>5. result' = D!Only(D!WithKey(k)) /\ Contents' = Contents \ D!WithKey(k)
  <2>1. CASE k \notin KeysOf(buckets) /\ result' = Null /\ buckets' = buckets
    BY <1>0, <1>4, <2>1, FoundFact
  <2>2. ASSUME NEW j \in DOMAIN list, result' = list[j], KeyOf[list[j]] = k, list[j] \in Elements(buckets),
               \A x : x \in Elements(buckets') <=> x \in Elements(buckets) /\ x # list[j]
        PROVE  result' = D!Only(D!WithKey(k)) /\ Contents' = Contents \ D!WithKey(k)
    <3>1. D!WithKey(k) = {list[j]} /\ D!Only(D!WithKey(k)) = list[j]
      BY <1>0, <2>2, FoundFact
    <3> QED BY <1>4, <2>2, <3>1
  <2> QED BY <1>1, <2>1, <2>2
<1>6. Remaining = {} /\ Remaining' = {}
  BY <1>0 DEF Remaining
<1>7. D!DictRemove(k)
  BY <1>0, <1>5, <1>6 DEF D!DictRemove
<1> QED BY <1>2, <1>3, <1>7 DEF TableInv, DictStep, D!DictNext

-----------------------------------------------------------------------------
(***************************************************************************)
(* Enumeration.                                                            *)
(***************************************************************************)

\* What an enumeration at the entry next of the i-th list has still to visit.
Rest(b, i, next) ==
    (UNION {Range(b[l]) : l \in {m \in DOMAIN b : m > i}})
    \cup (IF next = Null THEN {}
          ELSE {b[i][j] : j \in {n \in DOMAIN b[i] : \E m \in DOMAIN b[i] : b[i][m] = next /\ m <= n}})

\* The entries of later lists.
Later(b, n, i, x) == \E l \in 0 .. n - 1 : l > i /\ x \in Range(b[l])

\* Remaining, and Remaining after a step.
LEMMA RemainingFact ==
  /\ enum.active => Remaining = Rest(buckets, enum.bucket, enum.next)
  /\ (enum.active => Remaining = Rest(buckets, enum.bucket, enum.next))'
  /\ ~ enum.active => Remaining = {}
  /\ (~ enum.active => Remaining = {})'
BY DEF Remaining, Rest

\* At the end of a list.
LEMMA RestEnd ==
  ASSUME NEW n \in Nat, NEW b \in [0 .. n - 1 -> Seq(Entries)], NEW i
  PROVE  \A x : x \in Rest(b, i, Null) <=> Later(b, n, i, x)
<1>1. DOMAIN b = 0 .. n - 1
  OBVIOUS
<1> QED BY <1>1 DEF Rest, Later

\* The rest of an enumeration at the p-th entry of the i-th list.
RestsAt(b, n, i, p, next) ==
    /\ next \in Entries /\ next # Null
    /\ \A x : x \in Rest(b, i, next) <=> Later(b, n, i, x) \/ \E q \in DOMAIN b[i] : p <= q /\ x = b[i][q]

\* At the p-th entry of a list.
LEMMA RestAt ==
  ASSUME NEW n \in Nat, NEW b \in [0 .. n - 1 -> Seq(Entries)], NEW i \in 0 .. n - 1, Unique(b[i]),
         NEW p \in DOMAIN b[i]
  PROVE  RestsAt(b, n, i, p, b[i][p])
<1> DEFINE list == b[i]
           next == list[p]
<1>1. DOMAIN b = 0 .. n - 1 /\ list \in Seq(Entries) /\ p \in DOMAIN list
  OBVIOUS
<1>2. next \in Entries /\ next # Null
  BY <1>1, HashAssumption
<1>3. \A m \in DOMAIN list : list[m] = next <=> m = p
  BY <1>1 DEF Unique
<1> HIDE DEF list, next
<1>4. \A q \in DOMAIN list : (\E m \in DOMAIN list : list[m] = next /\ m <= q) <=> p <= q
  BY <1>1, <1>3
<1> DEFINE A == UNION {Range(b[l]) : l \in {m \in DOMAIN b : m > i}}
           B == {list[j] : j \in {q \in DOMAIN list : \E m \in DOMAIN list : list[m] = next /\ m <= q}}
<1>5. Rest(b, i, next) = A \cup B
  BY <1>2 DEF Rest, list
<1>6. ASSUME NEW x
      PROVE  x \in Rest(b, i, next) <=> Later(b, n, i, x) \/ \E q \in DOMAIN list : p <= q /\ x = list[q]
  <2>1. x \in A <=> Later(b, n, i, x)
    BY <1>1 DEF Later
  <2>2. x \in B <=> \E q \in DOMAIN list : p <= q /\ x = list[q]
    BY <1>4
  <2> HIDE DEF A, B
  <2> QED BY <1>5, <2>1, <2>2
<1>7. RestsAt(b, n, i, p, next)
  BY <1>2, <1>6 DEF RestsAt, list
<1> QED BY <1>7 DEF next, list

\* At the head of a list, or at the end of an empty one.
LEMMA RestHead ==
  ASSUME NEW n \in Nat, NEW b \in [0 .. n - 1 -> Seq(Entries)], NEW i \in 0 .. n - 1, Unique(b[i]),
         NEW next, next = IF b[i] = <<>> THEN Null ELSE Head(b[i])
  PROVE  /\ next \in Entries \cup {Null}
         /\ next # Null => next \in Range(b[i])
         /\ \A x : x \in Rest(b, i, next) <=> Later(b, n, i, x) \/ x \in Range(b[i])
<1>1. CASE b[i] = <<>>
  <2>1. next = Null /\ Range(b[i]) = {}
    BY <1>1 DEF Range
  <2> QED BY <2>1, RestEnd
<1>2. CASE b[i] # <<>>
  <2>1. b[i] \in Seq(Entries)
    OBVIOUS
  <2>2. next = b[i][1] /\ 1 \in DOMAIN b[i] /\ \A q \in DOMAIN b[i] : 1 <= q
    BY <1>2, <2>1, TailFact
  <2>3. RestsAt(b, n, i, 1, next)
    BY <2>2, RestAt
  <2> QED BY <2>2, <2>3 DEF RestsAt, Range
<1> QED BY <1>1, <1>2

\* JphtEnumerateEntries starts with every entry to visit.
LEMMA EnumerateStep ==
  ASSUME TableInv, EnumerateEntries
  PROVE  TableInv' /\ DictStep
<1> DEFINE next == IF buckets[0] = <<>> THEN Null ELSE Head(buckets[0])
<1>0. /\ ~ enum.active /\ old = NoBuckets /\ UNCHANGED <<buckets, count, result, old>>
      /\ enum' = [active |-> TRUE, bucket |-> 0, next |-> next]
  BY DEF EnumerateEntries, Idle
<1>1. PICK n \in Sizes : n \in Nat \ {0} /\ buckets \in [0 .. n - 1 -> Seq(Entries)]
  BY TypeFacts DEF TableInv
<1>2. n \in Nat /\ 0 \in 0 .. n - 1 /\ DOMAIN buckets = 0 .. n - 1 /\ Unique(buckets[0])
  BY <1>1 DEF TableInv, FormInv, WellFormed
<1> DEFINE nx == next
<1>n. nx = next
  OBVIOUS
<1> HIDE DEF nx
<1>3. /\ nx \in Entries \cup {Null}
      /\ nx # Null => nx \in Range(buckets[0])
      /\ \A x : x \in Rest(buckets, 0, nx) <=> Later(buckets, n, 0, x) \/ x \in Range(buckets[0])
  BY <1>1, <1>2, <1>n, RestHead
<1>4. enum'.active = TRUE /\ enum'.bucket = 0 /\ enum'.next = nx /\ enum' = [active |-> TRUE, bucket |-> 0, next |-> nx]
  BY <1>0, <1>n
<1> HIDE DEF next
<1>5. TableTypeOK'
  BY <1>0, <1>3, <1>4 DEF TableInv, TableTypeOK
<1>6. FormInv' /\ CountInv'
  BY <1>0 DEF TableInv, FormInv, CountInv
<1>7. EnumInv'
  BY <1>0, <1>2, <1>3, <1>4 DEF EnumInv
<1>8. Remaining' = Rest(buckets, 0, nx)
  BY <1>0, <1>4, RemainingFact
<1>9. Contents = Elements(buckets) /\ Contents' = Contents
  BY <1>0, IdleFacts DEF Contents
<1>10. Remaining' = Contents
  <2>1. \A x : x \in Elements(buckets) <=> \E l \in 0 .. n - 1 : x \in Range(buckets[l])
    BY <1>1, <1>2, MemberFact
  <2>2. \A l \in 0 .. n - 1 : l = 0 \/ l > 0
    BY <1>2
  <2> QED BY <1>2, <1>3, <1>8, <1>9, <2>1, <2>2 DEF Later
<1>11. D!DictStart
  BY <1>0, <1>4, <1>9, <1>10 DEF D!DictStart
<1> QED BY <1>5, <1>6, <1>7, <1>11 DEF TableInv, DictStep, D!DictNext

\* The end of a list: nothing was visited, or nothing is left to visit.
LEMMA NextBucketStep ==
  ASSUME TableInv, NextBucket
  PROVE  TableInv' /\ DictStep
<1> DEFINE i == enum.bucket + 1
           next == IF buckets[i] = <<>> THEN Null ELSE Head(buckets[i])
<1>0. /\ enum.active /\ enum.next = Null /\ UNCHANGED <<buckets, count, result, old>>
      /\ enum' = IF i = BucketCount THEN NoEnum ELSE [enum EXCEPT !.bucket = i, !.next = next]
  BY DEF NextBucket
<1>1. PICK n \in Sizes : n \in Nat \ {0} /\ buckets \in [0 .. n - 1 -> Seq(Entries)]
  BY TypeFacts DEF TableInv
<1>2. /\ n \in Nat /\ DOMAIN buckets = 0 .. n - 1 /\ \A l \in 0 .. n - 1 : Unique(buckets[l])
      /\ enum.bucket \in 0 .. n - 1 /\ BucketCount = n
      /\ enum \in [active : BOOLEAN, bucket : Nat, next : Entries \cup {Null}]
  BY <1>0, <1>1, BucketFact DEF TableInv, FormInv, WellFormed, EnumInv, BucketCount, TableTypeOK
<1>3. \A x : x \in Remaining <=> Later(buckets, n, enum.bucket, x)
  BY <1>0, <1>1, <1>2, RestEnd, RemainingFact
<1>4. Contents' = Contents /\ result' = result
  BY <1>0 DEF Contents
<1>5. FormInv' /\ CountInv'
  BY <1>0 DEF TableInv, FormInv, CountInv
<1>6. CASE i = n
  <2>1. enum' = NoEnum /\ enum'.active = FALSE
    BY <1>0, <1>2, <1>6 DEF NoEnum
  <2>2. Remaining = {} /\ Remaining' = {}
    <3>1. \A x : ~ Later(buckets, n, enum.bucket, x)
      BY <1>2, <1>6 DEF Later
    <3> QED BY <1>3, <2>1, <3>1, RemainingFact
  <2>3. TableTypeOK' /\ EnumInv'
    BY <1>0, <2>1 DEF TableInv, TableTypeOK, EnumInv, NoEnum
  <2>4. D!DictEnd
    BY <1>0, <1>4, <2>1, <2>2 DEF D!DictEnd
  <2> QED BY <1>5, <2>3, <2>4 DEF TableInv, DictStep, D!DictNext
<1>7. CASE i # n
  <2>1. i \in 0 .. n - 1
    BY <1>2, <1>7
  <2> DEFINE nx == next
             ib == i
  <2>2. /\ enum' = [enum EXCEPT !.bucket = ib, !.next = nx]
        /\ nx = IF buckets[ib] = <<>> THEN Null ELSE Head(buckets[ib])
        /\ ib \in 0 .. n - 1 /\ ib = enum.bucket + 1
    BY <1>0, <1>2, <1>7, <2>1
  <2> HIDE DEF nx, ib, next, i
  <2>3. /\ nx \in Entries \cup {Null}
        /\ nx # Null => nx \in Range(buckets[ib])
        /\ \A x : x \in Rest(buckets, ib, nx) <=> Later(buckets, n, ib, x) \/ x \in Range(buckets[ib])
    BY <1>1, <1>2, <2>2, RestHead
  <2>4. enum'.active = enum.active /\ enum'.bucket = ib /\ enum'.next = nx
    BY <1>2, <2>2
  <2>5. TableTypeOK'
    <3>1. enum' \in [active : BOOLEAN, bucket : Nat, next : Entries \cup {Null}]
      <4>1. ib \in Nat
        BY <1>2, <2>2
      <4> QED BY <1>2, <2>2, <2>3, <4>1
    <3> QED BY <1>0, <3>1 DEF TableInv, TableTypeOK
  <2>6. EnumInv'
    BY <1>0, <1>2, <2>2, <2>3, <2>4 DEF TableInv, EnumInv
  <2>7. Remaining' = Rest(buckets, ib, nx)
    BY <1>0, <2>4, RemainingFact
  <2>8. Remaining' = Remaining
    <3>1. \A l \in 0 .. n - 1 : l > enum.bucket <=> (l > ib \/ l = ib)
      BY <1>2, <2>2
    <3>2. \A x : Later(buckets, n, enum.bucket, x) <=> Later(buckets, n, ib, x) \/ x \in Range(buckets[ib])
      BY <2>2, <3>1 DEF Later
    <3>3. \A x : x \in Remaining' <=> x \in Remaining
      BY <1>3, <2>3, <2>7, <3>2
    <3> QED BY <3>3
  <2>9. UNCHANGED D!dictVars
    BY <1>4, <2>4, <2>8 DEF D!dictVars
  <2> QED BY <1>5, <2>5, <2>6, <2>9 DEF TableInv, DictStep
<1> QED BY <1>6, <1>7

\* The entry after the one visited, which is where the enumeration goes on.
LEMMA SuccessorFact ==
  ASSUME NEW list \in Seq(Entries), Unique(list), NEW p \in DOMAIN list, NEW other
  PROVE  Successor(list, other, list[p]) = IF p + 1 \in DOMAIN list THEN list[p + 1] ELSE Null
<1> DEFINE e == list[p]
           q == CHOOSE n \in DOMAIN list : list[n] = e
<1>1. \A n \in DOMAIN list : list[n] = e => n = p
  BY DEF Unique
<1>2. q = p
  BY <1>1
<1>3. Successor(list, other, e) = IF q + 1 \in DOMAIN list THEN list[q + 1] ELSE Null
  BY DEF Successor
<1> HIDE DEF q, e
<1>4. Successor(list, other, e) = IF p + 1 \in DOMAIN list THEN list[p + 1] ELSE Null
  BY <1>2, <1>3
<1> QED BY <1>4 DEF e

\* The buckets c after the callback for the p-th entry of the i-th list, and what
\* is then left to visit.
Visits(c, b, n, i, p) ==
    \/ c = b
    \/ Replaces(c, b, i, Unlink(b[i], p)) /\ c \in [0 .. n - 1 -> Seq(Entries)] /\ WellFormed(c)

RestsWithout(c, b, i, e, next) ==
    /\ Rest(c, i, next) = Rest(b, i, e) \ {e}
    /\ e \in Rest(b, i, e)
    /\ next \in Entries \cup {Null}
    /\ next # Null => next \in Range(c[i])

\* Whatever became of the entry visited, what is left is what was left without it.
LEMMA VisitRest ==
  ASSUME NEW n \in Nat, NEW b \in [0 .. n - 1 -> Seq(Entries)], WellFormed(b),
         NEW i \in 0 .. n - 1, NEW p \in DOMAIN b[i], NEW c, NEW next,
         next = IF p + 1 \in DOMAIN b[i] THEN b[i][p + 1] ELSE Null, Visits(c, b, n, i, p)
  PROVE  RestsWithout(c, b, i, b[i][p], next)
<1> DEFINE list == b[i]
           e == b[i][p]
<1>0. /\ list \in Seq(Entries) /\ Len(list) \in Nat /\ DOMAIN list = 1 .. Len(list) /\ p \in 1 .. Len(list)
      /\ Unique(list) /\ Placed(b) /\ DOMAIN b = 0 .. n - 1 /\ e = list[p] /\ e \in Range(list) /\ p \in DOMAIN list
  BY DEF WellFormed, Range
<1>1. \A x : x \in Rest(b, i, e) <=> Later(b, n, i, x) \/ \E q \in DOMAIN list : p <= q /\ x = list[q]
  BY <1>0, RestAt DEF RestsAt
<1>2. ~ Later(b, n, i, e)
  <2>1. \A l, y : l \in 0 .. n - 1 /\ y \in Range(b[l]) => y \in Entries /\ BucketOf(b, KeyOf[y]) = l
    BY <1>0, PlacedFact, Zenon
  <2>2. BucketOf(b, KeyOf[e]) = i
    BY <1>0, <2>1
  <2>3. \A l \in 0 .. n - 1 : l > i => l # i
    OBVIOUS
  <2> HIDE DEF e
  <2> QED BY <2>1, <2>2, <2>3 DEF Later
<1>3. \A q \in DOMAIN list : list[q] = e <=> q = p
  BY <1>0 DEF Unique
<1>i. next = IF p + 1 \in DOMAIN list THEN list[p + 1] ELSE Null
  OBVIOUS
<1> HIDE DEF list, e
<1>4. \A x : x \in Rest(b, i, e) \ {e} <=> Later(b, n, i, x) \/ \E q \in DOMAIN list : p + 1 <= q /\ x = list[q]
  <2>1. \A q \in DOMAIN list : p <= q /\ q # p <=> p + 1 <= q
    BY <1>0
  <2> QED BY <1>1, <1>2, <1>3, <2>1
<1>5. e \in Rest(b, i, e)
  BY <1>0, <1>1
<1>6. next \in Entries \cup {Null}
  BY <1>0, <1>i
<1>7. CASE c = b
  <2>1. CASE p + 1 \in DOMAIN list
    <3>1. next = list[p + 1]
      BY <1>i, <2>1
    <3>2. \A x : x \in Rest(b, i, next) <=> Later(b, n, i, x) \/ \E q \in DOMAIN list : p + 1 <= q /\ x = list[q]
      <4>1. RestsAt(b, n, i, p + 1, b[i][p + 1])
        BY <1>0, <2>1, RestAt DEF list
      <4> QED BY <3>1, <4>1 DEF RestsAt, list
    <3>3. next \in Range(list)
      BY <2>1, <3>1 DEF Range
    <3> QED BY <1>4, <1>5, <1>6, <1>7, <3>2, <3>3 DEF RestsWithout, e, list
  <2>2. CASE p + 1 \notin DOMAIN list
    <3>1. next = Null
      BY <1>i, <2>2
    <3>2. \A x : x \in Rest(b, i, Null) <=> Later(b, n, i, x)
      BY RestEnd
    <3>3. \A q \in DOMAIN list : ~ (p + 1 <= q)
      BY <1>0, <2>2
    <3> QED BY <1>4, <1>5, <1>6, <1>7, <3>1, <3>2, <3>3 DEF RestsWithout, e
  <2> QED BY <2>1, <2>2
<1>8. CASE Replaces(c, b, i, Unlink(b[i], p)) /\ c \in [0 .. n - 1 -> Seq(Entries)] /\ WellFormed(c)
  <2> DEFINE u == Unlink(list, p)
  <2>0. c[i] = u /\ DOMAIN c = 0 .. n - 1 /\ \A l \in 0 .. n - 1 : l # i => c[l] = b[l]
    BY <1>0, <1>8 DEF Replaces, list
  <2>1. /\ u \in Seq(Entries) /\ Len(u) = Len(list) - 1
        /\ \A l \in 1 .. Len(list) - 1 : u[l] = IF l < p THEN list[l] ELSE list[l + 1]
    BY <1>0, UnlinkFact
  <2> HIDE DEF u
  <2>2. DOMAIN u = 1 .. Len(list) - 1 /\ Unique(u)
    <3>1. DOMAIN u = 1 .. Len(list) - 1
      BY <1>0, <2>1
    <3>2. Unique(c[i])
      BY <1>8, <2>0 DEF WellFormed
    <3> QED BY <2>0, <3>1, <3>2
  <2>3. \A x : Later(c, n, i, x) <=> Later(b, n, i, x)
    BY <2>0 DEF Later
  <2>4. \A q \in DOMAIN u : p <= q => q + 1 \in DOMAIN list /\ p + 1 <= q + 1 /\ u[q] = list[q + 1]
    <3> SUFFICES ASSUME NEW q \in 1 .. Len(list) - 1, p <= q
                 PROVE  q + 1 \in DOMAIN list /\ p + 1 <= q + 1 /\ u[q] = list[q + 1]
      BY <2>2
    <3>1. ~ (q < p) /\ q + 1 \in 1 .. Len(list) /\ p + 1 <= q + 1
      BY <1>0
    <3> QED BY <1>0, <2>1, <3>1
  <2>5. \A q \in DOMAIN list : p + 1 <= q => q - 1 \in DOMAIN u /\ p <= q - 1 /\ list[q] = u[q - 1]
    BY <1>0, <2>1, <2>2
  <2>6. \A x : (\E q \in DOMAIN u : p <= q /\ x = u[q]) <=> \E q \in DOMAIN list : p + 1 <= q /\ x = list[q]
    BY <2>4, <2>5
  <2>7. CASE p + 1 \in DOMAIN list
    <3>1. p \in DOMAIN u /\ next = u[p]
      BY <1>0, <1>i, <2>1, <2>2, <2>7
    <3>2. RestsAt(c, n, i, p, c[i][p])
      BY <1>8, <2>0, <2>2, <3>1, RestAt
    <3>3. \A x : x \in Rest(c, i, next) <=> Later(c, n, i, x) \/ \E q \in DOMAIN u : p <= q /\ x = u[q]
      BY <2>0, <3>1, <3>2 DEF RestsAt
    <3>4. next \in Range(c[i])
      BY <2>0, <3>1 DEF Range
    <3>5. \A x : x \in Rest(c, i, next) <=> x \in Rest(b, i, e) \ {e}
      BY <1>4, <2>3, <2>6, <3>3
    <3> QED BY <1>5, <1>6, <3>4, <3>5 DEF RestsWithout, e
  <2>8. CASE p + 1 \notin DOMAIN list
    <3>1. next = Null
      BY <1>i, <2>8
    <3>2. \A x : x \in Rest(c, i, Null) <=> Later(c, n, i, x)
      BY <1>8, RestEnd
    <3>3. \A q \in DOMAIN list : ~ (p + 1 <= q)
      BY <1>0, <2>8
    <3>5. \A x : x \in Rest(c, i, next) <=> x \in Rest(b, i, e) \ {e}
      BY <1>4, <2>3, <3>1, <3>2, <3>3
    <3> QED BY <1>5, <1>6, <3>1, <3>5 DEF RestsWithout, e
  <2> QED BY <2>7, <2>8
<1> QED BY <1>7, <1>8 DEF Visits

\* The callback for an entry, which may remove it.
LEMMA VisitStep ==
  ASSUME TableInv, VisitEntry
  PROVE  TableInv' /\ DictStep
<1> DEFINE i == enum.bucket
           e == enum.next
           list == buckets[i]
<1>0. /\ enum.active /\ e # Null /\ UNCHANGED old
      /\ RemoveKey(KeyOf[e]) \/ UNCHANGED <<buckets, count, result>>
      /\ enum' = [enum EXCEPT !.next = Successor(list, buckets'[i], e)]
  BY DEF VisitEntry
<1>1. PICK n \in Sizes : n \in Nat \ {0} /\ buckets \in [0 .. n - 1 -> Seq(Entries)]
  BY TypeFacts DEF TableInv
<1>2. /\ n \in Nat /\ DOMAIN buckets = 0 .. n - 1 /\ WellFormed(buckets) /\ Placed(buckets)
      /\ i \in 0 .. n - 1 /\ e \in Range(list) /\ old = NoBuckets
      /\ enum \in [active : BOOLEAN, bucket : Nat, next : Entries \cup {Null}]
  BY <1>0, <1>1 DEF TableInv, FormInv, WellFormed, EnumInv, TableTypeOK
<1>3. list \in Seq(Entries) /\ Unique(list)
  BY <1>1, <1>2 DEF WellFormed
<1>4. PICK p \in DOMAIN list : e = list[p]
  BY <1>2 DEF Range
<1>5. e \in Entries /\ BucketOf(buckets, KeyOf[e]) = i /\ KeyOf[e] \in Keys
  <2>1. \A l, y : l \in 0 .. n - 1 /\ y \in Range(buckets[l]) => y \in Entries /\ BucketOf(buckets, KeyOf[y]) = l
    BY <1>1, <1>2, PlacedFact, Zenon
  <2> QED BY <1>2, <2>1, HashAssumption
<1>6. e \in Elements(buckets)
  BY <1>1, <1>2, MemberFact
<1>7. \/ /\ UNCHANGED <<buckets, count, result>>
      \/ /\ Replaces(buckets', buckets, i, Unlink(buckets[i], p)) /\ result' = e
         /\ \E m \in Sizes : buckets' \in [0 .. m - 1 -> Seq(Entries)]
         /\ buckets' \in [0 .. n - 1 -> Seq(Entries)]
         /\ WellFormed(buckets') /\ KeysOf(buckets') \subseteq KeysOf(buckets)
         /\ IsFiniteSet(KeysOf(buckets')) /\ count' = Cardinality(KeysOf(buckets')) /\ count' \in Nat
         /\ \A x : x \in Elements(buckets') <=> x \in Elements(buckets) /\ x # e
  <2> SUFFICES ASSUME RemoveKey(KeyOf[e])
               PROVE  /\ Replaces(buckets', buckets, i, Unlink(buckets[i], p)) /\ result' = e
                      /\ \E m \in Sizes : buckets' \in [0 .. m - 1 -> Seq(Entries)]
                      /\ buckets' \in [0 .. n - 1 -> Seq(Entries)]
                      /\ WellFormed(buckets') /\ KeysOf(buckets') \subseteq KeysOf(buckets)
                      /\ IsFiniteSet(KeysOf(buckets')) /\ count' = Cardinality(KeysOf(buckets')) /\ count' \in Nat
                      /\ \A x : x \in Elements(buckets') <=> x \in Elements(buckets) /\ x # e
    BY <1>0
  <2>1. KeyOf[e] \in KeysOf(buckets)
    BY <1>6 DEF KeysOf
  <2>2. /\ \E m \in Sizes : buckets' \in [0 .. m - 1 -> Seq(Entries)]
        /\ WellFormed(buckets') /\ KeysOf(buckets') \subseteq KeysOf(buckets)
        /\ IsFiniteSet(KeysOf(buckets')) /\ count' = Cardinality(KeysOf(buckets')) /\ count' \in Nat
    BY <1>5, RemoveKeyFact
  <2>3. PICK j \in DOMAIN list :
           /\ result' = list[j] /\ KeyOf[list[j]] = KeyOf[e]
           /\ buckets' = [buckets EXCEPT ![i] = Unlink(buckets[i], j)]
           /\ \A x : x \in Elements(buckets') <=> x \in Elements(buckets) /\ x # list[j]
    BY <1>5, <2>1, RemoveKeyFact
  <2>4. j = p
    BY <1>3, <1>4, <2>3 DEF Unique
  <2>5. Unlink(list, p) \in Seq(Entries)
    BY <1>3, UnlinkFact
  <2>6. buckets' \in [0 .. n - 1 -> Seq(Entries)]
    BY <1>1, <2>3, <2>4, <2>5
  <2> QED BY <1>4, <2>2, <2>3, <2>4, <2>6 DEF Replaces
<1> DEFINE next == Successor(list, buckets'[i], e)
<1>8. next = IF p + 1 \in DOMAIN list THEN list[p + 1] ELSE Null
  BY <1>3, <1>4, SuccessorFact
<1>9. enum'.active = enum.active /\ enum'.bucket = i /\ enum'.next = next /\ enum' = [enum EXCEPT !.next = next]
  BY <1>0, <1>2
<1> HIDE DEF next
<1>10. /\ Rest(buckets', i, next) = Rest(buckets, i, e) \ {e}
       /\ e \in Rest(buckets, i, e)
       /\ next \in Entries \cup {Null}
       /\ next # Null => next \in Range(buckets'[i])
  <2>1. Visits(buckets', buckets, n, i, p)
    BY <1>7 DEF Visits
  <2>2. RestsWithout(buckets', buckets, i, buckets[i][p], next)
    BY <1>1, <1>2, <1>4, <1>8, <2>1, VisitRest
  <2> QED BY <1>4, <2>2 DEF RestsWithout
<1>11. TableTypeOK'
  <2>1. enum' \in [active : BOOLEAN, bucket : Nat, next : Entries \cup {Null}]
    BY <1>2, <1>9, <1>10
  <2>2. result' \in Entries \cup {Null} /\ count' \in Nat /\ \E m \in Sizes : buckets' \in [0 .. m - 1 -> Seq(Entries)]
    BY <1>1, <1>5, <1>7 DEF TableInv, TableTypeOK
  <2> QED BY <1>0, <2>1, <2>2 DEF TableInv, TableTypeOK
<1>12. FormInv' /\ CountInv'
  BY <1>0, <1>7 DEF TableInv, FormInv, CountInv
<1>13. EnumInv'
  <2>1. DOMAIN buckets' = 0 .. n - 1
    BY <1>2, <1>7
  <2> QED BY <1>0, <1>2, <1>9, <1>10, <2>1 DEF EnumInv
<1>14. Remaining' = Remaining \ {e} /\ e \in Remaining
  BY <1>0, <1>9, <1>10, RemainingFact
<1>15. \/ UNCHANGED <<Contents, result>>
       \/ Contents' = Contents \ {e} /\ result' = e
  <2>1. Contents = Elements(buckets) /\ Contents' = Elements(buckets')
    BY <1>0, <1>2, IdleFacts, EmptyFact DEF Contents, NoBuckets
  <2> QED BY <1>7, <2>1
<1>16. D!DictVisit(e)
  BY <1>0, <1>9, <1>14, <1>15 DEF D!DictVisit
<1> QED BY <1>5, <1>11, <1>12, <1>13, <1>16 DEF TableInv, DictStep, D!DictNext

-----------------------------------------------------------------------------
(***************************************************************************)
(* Resizing and deletion.                                                  *)
(***************************************************************************)

\* JphtResize: the new buckets are empty, the old ones have the entries.
LEMMA ResizeStep ==
  ASSUME TableInv, NEW n \in Sizes, Resize(n)
  PROVE  TableInv' /\ DictStep
<1>0. /\ ~ enum.active /\ old = NoBuckets /\ old' = buckets /\ buckets' = EmptyBuckets(n) /\ count' = 0
      /\ UNCHANGED <<result, enum>> /\ n \in Nat
  BY HashAssumption DEF Resize, Idle
<1>1. TableTypeOK'
  BY <1>0, EmptyFact DEF TableInv, TableTypeOK
<1>2. FormInv' /\ CountInv' /\ EnumInv'
  BY <1>0, EmptyFact DEF TableInv, FormInv, CountInv, EnumInv
<1>3. Contents = Elements(buckets) /\ Contents' = Elements(buckets)
  BY <1>0, IdleFacts, EmptyFact DEF Contents
<1>4. Remaining = {} /\ Remaining' = {}
  BY <1>0, RemainingFact
<1> QED BY <1>0, <1>1, <1>2, <1>3, <1>4 DEF TableInv, DictStep, D!dictVars

\* An entry of the old buckets is put into the new ones.
LEMMA CopyStep ==
  ASSUME TableInv, CopyEntry
  PROVE  TableInv' /\ DictStep
<1> DEFINE i == Min(Uncopied)
           e == Head(old[i])
           after == PutInto(Table, e)
           k == KeyOf[e]
<1>0. /\ Uncopied # {} /\ buckets' = after.buckets /\ count' = after.count
      /\ old' = [old EXCEPT ![i] = Tail(old[i])] /\ UNCHANGED <<result, enum>>
  BY DEF CopyEntry
<1>1. PICK n \in Sizes : n \in Nat \ {0} /\ buckets \in [0 .. n - 1 -> Seq(Entries)]
  BY TypeFacts DEF TableInv
<1>2. PICK m \in Sizes \cup {0} : m \in Nat /\ old \in [0 .. m - 1 -> Seq(Entries)]
  BY TypeFacts DEF TableInv
<1>3. /\ WellFormed(buckets) /\ WellFormed(old) /\ count \in Nat /\ TableTypeOK
      /\ IsFiniteSet(KeysOf(buckets)) /\ count = Cardinality(KeysOf(buckets)) /\ IsFiniteSet(KeysOf(old))
      /\ KeysOf(buckets) \cap KeysOf(old) = {}
  BY DEF TableInv, FormInv, CountInv, TableTypeOK
<1>4. Uncopied \subseteq 0 .. m - 1 /\ Uncopied \subseteq Nat
  BY <1>2 DEF Uncopied
<1>5. i \in Uncopied
  BY <1>0, <1>4, MinFact
<1>6. i \in 0 .. m - 1 /\ old[i] \in Seq(Entries) /\ old[i] # <<>>
  BY <1>2, <1>4, <1>5 DEF Uncopied
<1>7. Tail(old[i]) = Unlink(old[i], 1) /\ e = old[i][1] /\ 1 \in DOMAIN old[i] /\ e \in Entries
  <2> DEFINE list == old[i]
  <2>1. list \in Seq(Entries) /\ list # <<>> /\ e = Head(list)
    BY <1>6
  <2> HIDE DEF list
  <2>2. Tail(list) = Unlink(list, 1) /\ e = list[1] /\ 1 \in DOMAIN list
    BY <2>1, TailFact
  <2>3. list[1] \in Entries
    BY <2>1, <2>2
  <2> QED BY <2>2, <2>3 DEF list
<1>8. ~ enum.active
  <2>1. old # NoBuckets
    BY <1>2, <1>6 DEF NoBuckets, EmptyBuckets
  <2> QED BY <2>1 DEF TableInv, EnumInv
<1> HIDE DEF i
<1>9. Drops(old', old, old[i][1], m)
  <2>1. Replaces(old', old, i, Unlink(old[i], 1))
    BY <1>0, <1>7 DEF Replaces
  <2> QED BY <1>2, <1>3, <1>6, <1>7, <2>1, DropFact
<1>10. /\ old' \in [0 .. m - 1 -> Seq(Entries)] /\ WellFormed(old') /\ e \in Elements(old)
       /\ \A x : x \in Elements(old') <=> x \in Elements(old) /\ x # e
       /\ KeysOf(old') = KeysOf(old) \ {k} /\ k \in KeysOf(old) /\ IsFiniteSet(KeysOf(old'))
  BY <1>7, <1>9 DEF Drops
<1> HIDE DEF e
<1>11. /\ buckets' \in [0 .. n - 1 -> Seq(Entries)] /\ WellFormed(buckets')
       /\ \A x : x \in Elements(buckets') <=> x = e \/ (x \in Elements(buckets) /\ KeyOf[x] # k)
       /\ IsFiniteSet(KeysOf(buckets')) /\ count' = Cardinality(KeysOf(buckets')) /\ count' \in Nat
  <2> DEFINE a == PutInto([buckets |-> buckets, count |-> count, old |-> Null], e)
  <2>1. /\ a.buckets \in [0 .. n - 1 -> Seq(Entries)] /\ WellFormed(a.buckets)
        /\ \A x : x \in Elements(a.buckets) <=> x = e \/ (x \in Elements(buckets) /\ KeyOf[x] # KeyOf[e])
        /\ IsFiniteSet(KeysOf(a.buckets)) /\ a.count = Cardinality(KeysOf(a.buckets)) /\ a.count \in Nat
    BY <1>1, <1>3, <1>7, PutFact
  <2>2. buckets' = a.buckets /\ count' = a.count
    BY <1>0 DEF Table
  <2> HIDE DEF a
  <2> QED BY <2>1, <2>2
<1> HIDE DEF after
<1>12. \A x \in Elements(buckets) : KeyOf[x] # k
  BY <1>3, <1>10 DEF KeysOf
<1>13. \A x : x \in Elements(buckets') <=> x = e \/ x \in Elements(buckets)
  BY <1>11, <1>12
<1>14. TableTypeOK'
  BY <1>0, <1>1, <1>2, <1>3, <1>10, <1>11 DEF TableTypeOK
<1>15. KeysOf(buckets') \cap KeysOf(old') = {}
  <2>1. \A q : q \in KeysOf(buckets') => q = k \/ q \in KeysOf(buckets)
    BY <1>13 DEF KeysOf
  <2> QED BY <1>3, <1>10, <2>1
<1>16. FormInv' /\ CountInv' /\ EnumInv'
  BY <1>0, <1>8, <1>10, <1>11, <1>15 DEF FormInv, CountInv, EnumInv
<1>17. Contents' = Contents
  BY <1>10, <1>13 DEF Contents
<1>18. Remaining = {} /\ Remaining' = {}
  BY <1>0, <1>8, RemainingFact
<1> QED BY <1>0, <1>14, <1>16, <1>17, <1>18 DEF TableInv, DictStep, D!dictVars

\* The old buckets are empty when they are freed.
LEMMA EndsStep ==
  ASSUME TableInv, ResizeEnds
  PROVE  TableInv' /\ DictStep
<1>0. old # NoBuckets /\ Uncopied = {} /\ old' = NoBuckets /\ UNCHANGED <<buckets, count, result, enum>>
  BY DEF ResizeEnds
<1>1. PICK m \in Sizes \cup {0} : m \in Nat /\ old \in [0 .. m - 1 -> Seq(Entries)]
  BY TypeFacts DEF TableInv
<1>2. \A j \in 0 .. m - 1 : old[j] = <<>>
  BY <1>0, <1>1 DEF Uncopied
<1>3. Elements(old) = {}
  <2>1. \A x : x \in Elements(old) <=> \E j \in 0 .. m - 1 : x \in Range(old[j])
    BY <1>1, MemberFact
  <2> QED BY <1>2, <2>1 DEF Range
<1>4. ~ enum.active
  BY <1>0 DEF TableInv, EnumInv
<1>5. TableTypeOK'
  BY <1>0, EmptyFact DEF TableInv, TableTypeOK, NoBuckets
<1>6. FormInv' /\ CountInv' /\ EnumInv'
  BY <1>0, <1>4, EmptyFact DEF TableInv, FormInv, CountInv, EnumInv, NoBuckets
<1>7. Contents' = Contents
  BY <1>0, <1>3, EmptyFact DEF Contents, NoBuckets
<1>8. Remaining = {} /\ Remaining' = {}
  BY <1>0, <1>4, RemainingFact
<1> QED BY <1>0, <1>5, <1>6, <1>7, <1>8 DEF TableInv, DictStep, D!dictVars

\* JphtDeleteHashtable: a table that counts no entry has none.
LEMMA DeleteStep ==
  ASSUME TableInv, NEW n \in Sizes, Delete(n)
  PROVE  TableInv' /\ DictStep
<1>0. /\ ~ enum.active /\ old = NoBuckets /\ buckets' = EmptyBuckets(n) /\ count = 0
      /\ result' = Null /\ UNCHANGED <<count, enum, old>> /\ n \in Nat
  BY HashAssumption DEF Delete, Idle
<1>1. Elements(buckets) = {}
  <2>1. KeysOf(buckets) = {}
    BY <1>0, FS_EmptySet DEF TableInv, CountInv
  <2> QED BY <2>1 DEF KeysOf
<1>2. TableTypeOK'
  BY <1>0, EmptyFact DEF TableInv, TableTypeOK
<1>3. FormInv' /\ CountInv' /\ EnumInv'
  BY <1>0, EmptyFact DEF TableInv, FormInv, CountInv, EnumInv
<1>4. Contents = {} /\ Contents' = {}
  BY <1>0, <1>1, IdleFacts, EmptyFact DEF Contents
<1>5. Remaining = {} /\ Remaining' = {}
  BY <1>0, RemainingFact
<1>6. D!DictDelete
  BY <1>0, <1>4, <1>5 DEF D!DictDelete
<1> QED BY <1>2, <1>3, <1>6 DEF TableInv, DictStep, D!DictNext

\* A step that changes nothing.
LEMMA StutterStep ==
  ASSUME TableInv, UNCHANGED tableVars
  PROVE  TableInv' /\ DictStep
<1>0. UNCHANGED <<buckets, count, result, enum, old>>
  BY DEF tableVars
<1>1. TableInv'
  BY <1>0 DEF TableInv, TableTypeOK, FormInv, CountInv, EnumInv
<1>2. UNCHANGED <<Contents, Remaining>>
  BY <1>0 DEF Contents, Remaining
<1> QED BY <1>0, <1>1, <1>2 DEF DictStep, D!dictVars

\* Every step of the table.
LEMMA TableStep ==
  TableInv /\ [TableNext]_tableVars => TableInv' /\ DictStep
<1> SUFFICES ASSUME TableInv, [TableNext]_tableVars PROVE TableInv' /\ DictStep
  OBVIOUS
<1>1. ASSUME NEW e \in Entries, PutEntry(e) PROVE TableInv' /\ DictStep
  BY <1>1, PutStep
<1>2. ASSUME NEW k \in Keys, GetEntry(k) PROVE TableInv' /\ DictStep
  BY <1>2, GetStep
<1>3. ASSUME NEW k \in Keys, RemoveEntry(k) PROVE TableInv' /\ DictStep
  BY <1>3, RemoveStep
<1>4. ASSUME NEW n \in Sizes, Resize(n) PROVE TableInv' /\ DictStep
  BY <1>4, ResizeStep
<1>5. ASSUME NEW n \in Sizes, ResizeFails(n) PROVE TableInv' /\ DictStep
  BY <1>5, StutterStep DEF ResizeFails
<1>6. ASSUME NEW n \in Sizes, Delete(n) PROVE TableInv' /\ DictStep
  BY <1>6, DeleteStep
<1>7. CASE EnumerateEntries
  BY <1>7, EnumerateStep
<1>8. CASE NextBucket
  BY <1>8, NextBucketStep
<1>9. CASE VisitEntry
  BY <1>9, VisitStep
<1>10. CASE CopyEntry
  BY <1>10, CopyStep
<1>11. CASE ResizeEnds
  BY <1>11, EndsStep
<1>12. CASE UNCHANGED tableVars
  BY <1>12, StutterStep
<1> QED BY <1>1, <1>2, <1>3, <1>4, <1>5, <1>6, <1>7, <1>8, <1>9, <1>10, <1>11, <1>12 DEF TableNext

-----------------------------------------------------------------------------
\* The lists, the counter and the enumeration fit at every step.
THEOREM TableInvariance == TableSpec => []TableInv
<1>1. TableInit => TableInv
  BY InitStep
<1>2. TableInv /\ [TableNext]_tableVars => TableInv'
  BY TableStep
<1> QED BY <1>1, <1>2, PTL DEF TableSpec

\* The table implements the dictionary: each step of the code is a step of the
\* dictionary on the entries it holds, or changes nothing of it.
THEOREM ImplementsDictionaryHolds == TableSpec => ImplementsDictionary
<1>1. TableInit => D!DictInit
  BY InitStep
<1>2. TableInv /\ [TableNext]_tableVars => [D!DictNext]_(D!dictVars)
  BY TableStep DEF DictStep
<1> QED BY <1>1, <1>2, TableInvariance, PTL DEF TableSpec, ImplementsDictionary, D!DictSpec

\* There are as many places in the lists as there are keys.
LEMMA PlacesFact ==
  ASSUME NEW n \in Nat, NEW b \in [0 .. n - 1 -> Seq(Entries)], WellFormed(b), IsFiniteSet(KeysOf(b))
  PROVE  Cardinality(Places(b)) = Cardinality(KeysOf(b))
<1> DEFINE S == Places(b)
           T == KeysOf(b)
           f == [s \in S |-> KeyOf[b[s[1]][s[2]]]]
<1>0. DOMAIN b = 0 .. n - 1 /\ Placed(b) /\ \A i \in 0 .. n - 1 : Unique(b[i])
  BY DEF WellFormed
<1>1. \A s : s \in S <=> \E i \in 0 .. n - 1 : \E j \in DOMAIN b[i] : s = <<i, j>>
  BY <1>0 DEF Places
<1>2. ASSUME NEW i \in 0 .. n - 1, NEW j \in DOMAIN b[i]
      PROVE  b[i][j] \in Elements(b) /\ BucketOf(b, KeyOf[b[i][j]]) = i
  <2>1. b[i][j] \in Range(b[i])
    BY DEF Range
  <2> QED BY <1>0, <2>1, MemberFact DEF Placed
<1> HIDE DEF S
<1>3. \A i \in 0 .. n - 1 : \A j \in DOMAIN b[i] : <<i, j>> \in S /\ f[<<i, j>>] = KeyOf[b[i][j]]
  BY <1>1
<1>4. f \in [S -> T]
  BY <1>1, <1>2 DEF KeysOf
<1>5. ASSUME NEW s \in S, NEW t \in S, f[s] = f[t] PROVE s = t
  <2>a. PICK i \in 0 .. n - 1 : \E j \in DOMAIN b[i] : s = <<i, j>>
    BY <1>1
  <2>1. PICK j \in DOMAIN b[i] : s = <<i, j>>
    BY <2>a
  <2>b. PICK l \in 0 .. n - 1 : \E m \in DOMAIN b[l] : t = <<l, m>>
    BY <1>1
  <2>2. PICK m \in DOMAIN b[l] : t = <<l, m>>
    BY <2>b
  <2>3. KeyOf[b[i][j]] = KeyOf[b[l][m]]
    BY <1>3, <1>5, <2>1, <2>2
  <2>4. i = l
    BY <1>2, <2>3
  <2>5. j = m
    BY <1>0, <2>3, <2>4 DEF Unique
  <2> QED BY <2>1, <2>2, <2>4, <2>5
<1>6. ASSUME NEW k \in T PROVE \E s \in S : f[s] = k
  <2>1. PICK x \in Elements(b) : KeyOf[x] = k
    BY DEF KeysOf
  <2>2. PICK i \in 0 .. n - 1 : x \in Range(b[i])
    BY MemberFact
  <2>3. PICK j \in DOMAIN b[i] : x = b[i][j]
    BY <2>2 DEF Range
  <2> QED BY <1>3, <2>1, <2>3
<1> HIDE DEF f, T
<1>7. f \in Injection(S, T)
  BY <1>4, <1>5 DEF Injection, IsInjective
<1>8. f \in Surjection(S, T)
  BY <1>4, <1>6 DEF Surjection
<1>9. IsFiniteSet(T)
  BY DEF T
<1> QED BY <1>7, <1>8, <1>9, FS_Injection DEF S, T

\* EntryCount is the number of entries.
LEMMA TableInvCounts ==
  TableInv => CountsEntries
<1> SUFFICES ASSUME TableInv PROVE CountsEntries
  OBVIOUS
<1>1. PICK n \in Sizes : n \in Nat \ {0} /\ buckets \in [0 .. n - 1 -> Seq(Entries)]
  BY TypeFacts DEF TableInv
<1>2. PICK m \in Sizes \cup {0} : m \in Nat /\ old \in [0 .. m - 1 -> Seq(Entries)]
  BY TypeFacts DEF TableInv
<1>3. /\ WellFormed(buckets) /\ WellFormed(old) /\ KeysOf(buckets) \cap KeysOf(old) = {}
      /\ IsFiniteSet(KeysOf(buckets)) /\ IsFiniteSet(KeysOf(old)) /\ count = Cardinality(KeysOf(buckets))
  BY DEF TableInv, FormInv, CountInv
<1>4. /\ Cardinality(Places(buckets)) = Cardinality(KeysOf(buckets))
      /\ Cardinality(Places(old)) = Cardinality(KeysOf(old))
  BY <1>1, <1>2, <1>3, PlacesFact
<1>5. {KeyOf[e] : e \in Contents} = KeysOf(buckets) \cup KeysOf(old)
  BY DEF Contents, KeysOf
<1>6. Cardinality(KeysOf(buckets) \cup KeysOf(old)) = Cardinality(KeysOf(buckets)) + Cardinality(KeysOf(old))
  <2>1. Cardinality(KeysOf(buckets) \cap KeysOf(old)) = 0
    BY <1>3, FS_EmptySet
  <2>2. Cardinality(KeysOf(buckets)) \in Nat /\ Cardinality(KeysOf(old)) \in Nat
    BY <1>3, FS_CardinalityType
  <2>3. Cardinality(KeysOf(buckets) \cup KeysOf(old))
          = Cardinality(KeysOf(buckets)) + Cardinality(KeysOf(old)) - Cardinality(KeysOf(buckets) \cap KeysOf(old))
    BY <1>3, FS_Union, Zenon
  <2> QED BY <2>1, <2>2, <2>3
<1> QED BY <1>3, <1>4, <1>5, <1>6 DEF CountsEntries, KeysOf

\* EntryCount, on which JphtDeleteHashtable asserts, is exact at every step, also
\* during a resize, and no key is in the table twice.
THEOREM CountsEntriesHolds == TableSpec => []CountsEntries
BY TableInvariance, TableInvCounts, PTL
==============================================================================
