------------------------------ MODULE SearchProofs ------------------------------
(***************************************************************************)
(* Theorems about Search, for every value of its constants: any number of  *)
(* namespaces, skills, versions and texts.                                 *)
(***************************************************************************)
EXTENDS Search, RegistryProofs, FiniteSetTheorems, FunctionTheorems,
        SequenceTheorems, NaturalsInduction, WellFoundedInduction

-----------------------------------------------------------------------------
(* Least and greatest numbers.                                             *)

Less == {pair \in Nat \X Nat : pair[1] < pair[2]}

(* A set of naturals has a least element.                                  *)
LEMMA Least ==
  ASSUME NEW C \in SUBSET Nat, C # {}
  PROVE  Min(C) \in C /\ \A other \in C : Min(C) <= other
<1>1. IsWellFoundedOn(Less, Nat)
  BY NatLessThanWellFounded DEF OpToRel, Less
<1>2. PICK n \in C : \A other \in C : <<other, n>> \notin Less
  BY <1>1, WFMin
<1>3. ASSUME NEW other \in C PROVE n <= other
  <2>1. <<other, n>> \in Nat \X Nat /\ other \in Nat /\ n \in Nat
    OBVIOUS
  <2>2. <<other, n>> \notin Less
    BY <1>2
  <2> QED BY <2>1, <2>2 DEF Less
<1> QED BY <1>3 DEF Min

(* A set of naturals with an upper bound has a greatest element.           *)
LEMMA Greatest ==
  ASSUME NEW C \in SUBSET Nat, C # {}, NEW bound \in Nat, \A other \in C : other <= bound
  PROVE  Max(C) \in C /\ \A other \in C : other <= Max(C)
<1> DEFINE D == {bound - n : n \in C}
<1>1. D \in SUBSET Nat /\ D # {}
  <2>1. ASSUME NEW n \in C PROVE bound - n \in Nat
    <3>1. n \in Nat /\ n <= bound
      OBVIOUS
    <3> QED BY <3>1
  <2> QED BY <2>1
<1>2. Min(D) \in D /\ \A other \in D : Min(D) <= other
  BY <1>1, Least
<1>3. PICK n \in C : Min(D) = bound - n
  BY <1>2
<1>4. ASSUME NEW other \in C PROVE other <= n
  <2>1. bound - n <= bound - other
    BY <1>2, <1>3
  <2>2. other \in Nat /\ n \in Nat
    OBVIOUS
  <2> QED BY <2>1, <2>2
<1> QED BY <1>4 DEF Max

-----------------------------------------------------------------------------
(* Sorting.  A strict total order on a finite set gives its elements the   *)
(* places from 1 to their number.                                          *)

Orders(R, S) ==
    /\ \A i \in S : <<i, i>> \notin R
    /\ \A i, j \in S : i = j \/ <<i, j>> \in R \/ <<j, i>> \in R
    /\ \A i, j, k \in S : <<i, j>> \in R /\ <<j, k>> \in R => <<i, k>> \in R

PlaceIn(R, S, i) == 1 + Cardinality({j \in S : <<j, i>> \in R})

LEMMA PlaceIsBounded ==
  ASSUME NEW S, IsFiniteSet(S), NEW R, Orders(R, S), NEW i \in S
  PROVE  PlaceIn(R, S, i) \in 1..Cardinality(S)
<1> DEFINE Firsts == {j \in S : <<j, i>> \in R}
<1>1. Firsts \in SUBSET S /\ i \notin Firsts
  BY DEF Orders
<1>2. /\ IsFiniteSet(Firsts) /\ Cardinality(Firsts) <= Cardinality(S)
      /\ Cardinality(S) # Cardinality(Firsts)
  BY <1>1, FS_Subset
<1>3. Cardinality(Firsts) \in Nat /\ Cardinality(S) \in Nat
  BY <1>2, FS_CardinalityType
<1> QED BY <1>2, <1>3 DEF PlaceIn

LEMMA PlacesAreOrdered ==
  ASSUME NEW S, IsFiniteSet(S), NEW R, Orders(R, S), NEW i \in S, NEW j \in S, <<i, j>> \in R
  PROVE  PlaceIn(R, S, i) < PlaceIn(R, S, j)
<1> DEFINE Firsts(k) == {m \in S : <<m, k>> \in R}
<1>1. Firsts(i) \in SUBSET Firsts(j) /\ i \in Firsts(j) /\ i \notin Firsts(i)
  BY DEF Orders
<1>2. Firsts(j) \in SUBSET S
  OBVIOUS
<1>3. IsFiniteSet(Firsts(j))
  BY <1>2, FS_Subset
<1> HIDE DEF Firsts
<1>4. /\ IsFiniteSet(Firsts(i)) /\ Cardinality(Firsts(i)) <= Cardinality(Firsts(j))
      /\ Cardinality(Firsts(j)) # Cardinality(Firsts(i))
  BY <1>1, <1>3, FS_Subset
<1>5. Cardinality(Firsts(i)) \in Nat /\ Cardinality(Firsts(j)) \in Nat
  BY <1>3, <1>4, FS_CardinalityType
<1> QED BY <1>4, <1>5 DEF PlaceIn, Firsts

(* Each place is taken by one element.                                     *)
LEMMA EveryPlaceIsTaken ==
  ASSUME NEW S, IsFiniteSet(S), NEW R, Orders(R, S), NEW n \in 1..Cardinality(S)
  PROVE  \E i \in S : PlaceIn(R, S, i) = n
<1> DEFINE f == [i \in S |-> PlaceIn(R, S, i)]
           T == 1..Cardinality(S)
<1>1. Cardinality(S) \in Nat
  BY FS_CardinalityType
<1>2. IsFiniteSet(T) /\ Cardinality(T) = Cardinality(S)
  BY <1>1, FS_Interval
<1>3. f \in [S -> T]
  BY PlaceIsBounded
<1>4. ASSUME NEW i \in S, NEW j \in S, f[i] = f[j] PROVE i = j
  <2>1. PlaceIn(R, S, i) \in Int /\ PlaceIn(R, S, j) \in Int
    BY <1>1, PlaceIsBounded
  <2>2. <<i, j>> \notin R /\ <<j, i>> \notin R
    BY <1>4, <2>1, PlacesAreOrdered
  <2> QED BY <2>2 DEF Orders
<1>5. f \in Injection(S, T)
  BY <1>3, <1>4 DEF Injection, IsInjective
<1>6. f \in Surjection(S, T)
  BY <1>2, <1>5, FS_Injection
<1> QED BY <1>6 DEF Surjection

(* The element of each place.                                              *)
Order(R, S) == [n \in 1..Cardinality(S) |-> CHOOSE i \in S : PlaceIn(R, S, i) = n]

LEMMA OrderSorts ==
  ASSUME NEW S, IsFiniteSet(S), NEW R, Orders(R, S)
  PROVE  /\ Order(R, S) \in Bijection(1..Cardinality(S), S)
         /\ \A m, n \in 1..Cardinality(S) :
               m < n => <<Order(R, S)[m], Order(R, S)[n]>> \in R
<1> DEFINE T == 1..Cardinality(S)
           ord == Order(R, S)
<1>1. Cardinality(S) \in Nat
  BY FS_CardinalityType
<1>2. ASSUME NEW n \in T PROVE ord[n] \in S /\ PlaceIn(R, S, ord[n]) = n
  BY EveryPlaceIsTaken DEF Order
<1>3. ord \in [T -> S]
  BY <1>2 DEF Order
<1> HIDE DEF ord
<1>4. ASSUME NEW m \in T, NEW n \in T, ord[m] = ord[n] PROVE m = n
  BY <1>2, <1>4
<1>5. ASSUME NEW i \in S PROVE \E n \in T : ord[n] = i
  <2>1. PlaceIn(R, S, i) \in T
    BY PlaceIsBounded
  <2> DEFINE j == ord[PlaceIn(R, S, i)]
  <2>2. j \in S /\ PlaceIn(R, S, j) = PlaceIn(R, S, i)
    BY <1>2, <2>1
  <2>3. PlaceIn(R, S, i) \in Int
    BY <1>1, <2>1
  <2> HIDE DEF j
  <2>4. <<i, j>> \notin R /\ <<j, i>> \notin R
    BY <2>2, <2>3, PlacesAreOrdered
  <2>5. j = i
    BY <2>2, <2>4 DEF Orders
  <2> QED BY <2>1, <2>5 DEF j
<1>6. ASSUME NEW m \in T, NEW n \in T, m < n PROVE <<ord[m], ord[n]>> \in R
  <2>1. ord[m] \in S /\ ord[n] \in S /\ ord[m] # ord[n] /\ m \in Int /\ n \in Int
    BY <1>1, <1>2, <1>4, <1>6
  <2>2. <<ord[n], ord[m]>> \in R => PlaceIn(R, S, ord[n]) < PlaceIn(R, S, ord[m])
    BY <2>1, PlacesAreOrdered
  <2>3. <<ord[n], ord[m]>> \notin R
    BY <1>2, <1>6, <2>1, <2>2
  <2> QED BY <2>1, <2>3 DEF Orders
<1>7. ord \in Injection(T, S)
  BY <1>3, <1>4 DEF Injection, IsInjective
<1>8. ord \in Surjection(T, S)
  BY <1>3, <1>5 DEF Surjection
<1> QED BY <1>6, <1>7, <1>8 DEF Bijection, ord

-----------------------------------------------------------------------------
(* Texts: Before is a strict total order on them.                          *)

Text == Seq(Int)

LEMMA Letters ==
  ASSUME NEW a \in Text
  PROVE  Len(a) \in Nat /\ DOMAIN a = 1..Len(a) /\ \A n \in 1..Len(a) : a[n] \in Int
BY DEF Text

LEMMA Parts ==
  ASSUME NEW a \in Text, NEW m \in 1..(Len(a) + 1), NEW n \in (m - 1)..Len(a)
  PROVE  /\ SubSeq(a, m, n) \in Text /\ Len(SubSeq(a, m, n)) = n - m + 1
         /\ \A j \in 1..(n - m + 1) : SubSeq(a, m, n)[j] = a[m + j - 1]
<1> DEFINE part == SubSeq(a, m, n)
<1>1. /\ Len(a) \in Nat /\ m \in Int /\ n \in Int
      /\ \A j \in m..n : a[j] \in Int
  BY Letters
<1>2. /\ part \in Seq(Int) /\ Len(part) = IF m <= n THEN n - m + 1 ELSE 0
      /\ \A j \in 1..(n - m + 1) : part[j] = a[m + j - 1]
  BY <1>1, SubSeqProperties
<1> HIDE DEF part
<1>3. part \in Text /\ Len(part) = n - m + 1
  BY <1>1, <1>2 DEF Text
<1> QED BY <1>2, <1>3 DEF part

LEMMA SameText ==
  ASSUME NEW a \in Text, NEW b \in Text
  PROVE  a = b <=> Len(a) = Len(b) /\ \A j \in 1..Len(a) : a[j] = b[j]
BY SeqEqual DEF Text

LEMMA SamePrefix ==
  ASSUME NEW a \in Text, NEW b \in Text, NEW n \in Nat, n <= Len(a), n <= Len(b)
  PROVE  SubSeq(a, 1, n) = SubSeq(b, 1, n) <=> \A j \in 1..n : a[j] = b[j]
<1> DEFINE p == SubSeq(a, 1, n)
           q == SubSeq(b, 1, n)
<1>1. /\ Len(a) \in Nat /\ Len(b) \in Nat /\ 1 \in 1..(Len(a) + 1) /\ 1 \in 1..(Len(b) + 1)
      /\ n \in (1 - 1)..Len(a) /\ n \in (1 - 1)..Len(b)
  BY Letters
<1>2. /\ p \in Text /\ Len(p) = n - 1 + 1
      /\ \A j \in 1..(n - 1 + 1) : p[j] = a[1 + j - 1]
  BY <1>1, Parts
<1>3. /\ q \in Text /\ Len(q) = n - 1 + 1
      /\ \A j \in 1..(n - 1 + 1) : q[j] = b[1 + j - 1]
  BY <1>1, Parts
<1> HIDE DEF p, q
<1>4. Len(p) = n /\ Len(q) = n /\ \A j \in 1..n : p[j] = a[j] /\ q[j] = b[j]
  BY <1>2, <1>3
<1>5. p = q <=> Len(p) = Len(q) /\ \A j \in 1..Len(p) : p[j] = q[j]
  BY <1>2, <1>3, SameText
<1>6. p = q <=> \A j \in 1..n : a[j] = b[j]
  BY <1>4, <1>5
<1> QED BY <1>6 DEF p, q

(* The text that ends first, or has the smaller letter where they differ.  *)
Differ(a, b, n) == /\ n <= Len(a) + 1 /\ n <= Len(b)
                   /\ \A j \in 1..(n - 1) : a[j] = b[j]
                   /\ n <= Len(a) => a[n] < b[n]

LEMMA BeforeDiffers ==
  ASSUME NEW a \in Text, NEW b \in Text
  PROVE  Before(a, b) <=> \E n \in Nat \ {0} : Differ(a, b, n)
<1> DEFINE Apart(n) == /\ n <= Len(a) + 1
                       /\ SubSeq(a, 1, n - 1) = SubSeq(b, 1, n - 1)
                       /\ n <= Len(a) => a[n] < b[n]
<1>1. Len(a) \in Nat /\ Len(b) \in Nat /\ DOMAIN b = 1..Len(b)
  BY Letters
<1>2. Before(a, b) <=> \E n \in 1..Len(b) : Apart(n)
  BY <1>1 DEF Before
<1>3. ASSUME NEW n \in Nat \ {0}, n <= Len(b) PROVE Apart(n) <=> Differ(a, b, n)
  <2>1. CASE n <= Len(a) + 1
    <3>1. n - 1 \in Nat /\ n - 1 <= Len(a) /\ n - 1 <= Len(b)
      BY <1>1, <1>3, <2>1
    <3>2. SubSeq(a, 1, n - 1) = SubSeq(b, 1, n - 1) <=> \A j \in 1..(n - 1) : a[j] = b[j]
      BY <3>1, SamePrefix
    <3> QED BY <1>3, <3>2 DEF Differ
  <2>2. CASE ~(n <= Len(a) + 1)
    BY <2>2 DEF Differ
  <2> QED BY <2>1, <2>2
<1> HIDE DEF Apart
<1>4. ASSUME NEW n \in Nat \ {0}, Differ(a, b, n) PROVE n \in 1..Len(b)
  BY <1>1, <1>4 DEF Differ
<1>5. \A n \in 1..Len(b) : n \in Nat \ {0} /\ n <= Len(b)
  BY <1>1
<1> QED BY <1>2, <1>3, <1>4, <1>5

LEMMA BeforeIrreflexive == ASSUME NEW a \in Text PROVE ~Before(a, a)
<1>1. \A n \in 1..Len(a) : a[n] \in Int
  BY DEF Text
<1>2. Len(a) \in Nat
  BY DEF Text
<1> QED BY <1>1, <1>2, BeforeDiffers DEF Differ

LEMMA BeforeTransitive ==
  ASSUME NEW a \in Text, NEW b \in Text, NEW c \in Text, Before(a, b), Before(b, c)
  PROVE  Before(a, c)
<1>1. PICK m \in Nat \ {0} : Differ(a, b, m)
  BY BeforeDiffers
<1>2. PICK n \in Nat \ {0} : Differ(b, c, n)
  BY BeforeDiffers
<1>3. /\ Len(a) \in Nat /\ Len(b) \in Nat /\ Len(c) \in Nat
      /\ \A i \in 1..Len(a) : a[i] \in Int
      /\ \A i \in 1..Len(b) : b[i] \in Int
      /\ \A i \in 1..Len(c) : c[i] \in Int
  BY DEF Text
<1>4. CASE m <= n
  <2>1. Differ(a, c, m)
    BY <1>1, <1>2, <1>3, <1>4 DEF Differ
  <2> QED BY <2>1, BeforeDiffers
<1>5. CASE n < m
  <2>1. Differ(a, c, n)
    BY <1>1, <1>2, <1>3, <1>5 DEF Differ
  <2> QED BY <2>1, BeforeDiffers
<1> QED BY <1>4, <1>5

LEMMA BeforeTotal ==
  ASSUME NEW a \in Text, NEW b \in Text
  PROVE  a = b \/ Before(a, b) \/ Before(b, a)
<1> DEFINE Apart == {n \in Nat \ {0} : n > Len(a) \/ n > Len(b) \/ a[n] # b[n]}
           first == Min(Apart)
<1>1. /\ Len(a) \in Nat /\ Len(b) \in Nat
      /\ \A i \in 1..Len(a) : a[i] \in Int
      /\ \A i \in 1..Len(b) : b[i] \in Int
  BY DEF Text
<1>2. Len(a) + 1 \in Apart /\ Len(b) + 1 \in Apart /\ Apart \in SUBSET Nat
  BY <1>1
<1>3. first \in Apart /\ \A other \in Apart : first <= other
  BY <1>2, Least
<1> HIDE DEF first
<1>4. first <= Len(a) + 1 /\ first <= Len(b) + 1
  BY <1>2, <1>3
<1>5. \A j \in 1..(first - 1) : a[j] = b[j]
  BY <1>1, <1>3
<1>6. CASE first <= Len(a) /\ first <= Len(b)
  <2>1. a[first] # b[first] /\ a[first] \in Int /\ b[first] \in Int
    BY <1>1, <1>3, <1>6
  <2>2. Differ(a, b, first) \/ Differ(b, a, first)
    BY <1>3, <1>5, <1>6, <2>1 DEF Differ
  <2> QED BY <1>3, <2>2, BeforeDiffers
<1>7. CASE first > Len(a) /\ first <= Len(b)
  <2>1. Differ(a, b, first)
    BY <1>1, <1>3, <1>4, <1>5, <1>7 DEF Differ
  <2> QED BY <1>3, <2>1, BeforeDiffers
<1>8. CASE first <= Len(a) /\ first > Len(b)
  <2>1. Differ(b, a, first)
    BY <1>1, <1>3, <1>4, <1>5, <1>8 DEF Differ
  <2> QED BY <1>3, <2>1, BeforeDiffers
<1>9. CASE first > Len(a) /\ first > Len(b)
  <2>1. Len(a) = Len(b) /\ first = Len(a) + 1
    BY <1>1, <1>3, <1>4, <1>9
  <2>2. a = b
    BY <1>5, <2>1, <1>1, SeqEqual DEF Text
  <2> QED BY <2>2
<1> QED BY <1>1, <1>3, <1>6, <1>7, <1>8, <1>9

-----------------------------------------------------------------------------
(* What a search compares.                                                 *)

Name == Seq(Nat \ {0})
Hit == [name : Name, version : Versions, digest : Digests, shown : Text \cup {None}]

LEMMA NamesAreTexts == ASSUME NEW a \in Name PROVE a \in Text /\ Lower(a) = a
<1>1. a \in Text
  BY DEF Name, Text
<1>2. \A i \in DOMAIN a : a[i] \in Nat
  BY DEF Name
<1>3. Lower(a) = [i \in DOMAIN a |-> a[i]]
  BY <1>2 DEF Lower
<1> QED BY <1>1, <1>3 DEF Name

LEMMA LowerIsText == ASSUME NEW a \in Text PROVE Lower(a) \in Text
<1>1. Lower(a) \in [1..Len(a) -> Int] /\ Len(a) \in Nat
  BY Letters DEF Lower
<1> QED BY <1>1 DEF Text

LEMMA TrimIsText == ASSUME NEW a \in Text PROVE Trim(a) \in Text
<1> DEFINE solid == {i \in DOMAIN a : a[i] # 0}
<1>1. Len(a) \in Nat /\ solid \in SUBSET Nat /\ \A i \in solid : i <= Len(a) /\ i >= 1
  BY Letters
<1>2. CASE solid = {}
  <2>1. <<>> \in Text
    BY DEF Text
  <2> QED BY <1>2, <2>1 DEF Trim
<1>3. CASE solid # {}
  <2>1. Min(solid) \in solid /\ Max(solid) \in solid
    BY <1>1, <1>3, Least, Greatest
  <2>2. Min(solid) <= Max(solid)
    BY <1>1, <1>3, <2>1, Least
  <2>3. /\ Min(solid) \in Nat /\ Min(solid) >= 1 /\ Max(solid) \in Nat
        /\ Max(solid) <= Len(a)
    BY <1>1, <2>1
  <2> HIDE DEF solid
  <2>4. Min(solid) \in 1..(Len(a) + 1) /\ Max(solid) \in (Min(solid) - 1)..Len(a)
    BY <1>1, <2>2, <2>3
  <2>5. SubSeq(a, Min(solid), Max(solid)) \in Text
    BY <2>4, Parts
  <2> QED BY <1>3, <2>5 DEF Trim, solid
<1> QED BY <1>2, <1>3

LEMMA WrittenIsText == ASSUME NEW v \in Versions PROVE Written(v) \in Text
<1>1. v[1] \in 0..99 /\ v[2] \in 0..99 /\ v[3] \in 0..99
  BY VersionsAssumption
<1>2. ASSUME NEW n \in 0..99 PROVE Digits(n) \in Text
  <2>1. n \in Int /\ n \div 10 \in Int /\ n % 10 \in Int
    BY <1>2
  <2>2. <<n>> \in Text /\ <<n \div 10, n % 10>> \in Text
    BY <2>1 DEF Text
  <2> QED BY <2>2 DEF Digits
<1>3. Digits(v[1]) \in Text /\ Digits(v[2]) \in Text /\ Digits(v[3]) \in Text
  BY <1>1, <1>2
<1>4. <<-1>> \in Text
  BY DEF Text
<1> QED BY <1>3, <1>4, ConcatProperties DEF Text, Written

(* The name itself and a beginning of it are within it.                    *)
LEMMA BeginningIsWithin ==
  ASSUME NEW word \in Text, NEW text \in Text, text = word \/ IsPrefix(word, text)
  PROVE  Within(word, text)
<1>1. Len(word) \in Nat /\ Len(text) \in Nat /\ Len(word) <= Len(text)
  BY Letters DEF IsPrefix
<1>2. SubSeq(word, 1, Len(word)) = word
  BY SubSeqFull DEF Text
<1>3. SubSeq(text, 1, Len(word)) = word
  BY <1>2 DEF IsPrefix
<1>4. 0 \in 0..(Len(text) - Len(word)) /\ 0 + 1 = 1 /\ 0 + Len(word) = Len(word)
  BY <1>1
<1>5. SubSeq(text, 0 + 1, 0 + Len(word)) = word
  BY <1>3, <1>4
<1> QED BY <1>4, <1>5 DEF Within

(* The four grades of a match.                                             *)
LEMMA Grades ==
  ASSUME NEW query \in Text, NEW hit \in Hit
  PROVE  /\ Score(query, hit) \in 0..4
         /\ Score(query, hit) = 4 <=> hit.name = query
         /\ Score(query, hit) >= 3 <=> IsPrefix(query, hit.name)
         /\ Score(query, hit) >= 2 <=> Within(query, hit.name)
         /\ Score(query, hit) > 0 <=> Within(query, hit.name) \/ Described(query, hit)
<1>1. Lower(hit.name) = hit.name /\ hit.name \in Text
  BY NamesAreTexts DEF Hit
<1>2. hit.name = query \/ IsPrefix(query, hit.name) => Within(query, hit.name)
  BY <1>1, BeginningIsWithin
<1>3. IsPrefix(query, query)
  BY Letters DEF IsPrefix
<1> QED BY <1>1, <1>2, <1>3 DEF Score
-----------------------------------------------------------------------------
(* lexical_rank sorts its hits.                                            *)

LEMMA OutranksIsStrict ==
  ASSUME NEW query \in Text, NEW a \in Hit PROVE ~Outranks(query, a, a)
<1>1. a.name \in Text /\ Written(a.version) \in Text /\ Score(query, a) \in 0..4
  BY NamesAreTexts, WrittenIsText, Grades DEF Hit
<1>2. ~Before(a.name, a.name) /\ ~Before(Written(a.version), Written(a.version))
  BY <1>1, BeforeIrreflexive
<1> QED BY <1>1, <1>2 DEF Outranks, Alphabetical

(* Neither comes first: the hits differ in what no order looks at.         *)
Same(query, a, b) == /\ Score(query, a) = Score(query, b)
                     /\ a.name = b.name /\ Written(a.version) = Written(b.version)

LEMMA OutranksIsTotal ==
  ASSUME NEW query \in Text, NEW a \in Hit, NEW b \in Hit
  PROVE  /\ Outranks(query, a, b) \/ Outranks(query, b, a) \/ Same(query, a, b)
         /\ Outranks(query, a, b) => ~Outranks(query, b, a)
         /\ Same(query, a, b) => ~Outranks(query, a, b) /\ ~Outranks(query, b, a)
<1>1. /\ a.name \in Text /\ Written(a.version) \in Text /\ Score(query, a) \in 0..4
      /\ b.name \in Text /\ Written(b.version) \in Text /\ Score(query, b) \in 0..4
  BY NamesAreTexts, WrittenIsText, Grades DEF Hit
<1>2. ASSUME NEW s \in Text, NEW t \in Text
      PROVE  /\ s = t \/ Before(s, t) \/ Before(t, s)
             /\ ~(Before(s, t) /\ Before(t, s)) /\ (s = t => ~Before(s, t))
  BY BeforeTotal, BeforeTransitive, BeforeIrreflexive
<1>3. /\ a.name = b.name \/ Before(a.name, b.name) \/ Before(b.name, a.name)
      /\ ~(Before(a.name, b.name) /\ Before(b.name, a.name))
      /\ a.name = b.name => ~Before(a.name, b.name) /\ ~Before(b.name, a.name)
  BY <1>1, <1>2
<1> DEFINE v == Written(a.version)
           w == Written(b.version)
<1>4. /\ v = w \/ Before(v, w) \/ Before(w, v)
      /\ ~(Before(v, w) /\ Before(w, v)) /\ (v = w => ~Before(v, w) /\ ~Before(w, v))
  BY <1>1, <1>2
<1>5. /\ Score(query, a) > Score(query, b) \/ Score(query, b) > Score(query, a)
         \/ Score(query, a) = Score(query, b)
      /\ ~(Score(query, a) > Score(query, b) /\ Score(query, b) > Score(query, a))
      /\ Score(query, a) = Score(query, b) =>
            ~(Score(query, a) > Score(query, b)) /\ ~(Score(query, b) > Score(query, a))
  BY <1>1
<1> QED BY <1>3, <1>4, <1>5, Zenon DEF Outranks, Alphabetical, Same

LEMMA OutranksIsTransitive ==
  ASSUME NEW query \in Text, NEW a \in Hit, NEW b \in Hit, NEW c \in Hit,
         Outranks(query, a, b) \/ Same(query, a, b),
         Outranks(query, b, c) \/ Same(query, b, c)
  PROVE  \/ Outranks(query, a, c)
         \/ Same(query, a, c) /\ Same(query, a, b) /\ Same(query, b, c)
<1>1. /\ a.name \in Text /\ Written(a.version) \in Text /\ Score(query, a) \in 0..4
      /\ b.name \in Text /\ Written(b.version) \in Text /\ Score(query, b) \in 0..4
      /\ c.name \in Text /\ Written(c.version) \in Text /\ Score(query, c) \in 0..4
  BY NamesAreTexts, WrittenIsText, Grades DEF Hit
<1>2. Before(a.name, b.name) /\ Before(b.name, c.name) => Before(a.name, c.name)
  BY <1>1, BeforeTransitive
<1>3. Before(Written(a.version), Written(b.version)) /\ Before(Written(b.version), Written(c.version))
         => Before(Written(a.version), Written(c.version))
  BY <1>1, BeforeTransitive
<1>4. /\ Score(query, a) >= Score(query, b) /\ Score(query, b) >= Score(query, c)
      /\ Score(query, a) > Score(query, b) \/ Score(query, a) = Score(query, b)
      /\ Score(query, b) > Score(query, c) \/ Score(query, b) = Score(query, c)
  BY <1>1 DEF Outranks, Same
<1>5. CASE Score(query, a) > Score(query, c)
  BY <1>5 DEF Outranks
<1>6. CASE ~(Score(query, a) > Score(query, c))
  <2>1. Score(query, a) = Score(query, b) /\ Score(query, b) = Score(query, c)
    BY <1>1, <1>4, <1>6
  <2>2. /\ Alphabetical(a, b) \/ Same(query, a, b)
        /\ Alphabetical(b, c) \/ Same(query, b, c)
    BY <1>1, <2>1 DEF Outranks
  <2>3. \/ Alphabetical(a, c)
        \/ Same(query, a, c) /\ Same(query, a, b) /\ Same(query, b, c)
    BY <1>2, <1>3, <2>1, <2>2 DEF Alphabetical, Same
  <2> QED BY <2>1, <2>3 DEF Outranks
<1> QED BY <1>5, <1>6

(* A stable sort by an order that leaves some open is a total order.       *)
Precedence(query, hits) ==
    {pair \in (DOMAIN hits) \X (DOMAIN hits) : Precedes(query, hits, pair[1], pair[2])}

LEMMA PrecedesOrders ==
  ASSUME NEW query \in Text, NEW k \in Nat, NEW hits \in [1..k -> Hit],
         NEW S \in SUBSET (1..k)
  PROVE  Orders(Precedence(query, hits), S)
<1>1. \A i, j \in S : <<i, j>> \in Precedence(query, hits) <=> Precedes(query, hits, i, j)
  BY DEF Precedence
<1>2. \A i \in S : i \in Int /\ hits[i] \in Hit
  OBVIOUS
<1>3. ASSUME NEW i \in S, NEW j \in S
      PROVE  Precedes(query, hits, i, j) <=>
                \/ Outranks(query, hits[i], hits[j])
                \/ Same(query, hits[i], hits[j]) /\ i < j
  BY <1>2, OutranksIsTotal DEF Precedes
<1>4. ASSUME NEW i \in S PROVE ~Precedes(query, hits, i, i)
  BY <1>2, <1>3, OutranksIsStrict
<1>5. ASSUME NEW i \in S, NEW j \in S, i # j
      PROVE  Precedes(query, hits, i, j) \/ Precedes(query, hits, j, i)
  <2>1. Same(query, hits[i], hits[j]) => Same(query, hits[j], hits[i])
    BY DEF Same
  <2> QED BY <1>2, <1>3, <1>5, <2>1, OutranksIsTotal
<1>6. ASSUME NEW i \in S, NEW j \in S, NEW m \in S,
             Precedes(query, hits, i, j), Precedes(query, hits, j, m)
      PROVE  Precedes(query, hits, i, m)
  <2>1. \/ Outranks(query, hits[i], hits[m])
        \/ /\ Same(query, hits[i], hits[m])
           /\ Same(query, hits[i], hits[j]) /\ Same(query, hits[j], hits[m])
    BY <1>2, <1>3, <1>6, OutranksIsTransitive
  <2>2. CASE Outranks(query, hits[i], hits[m])
    BY <1>3, <2>2
  <2>3. CASE /\ Same(query, hits[i], hits[m])
             /\ Same(query, hits[i], hits[j]) /\ Same(query, hits[j], hits[m])
    <3>1. i < j /\ j < m
      BY <1>2, <1>3, <1>6, <2>3, OutranksIsTotal
    <3>2. i < m
      BY <1>2, <3>1
    <3> QED BY <1>3, <2>3, <3>2
  <2> QED BY <2>1, <2>2, <2>3
<1> QED BY <1>1, <1>4, <1>5, <1>6 DEF Orders

(* The documents lexical_rank keeps, and the order it returns them in.     *)
Ranked(query, hits) ==
    IF query = <<>> THEN {} ELSE {i \in DOMAIN hits : Score(query, hits[i]) > 0}
Ranking(query, hits) == Order(Precedence(query, hits), Ranked(query, hits))

LEMMA RankIsSorted ==
  ASSUME NEW query \in Text, NEW k \in Nat, NEW hits \in [1..k -> Hit],
         NEW size, size = Cardinality(Ranked(query, hits)),
         NEW ord, ord = Ranking(query, hits)
  PROVE  /\ size \in Nat /\ IsFiniteSet(Ranked(query, hits))
         /\ ord \in [1..size -> Ranked(query, hits)]
         /\ \A i \in Ranked(query, hits) : \E n \in 1..size : ord[n] = i
         /\ \A m, n \in 1..size : ord[m] = ord[n] => m = n
         /\ \A m, n \in 1..size :
               m < n => Score(query, hits[ord[m]]) >= Score(query, hits[ord[n]])
<1> DEFINE S == Ranked(query, hits)
           R == Precedence(query, hits)
<1>1. S \in SUBSET (1..k) /\ IsFiniteSet(1..k)
  BY FS_Interval DEF Ranked
<1>2. IsFiniteSet(S) /\ size \in Nat
  BY <1>1, FS_Subset, FS_CardinalityType
<1>3. Orders(R, S)
  BY <1>1, PrecedesOrders
<1> HIDE DEF S, R
<1>4. /\ ord \in Bijection(1..size, S)
      /\ \A m, n \in 1..size : m < n => <<ord[m], ord[n]>> \in R
  BY <1>2, <1>3, OrderSorts DEF Ranking, S, R
<1>5. /\ ord \in [1..size -> S] /\ \A i \in S : \E n \in 1..size : ord[n] = i
      /\ \A m, n \in 1..size : ord[m] = ord[n] => m = n
  BY <1>4 DEF Bijection, Injection, IsInjective, Surjection
<1>6. ASSUME NEW m \in 1..size, NEW n \in 1..size, m < n
      PROVE  Score(query, hits[ord[m]]) >= Score(query, hits[ord[n]])
  <2>1. hits[ord[m]] \in Hit /\ hits[ord[n]] \in Hit
    BY <1>1, <1>5
  <2>2. /\ Score(query, hits[ord[m]]) \in 0..4 /\ Score(query, hits[ord[n]]) \in 0..4
    BY <2>1, Grades
  <2>3. Precedes(query, hits, ord[m], ord[n])
    BY <1>4, <1>6 DEF R, Precedence
  <2>4. Outranks(query, hits[ord[m]], hits[ord[n]]) \/ Same(query, hits[ord[m]], hits[ord[n]])
    BY <2>1, <2>3, OutranksIsTotal DEF Precedes
  <2> QED BY <2>2, <2>4 DEF Outranks, Same
<1> QED BY <1>2, <1>5, <1>6 DEF S

LEMMA RankIsRanking ==
  ASSUME NEW terms, NEW query, query = Lower(Trim(terms)), NEW hits
  PROVE  LexicalRank(terms, hits) =
            [n \in 1..Cardinality(Ranked(query, hits)) |-> hits[Ranking(query, hits)[n]]]
<1> DEFINE S == Ranked(query, hits)
           R == Precedence(query, hits)
           Chosen(n) ==
              CHOOSE i \in S : 1 + Cardinality({j \in S : Precedes(query, hits, j, i)}) = n
<1>1. ASSUME NEW i \in S
      PROVE  {j \in S : Precedes(query, hits, j, i)} = {j \in S : <<j, i>> \in R}
  BY DEF Ranked, Precedence
<1>2. ASSUME NEW i \in S
      PROVE  1 + Cardinality({j \in S : Precedes(query, hits, j, i)}) = PlaceIn(R, S, i)
  BY <1>1 DEF PlaceIn
<1>3. ASSUME NEW n \in 1..Cardinality(S) PROVE Chosen(n) = Ranking(query, hits)[n]
  <2>1. Ranking(query, hits)[n] = CHOOSE i \in S : PlaceIn(R, S, i) = n
    BY DEF Ranking, Order
  <2> QED BY <1>2, <2>1
<1>4. LexicalRank(terms, hits) = [n \in 1..Cardinality(S) |-> hits[Chosen(n)]]
  BY DEF LexicalRank, Ranked
<1> HIDE DEF S, R, Chosen
<1>5. LexicalRank(terms, hits) = [n \in 1..Cardinality(S) |-> hits[Ranking(query, hits)[n]]]
  BY <1>3, <1>4
<1> QED BY <1>5 DEF S

-----------------------------------------------------------------------------
(* What a search answers.                                                  *)

Shortened(size, limit) == IF limit = None \/ limit >= size THEN size ELSE limit

LEMMA AnswerIsRanking ==
  ASSUME NEW terms \in Text, terms # None, NEW query, query = Lower(Trim(terms)),
         NEW k \in Nat, NEW index \in [1..k -> Hit], NEW limit \in Nat \cup {None},
         NEW size, size = Cardinality(Ranked(query, index)),
         NEW ord, ord = Ranking(query, index),
         NEW answer, answer = Answer(terms, limit, index)
  PROVE  /\ answer \in Seq(Hit) /\ Len(answer) = Shortened(size, limit)
         /\ \A n \in 1..Len(answer) :
               /\ SameVersion(answer[n], index[ord[n]])
               /\ Unambiguous(index) => answer[n] = index[ord[n]]
<1> DEFINE Alike(n) == {i \in 1..k : SameVersion(index[i], index[ord[n]])}
           found == [n \in 1..size |-> index[Min(Alike(n))]]
<1>1. query \in Text
  BY LowerIsText, TrimIsText
<1>2. size \in Nat /\ ord \in [1..size -> Ranked(query, index)]
  BY <1>1, RankIsSorted
<1>3. \A n \in 1..size : ord[n] \in 1..k
  BY <1>2 DEF Ranked
<1>4. ASSUME NEW n \in 1..size PROVE Min(Alike(n)) \in Alike(n)
  <2>1. Alike(n) \in SUBSET Nat /\ ord[n] \in Alike(n)
    BY <1>3 DEF SameVersion
  <2> HIDE DEF Alike
  <2> QED BY <2>1, Least
<1>5. LexicalRank(terms, index) = [n \in 1..size |-> index[ord[n]]]
  BY RankIsRanking
<1>6. answer = Truncate(found, limit)
  <2> DEFINE ranked == LexicalRank(terms, index)
             Again(n) == {i \in DOMAIN index : SameVersion(index[i], ranked[n])}
  <2>1. Answer(terms, limit, index) = Truncate([n \in DOMAIN ranked |-> index[Min(Again(n))]], limit)
    BY DEF Answer, Found
  <2>2. DOMAIN ranked = 1..size /\ \A n \in 1..size : ranked[n] = index[ord[n]]
    BY <1>5
  <2> HIDE DEF ranked
  <2>3. \A n \in 1..size : Again(n) = Alike(n)
    BY <2>2
  <2> HIDE DEF Again, Alike
  <2>4. [n \in DOMAIN ranked |-> index[Min(Again(n))]] = [n \in 1..size |-> index[Min(Alike(n))]]
    BY <2>2, <2>3
  <2> QED BY <2>1, <2>4
<1>7. ASSUME NEW n \in 1..size
      PROVE  /\ found[n] \in Hit /\ SameVersion(found[n], index[ord[n]])
             /\ Unambiguous(index) => found[n] = index[ord[n]]
  <2>1. /\ Min(Alike(n)) \in 1..k
        /\ SameVersion(index[Min(Alike(n))], index[ord[n]])
    BY <1>4
  <2> HIDE DEF Alike
  <2>2. Unambiguous(index) => Min(Alike(n)) = ord[n]
    BY <1>3, <2>1 DEF Unambiguous
  <2> QED BY <2>1, <2>2
<1>8. found \in Seq(Hit) /\ Len(found) = size
  <2>1. found \in [1..size -> Hit]
    BY <1>7
  <2> HIDE DEF found
  <2> QED BY <1>2, <2>1
<1> HIDE DEF found
<1>9. CASE limit = None \/ limit >= size
  BY <1>6, <1>7, <1>8, <1>9 DEF Truncate, Shortened
<1>10. CASE ~(limit = None \/ limit >= size)
  <2>1. limit \in Nat /\ limit < size
    BY <1>2, <1>10
  <2> DEFINE part == SubSeq(found, 1, limit)
  <2>2. 1 \in Int /\ limit \in Int /\ \A n \in 1..limit : found[n] \in Hit
    BY <1>2, <1>7, <2>1
  <2>3. /\ part \in Seq(Hit) /\ Len(part) = IF 1 <= limit THEN limit - 1 + 1 ELSE 0
        /\ \A n \in 1..(limit - 1 + 1) : part[n] = found[1 + n - 1]
    BY <2>2, SubSeqProperties
  <2>4. answer = part
    BY <1>6, <1>8, <1>10 DEF Truncate
  <2> HIDE DEF part
  <2>5. answer \in Seq(Hit) /\ Len(answer) = limit /\ \A n \in 1..limit : answer[n] = found[n]
    BY <2>1, <2>3, <2>4
  <2> QED BY <1>2, <1>7, <1>10, <2>1, <2>5 DEF Shortened
<1> QED BY <1>9, <1>10

(* The skill that has the very name comes first.                           *)
LEMMA ExactComesFirst ==
  ASSUME NEW terms \in Text, terms # None, NEW query, query = Lower(Trim(terms)),
         NEW k \in Nat, NEW index \in [1..k -> Hit],
         NEW answer, answer = Answer(terms, None, index),
         NEW i \in DOMAIN answer, NEW j \in DOMAIN answer, i < j, answer[j].name = query
  PROVE  answer[i].name = query
<1> DEFINE size == Cardinality(Ranked(query, index))
           ord == Ranking(query, index)
<1>1. query \in Text
  BY LowerIsText, TrimIsText
<1>2. /\ size \in Nat /\ ord \in [1..size -> Ranked(query, index)]
      /\ \A m, n \in 1..size : m < n => Score(query, index[ord[m]]) >= Score(query, index[ord[n]])
  BY <1>1, RankIsSorted
<1>3. /\ answer \in Seq(Hit) /\ Len(answer) = Shortened(size, None)
      /\ \A n \in 1..Len(answer) : answer[n].name = index[ord[n]].name
  BY AnswerIsRanking DEF SameVersion
<1>4. Ranked(query, index) \subseteq 1..k
  BY DEF Ranked
<1> HIDE DEF size, ord
<1>5. i \in 1..size /\ j \in 1..size /\ answer[i].name = index[ord[i]].name
                                   /\ answer[j].name = index[ord[j]].name
  BY <1>3 DEF Shortened
<1>6. index[ord[i]] \in Hit /\ index[ord[j]] \in Hit
  BY <1>2, <1>4, <1>5
<1>7. /\ Score(query, index[ord[i]]) \in 0..4 /\ Score(query, index[ord[j]]) \in 0..4
      /\ Score(query, index[ord[i]]) = 4 <=> index[ord[i]].name = query
      /\ Score(query, index[ord[j]]) = 4 <=> index[ord[j]].name = query
  BY <1>1, <1>6, Grades
<1>8. Score(query, index[ord[i]]) >= Score(query, index[ord[j]])
  BY <1>2, <1>5
<1> QED BY <1>5, <1>7, <1>8

(* The number of entries that a limit leaves.                              *)
LEMMA Shortening ==
  ASSUME NEW size \in Nat, NEW limit \in Nat \cup {None}
  PROVE  /\ Shortened(size, limit) = IF limit = None THEN size ELSE Min({limit, size})
         /\ Shortened(size, limit) \in 0..size
<1>1. CASE limit = None
  BY <1>1 DEF Shortened
<1>2. CASE limit # None
  <2>1. limit \in Nat /\ {limit, size} \in SUBSET Nat /\ {limit, size} # {}
    BY <1>2
  <2>2. /\ Min({limit, size}) \in {limit, size}
        /\ \A other \in {limit, size} : Min({limit, size}) <= other
    BY <2>1, Least
  <2>3. Min({limit, size}) = IF limit >= size THEN size ELSE limit
    BY <2>1, <2>2
  <2> QED BY <1>2, <2>1, <2>3 DEF Shortened
<1> QED BY <1>1, <1>2

(* What SearchFindsTheBest says of one search.                             *)
Due(terms, index, matching, answer, match) ==
    /\ \A n \in DOMAIN answer : /\ SameVersion(answer[n], index[match[n]])
                                /\ Unambiguous(index) => answer[n] = index[match[n]]
    /\ terms # None =>
         \A n \in DOMAIN answer : \A i \in matching \ {match[m] : m \in 1..n} :
            AsGood(terms, answer[n].name, index[i].name)

FindsTheBest(terms, limit, index) ==
    LET matching == {i \in DOMAIN index : Matches(terms, index[i])}
        answer == Answer(terms, limit, index)
    IN /\ Len(answer) = IF limit = None THEN Cardinality(matching)
                        ELSE Min({limit, Cardinality(matching)})
       /\ \E match \in Injection(DOMAIN answer, matching) :
             Due(terms, index, matching, answer, match)

(* The ranking tells which match a place is due to.                        *)
LEMMA BestAreFound ==
  ASSUME NEW terms \in Text, terms # None, NEW k \in Nat, NEW index \in [1..k -> Hit],
         NEW limit \in Nat \cup {None}
  PROVE  FindsTheBest(terms, limit, index)
<1> DEFINE query == Lower(Trim(terms))
           matching == {i \in DOMAIN index : Matches(terms, index[i])}
           answer == Answer(terms, limit, index)
           S == Ranked(query, index)
           size == Cardinality(S)
           ord == Ranking(query, index)
           match == [n \in DOMAIN answer |-> ord[n]]
           Fits(n) == /\ SameVersion(answer[n], index[ord[n]])
                      /\ Unambiguous(index) => answer[n] = index[ord[n]]
<1>1. query \in Text
  BY LowerIsText, TrimIsText
<1>2. /\ size \in Nat /\ IsFiniteSet(S) /\ ord \in [1..size -> S]
      /\ \A i \in S : \E n \in 1..size : ord[n] = i
      /\ \A m, n \in 1..size : ord[m] = ord[n] => m = n
      /\ \A m, n \in 1..size : m < n => Score(query, index[ord[m]]) >= Score(query, index[ord[n]])
  BY <1>1, RankIsSorted
<1>3. /\ answer \in Seq(Hit) /\ Len(answer) = Shortened(size, limit)
      /\ \A n \in 1..Len(answer) : Fits(n)
  BY AnswerIsRanking
<1>4. S = matching
  <2>1. ASSUME NEW i \in 1..k
        PROVE  Score(query, index[i]) > 0 <=> Within(query, index[i].name) \/ Described(query, index[i])
    BY <1>1, Grades
  <2>2. ASSUME NEW i \in 1..k PROVE Lower(index[i].name) = index[i].name
    BY NamesAreTexts DEF Hit
  <2>3. CASE query = <<>>
    BY <2>3 DEF Ranked, Matches
  <2>4. CASE query # <<>>
    BY <2>1, <2>2, <2>4 DEF Ranked, Matches
  <2> QED BY <2>3, <2>4
<1>5. \A i \in S : i \in 1..k /\ index[i] \in Hit
  BY <1>4
<1> HIDE DEF Fits, S, size, ord, query, matching, answer
<1>6. /\ Len(answer) \in 0..size /\ DOMAIN answer = 1..Len(answer)
      /\ Len(answer) = IF limit = None THEN size ELSE Min({limit, size})
  <2>1. /\ Shortened(size, limit) = IF limit = None THEN size ELSE Min({limit, size})
        /\ Shortened(size, limit) \in 0..size
    BY <1>2, Shortening
  <2>2. DOMAIN answer = 1..Len(answer)
    BY <1>3
  <2> QED BY <1>3, <2>1, <2>2
<1>7. match \in Injection(DOMAIN answer, S)
  <2>1. match \in [DOMAIN answer -> S]
    BY <1>2, <1>6
  <2>2. \A m, n \in DOMAIN answer : match[m] = match[n] => m = n
    BY <1>2, <1>6
  <2> QED BY <2>1, <2>2 DEF Injection, IsInjective
<1>8. ASSUME NEW n \in DOMAIN answer, NEW i \in S \ {match[m] : m \in 1..n}
      PROVE  AsGood(terms, answer[n].name, index[i].name)
  <2>1. n \in 1..size /\ answer[n].name = index[ord[n]].name
    <3>1. n \in 1..Len(answer) /\ Len(answer) \in 0..size
      BY <1>6
    <3>2. SameVersion(answer[n], index[ord[n]])
      BY <1>3, <3>1 DEF Fits
    <3> QED BY <1>2, <3>1, <3>2 DEF SameVersion
  <2>2. PICK m \in 1..size : ord[m] = i
    BY <1>2
  <2>3. m \notin 1..n
    <3>1. \A j \in 1..n : j \in DOMAIN answer
      BY <1>2, <1>6
    <3> QED BY <1>8, <2>2, <3>1
  <2>4. n < m
    BY <1>2, <2>1, <2>3
  <2>5. index[ord[n]] \in Hit /\ index[i] \in Hit
    BY <1>2, <1>5, <2>1
  <2>6. Score(query, index[ord[n]]) >= Score(query, index[i])
    BY <1>2, <2>1, <2>2, <2>4
  <2>7. /\ Score(query, index[ord[n]]) \in 0..4 /\ Score(query, index[i]) \in 0..4
        /\ Score(query, index[ord[n]]) = 4 <=> index[ord[n]].name = query
        /\ Score(query, index[i]) = 4 <=> index[i].name = query
        /\ Score(query, index[ord[n]]) >= 3 <=> IsPrefix(query, index[ord[n]].name)
        /\ Score(query, index[i]) >= 3 <=> IsPrefix(query, index[i].name)
        /\ Score(query, index[ord[n]]) >= 2 <=> Within(query, index[ord[n]].name)
        /\ Score(query, index[i]) >= 2 <=> Within(query, index[i].name)
    BY <1>1, <2>5, Grades
  <2>8. /\ index[i].name = query => answer[n].name = query
        /\ IsPrefix(query, index[i].name) => IsPrefix(query, answer[n].name)
        /\ Within(query, index[i].name) => Within(query, answer[n].name)
    BY <2>1, <2>6, <2>7
  <2> QED BY <2>8 DEF AsGood, query
<1>9. Due(terms, index, S, answer, match)
  <2>1. ASSUME NEW n \in DOMAIN answer
        PROVE  /\ SameVersion(answer[n], index[match[n]])
               /\ Unambiguous(index) => answer[n] = index[match[n]]
    <3>1. n \in 1..Len(answer) /\ match[n] = ord[n]
      BY <1>6
    <3>2. Fits(n)
      BY <1>3, <3>1
    <3> QED BY <3>1, <3>2 DEF Fits
  <2> HIDE DEF match
  <2> QED BY <1>8, <2>1 DEF Due
<1> HIDE DEF match
<1>10. /\ Len(answer) = IF limit = None THEN Cardinality(S) ELSE Min({limit, Cardinality(S)})
       /\ \E f \in Injection(DOMAIN answer, S) : Due(terms, index, S, answer, f)
  BY <1>6, <1>7, <1>9 DEF size
<1> QED BY <1>4, <1>10 DEF FindsTheBest, matching, answer

(* Without terms every entry is one, in the order of the index.            *)
LEMMA AllAreFound ==
  ASSUME NEW terms, terms = None, NEW k \in Nat, NEW index \in [1..k -> Hit],
         NEW limit \in Nat \cup {None}
  PROVE  FindsTheBest(terms, limit, index)
<1> DEFINE matching == {i \in DOMAIN index : Matches(terms, index[i])}
           answer == Answer(terms, limit, index)
           match == [n \in DOMAIN answer |-> n]
<1>1. matching = 1..k
  BY DEF Matches
<1>2. Cardinality(matching) = k
  <2>1. k \in Int /\ 1 \in Int
    OBVIOUS
  <2>2. Cardinality(1..k) = IF 1 > k THEN 0 ELSE k - 1 + 1
    BY <2>1, FS_Interval
  <2>3. Cardinality(1..k) = k
    BY <2>2
  <2> HIDE DEF matching
  <2> QED BY <1>1, <2>3
<1>3. index \in Seq(Hit) /\ Len(index) = k
  OBVIOUS
<1>4. /\ Len(answer) = Shortened(k, limit) /\ DOMAIN answer = 1..Len(answer)
      /\ \A n \in 1..Len(answer) : answer[n] = index[n]
  <2>1. answer = Truncate(index, limit)
    BY DEF Answer
  <2>2. CASE limit = None \/ limit >= k
    BY <1>3, <2>1, <2>2 DEF Truncate, Shortened
  <2>3. CASE ~(limit = None \/ limit >= k)
    <3>1. limit \in Nat /\ limit < k
      BY <2>3
    <3> DEFINE part == SubSeq(index, 1, limit)
    <3>2. 1 \in Int /\ limit \in Int /\ \A n \in 1..limit : index[n] \in Hit
      BY <3>1
    <3>3. /\ part \in Seq(Hit) /\ Len(part) = IF 1 <= limit THEN limit - 1 + 1 ELSE 0
          /\ \A n \in 1..(limit - 1 + 1) : part[n] = index[1 + n - 1]
      BY <3>2, SubSeqProperties
    <3>4. answer = part
      BY <1>3, <2>1, <2>3 DEF Truncate
    <3> HIDE DEF part, answer
    <3>5. answer \in Seq(Hit) /\ Len(answer) = limit /\ \A n \in 1..limit : answer[n] = index[n]
      BY <3>1, <3>3, <3>4
    <3> QED BY <2>3, <3>1, <3>5 DEF Shortened
  <2> QED BY <2>2, <2>3
<1> HIDE DEF matching, answer
<1>5. /\ Len(answer) \in 0..k
      /\ Len(answer) = IF limit = None THEN k ELSE Min({limit, k})
  BY <1>4, Shortening
<1>6. match \in Injection(DOMAIN answer, matching)
  <2>1. \A n \in DOMAIN answer : n \in matching
    BY <1>1, <1>4, <1>5
  <2>2. match \in [DOMAIN answer -> matching]
    BY <2>1
  <2> QED BY <2>2 DEF Injection, IsInjective
<1>7. Due(terms, index, matching, answer, match)
  BY <1>4 DEF Due, SameVersion
<1> HIDE DEF match
<1>8. /\ Len(answer) = IF limit = None THEN Cardinality(matching)
                       ELSE Min({limit, Cardinality(matching)})
      /\ \E f \in Injection(DOMAIN answer, matching) : Due(terms, index, matching, answer, f)
  BY <1>2, <1>5, <1>6, <1>7
<1> QED BY <1>8 DEF FindsTheBest, matching, answer

-----------------------------------------------------------------------------
(* The indexes of a registry.  At any time only finitely many versions are *)
(* published, so an index is a sequence of finitely many hits.             *)

Published == {key \in Keys : versions[key] # None}

LEMMA FiniteStep ==
  ASSUME TypeOK, IsFiniteSet(Published), [Next]_vars
  PROVE  IsFiniteSet(Published')
<1>1. ASSUME NEW k \in Skills, NEW v \in Versions, NEW visibility \in Visibilities,
             NEW row \in NewRow, Publish(k, v, visibility, row)
      PROVE  IsFiniteSet(Published')
  <2>1. Published' \subseteq Published \cup {<<k, v>>}
    BY <1>1 DEF Publish, Published, TypeOK, Keys
  <2>2. IsFiniteSet(Published \cup {<<k, v>>})
    BY FS_AddElement
  <2> QED BY <2>1, <2>2, FS_Subset
<1>2. ASSUME NEW k \in Skills, NEW v \in Versions, NEW mark \in Reasons \cup {None},
             Mark(k, v, mark)
      PROVE  IsFiniteSet(Published')
  <2>1. Published' \subseteq Published
    BY <1>2 DEF Mark, Published, TypeOK, Keys
  <2> QED BY <2>1, FS_Subset
<1>3. CASE UNCHANGED vars
  BY <1>3 DEF Published, vars
<1> QED BY <1>1, <1>2, <1>3 DEF Next

IndexInv == TypeOK /\ IsFiniteSet(Published)

(* At any time finitely many versions are published, so every list that an *)
(* index request can be answered with is finite.                           *)
THEOREM PublishedIsFinite == Spec => []IndexInv
<1>1. Init => IndexInv
  <2> SUFFICES ASSUME Init PROVE IndexInv
    OBVIOUS
  <2>1. TypeOK
    BY DEF Init, TypeOK
  <2>2. Published = {}
    BY DEF Init, Published
  <2> QED BY <2>1, <2>2, FS_EmptySet DEF IndexInv
<1>2. IndexInv /\ [Next]_vars => IndexInv'
  BY TypeStep, FiniteStep DEF IndexInv
<1> QED BY <1>1, <1>2, PTL DEF Spec

LEMMA IndexesAreHits ==
  ASSUME IndexInv, NEW scope, NEW index \in Indexes(scope)
  PROVE  \E k \in Nat : index \in [1..k -> Hit]
<1> DEFINE listed == ListedKeys(scope)
           k == Cardinality(listed)
<1>1. listed \in SUBSET Keys /\ listed \subseteq Published
  BY DEF ListedKeys, Listed, Published, Keys
<1>2. k \in Nat
  BY <1>1, FS_Subset, FS_CardinalityType DEF IndexInv
<1>3. PICK keys \in SetToSeqs(listed) : index = [i \in DOMAIN keys |-> HitOf(keys[i][1], keys[i][2])]
  BY DEF Indexes
<1>4. keys \in [1..k -> listed]
  BY <1>3 DEF SetToSeqs
<1>5. ASSUME NEW key \in listed PROVE HitOf(key[1], key[2]) \in Hit
  <2>1. /\ key \in Keys /\ key = <<key[1], key[2]>> /\ key[1] \in Skills /\ key[2] \in Versions
        /\ versions[key] # None
    BY <1>1 DEF Published, Keys
  <2>2. versions[key] \in VersionRow
    BY <2>1 DEF IndexInv, TypeOK
  <2>3. versions[key].digest \in Digests /\ versions[key].payload.shown \in Text \cup {None}
    BY <2>2, PayloadsAssumption DEF VersionRow, Text
  <2>4. key[1][2] \in Name
    BY <2>1, SkillsAssumption DEF Name
  <2> QED BY <2>1, <2>3, <2>4 DEF HitOf, Hit
<1> HIDE DEF listed, k
<1>6. index \in [1..k -> Hit]
  BY <1>3, <1>4, <1>5
<1> QED BY <1>2, <1>6

-----------------------------------------------------------------------------
(* The theorems                                                            *)

(* Every place of an answer is due to a match of its own, as many as there *)
(* are or the limit admits, each at least as good as those after it and    *)
(* those left out; and it shows that match, or one of the same name and    *)
(* version where there are several.                                        *)
THEOREM BestFound == Spec => []SearchFindsTheBest
<1>1. IndexInv => SearchFindsTheBest
  <2> SUFFICES ASSUME IndexInv, NEW scope \in Scopes, NEW terms \in Queries, NEW limit \in Limits,
                      NEW index \in Indexes(scope)
               PROVE  FindsTheBest(terms, limit, index)
    BY DEF SearchFindsTheBest, FindsTheBest, Due
  <2>1. terms \in Text \cup {None} /\ limit \in Nat \cup {None}
    BY RequestsAssumption DEF Text
  <2>2. PICK k \in Nat : index \in [1..k -> Hit]
    BY IndexesAreHits
  <2>3. CASE terms = None
    BY <2>1, <2>2, <2>3, AllAreFound
  <2>4. CASE terms # None
    BY <2>1, <2>2, <2>4, BestAreFound
  <2> QED BY <2>3, <2>4
<1> QED BY <1>1, PublishedIsFinite, PTL

(* A skill that has the very name asked for stands before all others.      *)
THEOREM ExactFirst == Spec => []ExactNameFirst
<1>1. IndexInv => ExactNameFirst
  <2> SUFFICES ASSUME IndexInv, NEW scope \in Scopes, NEW terms \in Queries \ {None},
                      NEW index \in Indexes(scope)
               PROVE  LET answer == Answer(terms, None, index)
                          Exact(i) == answer[i].name = Lower(Trim(terms))
                      IN \A i, j \in DOMAIN answer : i < j /\ Exact(j) => Exact(i)
    BY DEF ExactNameFirst
  <2>1. terms \in Text /\ terms # None
    BY RequestsAssumption DEF Text
  <2>2. PICK k \in Nat : index \in [1..k -> Hit]
    BY IndexesAreHits
  <2> QED BY <2>1, <2>2, ExactComesFirst
<1> QED BY <1>1, PublishedIsFinite, PTL
==================================================================================
