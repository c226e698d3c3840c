--------------------------- MODULE KernelImageProofs ---------------------------
(***************************************************************************)
(* What holds of the kernel's image for every image, every request and     *)
(* every running kernel: binary_search is correct, the symbol table owns   *)
(* its names and does what its header promises, and the slide that is      *)
(* found is the kernel's.                                                  *)
(***************************************************************************)
EXTENDS KernelSlide, FiniteSetTheorems, SequenceTheorems, TLAPS

-----------------------------------------------------------------------------
(* binary_search. *)

(* What the loop has ruled out: the key is at no index outside the range.  *)
Excluded ==
    /\ \A i \in 0 .. left - 1 : Element(i) < key
    /\ \A i \in right + 1 .. Count - 1 : key < Element(i)

Ranges ==
    /\ left \in 0 .. Count /\ right \in -1 .. Count - 1 /\ left <= right + 1
    /\ found \in {"searching", "yes", "no"}
    /\ index \in 0 .. Count

(* The search of a sorted array, whoever started it. *)
SearchInv ==
    /\ array \in Seq(Int) /\ Sorted(array) /\ key \in Int
    /\ Ranges /\ Excluded /\ Correct

LEMMA ArrayType ==
    ASSUME SearchInv
    PROVE  /\ Count \in Nat /\ key \in Int
           /\ \A i \in 0 .. Count - 1 : Element(i) \in Int
           /\ \A i, j \in 0 .. Count - 1 : i <= j => Element(i) <= Element(j)
<1>1. array \in Seq(Int) /\ Sorted(array) /\ key \in Int
    BY DEF SearchInv
<1>2. Count \in Nat /\ \A i \in 1 .. Len(array) : array[i] \in Int
    BY <1>1 DEF Count
<1>3. ASSUME NEW i \in 0 .. Count - 1 PROVE i + 1 \in 1 .. Len(array)
    BY <1>2, <1>3 DEF Count
<1>4. ASSUME NEW i \in 0 .. Count - 1, NEW j \in 0 .. Count - 1, i <= j
      PROVE  Element(i) <= Element(j)
    <2>1. i + 1 <= j + 1
        BY <1>4, <1>2
    <2> QED
        BY <1>1, <1>3, <2>1 DEF Sorted, Element
<1> QED
    BY <1>1, <1>2, <1>3, <1>4 DEF Element

(* The middle of a range inside the array is inside the array. *)
LEMMA MidInRange ==
    ASSUME SearchInv, left <= right
    PROVE  mid \in left .. right /\ mid \in 0 .. Count - 1
<1>1. Count \in Nat
    BY ArrayType
<1> QED
    BY <1>1 DEF SearchInv, Ranges, mid

LEMMA SearchStarts ==
    ASSUME NEW values \in Seq(Int), Sorted(values), NEW k \in Int,
           array' = values, key' = k, left' = 0, right' = Len(values) - 1,
           found' = "searching", index' = 0
    PROVE  SearchInv'
<1>1. Len(values) \in Nat
    OBVIOUS
<1> QED
    BY <1>1 DEF SearchInv, Ranges, Excluded, Correct, Count

LEMMA SearchTurns ==
    ASSUME SearchInv, Next
    PROVE  SearchInv' /\ array' = array /\ key' = key /\ Searching
<1>0. /\ Count \in Nat /\ key \in Int
      /\ \A i \in 0 .. Count - 1 : Element(i) \in Int
      /\ \A i, j \in 0 .. Count - 1 : i <= j => Element(i) <= Element(j)
    BY ArrayType
<1>1. array' = array /\ key' = key /\ Searching
    BY DEF Next, GoLeft, GoRight, Hit, Miss
<1>2. Count' = Count /\ \A i : Element(i)' = Element(i)
    BY <1>1 DEF Count, Element
<1>3. Ranges /\ Excluded /\ Correct
    BY DEF SearchInv
<1>4. CASE GoLeft
    <2>1. mid \in left .. right /\ mid \in 0 .. Count - 1
        BY <1>4, MidInRange DEF GoLeft
    <2>2. ASSUME NEW i \in mid .. Count - 1 PROVE key < Element(i)
        BY <1>0, <1>4, <2>1 DEF GoLeft
    <2>3. Ranges'
        BY <1>0, <1>2, <1>3, <1>4, <2>1 DEF GoLeft, Ranges
    <2>4. Excluded'
        BY <1>0, <1>1, <1>2, <1>3, <1>4, <2>1, <2>2 DEF GoLeft, Ranges, Excluded
    <2>5. Correct'
        BY <1>4, <1>2 DEF GoLeft, Correct, Searching
    <2> QED
        BY <1>1, <2>3, <2>4, <2>5 DEF SearchInv
<1>5. CASE GoRight
    <2>1. mid \in left .. right /\ mid \in 0 .. Count - 1
        BY <1>5, MidInRange DEF GoRight
    <2>2. ASSUME NEW i \in 0 .. mid PROVE Element(i) < key
        BY <1>0, <1>5, <2>1 DEF GoRight
    <2>3. Ranges'
        BY <1>0, <1>2, <1>3, <1>5, <2>1 DEF GoRight, Ranges
    <2>4. Excluded'
        BY <1>0, <1>1, <1>2, <1>3, <1>5, <2>1, <2>2 DEF GoRight, Ranges, Excluded
    <2>5. Correct'
        BY <1>5, <1>2 DEF GoRight, Correct, Searching
    <2> QED
        BY <1>1, <2>3, <2>4, <2>5 DEF SearchInv
<1>6. CASE Hit
    <2>1. mid \in 0 .. Count - 1
        BY <1>6, MidInRange DEF Hit
    <2>2. Ranges' /\ Excluded'
        BY <1>0, <1>1, <1>2, <1>3, <1>6, <2>1 DEF Hit, Ranges, Excluded
    <2>3. Correct'
        BY <1>0, <1>1, <1>2, <1>6, <2>1 DEF Hit, Correct
    <2> QED
        BY <1>1, <2>2, <2>3 DEF SearchInv
<1>7. CASE Miss
    <2>1. left = right + 1
        BY <1>0, <1>3, <1>7 DEF Miss, Ranges
    <2>2. Ranges' /\ Excluded'
        BY <1>0, <1>1, <1>2, <1>3, <1>7 DEF Miss, Ranges, Excluded
    <2>3. Correct'
        BY <1>0, <1>1, <1>2, <1>3, <1>7, <2>1 DEF Miss, Correct, Ranges, Excluded
    <2> QED
        BY <1>1, <2>2, <2>3 DEF SearchInv
<1> QED
    BY <1>1, <1>4, <1>5, <1>6, <1>7 DEF Next

LEMMA SearchStays ==
    ASSUME SearchInv, UNCHANGED searchVars
    PROVE  SearchInv'
BY DEF SearchInv, searchVars, Ranges, Excluded, Correct, Count, Element

(* Every turn of the loop that does not end it leaves at most half of it. *)
LEMMA TurnHalves ==
    ASSUME SearchInv, Next, Searching'
    PROVE  2 * (right' - left' + 1) <= right - left + 1
<1>0. left \in Int /\ right \in Int
    BY ArrayType DEF SearchInv, Ranges
<1>1. CASE GoLeft
    BY <1>0, <1>1 DEF GoLeft, mid
<1>2. CASE GoRight
    BY <1>0, <1>2 DEF GoRight, mid
<1>3. CASE Hit \/ Miss
    BY <1>3 DEF Hit, Miss, Searching
<1> QED
    BY <1>1, <1>2, <1>3 DEF Next

(* The search alone: the array and the key stay those it began with. *)
Inv == SearchInv /\ array \in Arrays /\ key \in Keys

LEMMA SearchInvariant == Spec => []Inv
<1>1. Init => Inv
    BY ArraysAssumption, KeysAssumption DEF Init, Inv, SearchInv, Ranges, Excluded, Correct, Count
<1>2. Inv /\ [Next]_vars => Inv'
    BY SearchTurns, SearchStays DEF Inv, vars, searchVars
<1> QED
    BY <1>1, <1>2, PTL DEF Spec

(***************************************************************************)
(* The result of a search is right for every sorted array, and the loop    *)
(* stays inside it: find_kext_analyzers_for_id and kernel_kext may insert  *)
(* at the index of a key that was not found.                               *)
(***************************************************************************)
THEOREM SearchCorrect == Spec => [](Correct /\ InBounds)
<1>1. Inv => Correct /\ InBounds
    BY MidInRange DEF Inv, SearchInv, InBounds
<1> QED
    BY <1>1, SearchInvariant, PTL

(* Every variable keeps its type. *)
THEOREM TypeCorrect == Spec => []TypeOK
<1>1. Inv => TypeOK
    BY DEF Inv, SearchInv, Ranges, TypeOK
<1> QED
    BY <1>1, SearchInvariant, PTL

(* Every turn of the loop that does not end it leaves at most half of it. *)
THEOREM RangeHalves == Spec => Halves
<1>1. Inv /\ [Next]_vars => [Searching /\ Searching' => 2 * (right' - left' + 1) <= right - left + 1]_vars
    BY TurnHalves DEF Inv
<1> QED
    BY <1>1, SearchInvariant, PTL DEF Spec, Halves

-----------------------------------------------------------------------------
(* The operators of Macho and SymbolTable. *)

(* A set of indices that is not empty has a first one. *)
LEMMA FirstOf ==
    ASSUME NEW n \in Nat, NEW S \in SUBSET (1 .. n), S # {}
    PROVE  /\ Min(S) \in S /\ \A j \in S : Min(S) <= j
           /\ First(S) = Min(S) /\ First(S) # NULL
<1> DEFINE below == {j \in 1 .. n : \A i \in S : j < i}
           c == Cardinality(below)
<1>1. /\ IsFiniteSet(1 .. n) /\ Cardinality(1 .. n) = n
    BY FS_Interval
<1>2. /\ IsFiniteSet(below) /\ c \in Nat
    BY <1>1, FS_Subset, FS_CardinalityType
<1>3. \A j \in below : 1 .. j \subseteq below
    OBVIOUS
<1>4. below \subseteq 1 .. c
    <2> SUFFICES ASSUME NEW j \in below PROVE j \in 1 .. c
        OBVIOUS
    <2>1. Cardinality(1 .. j) = j
        BY FS_Interval
    <2> QED
        BY <1>2, <1>3, <2>1, FS_Subset
<1>5. Cardinality(1 .. c) = c /\ IsFiniteSet(1 .. c)
    BY <1>2, FS_Interval
<1>6. below = 1 .. c
    BY <1>4, <1>5, FS_Subset
<1> HIDE DEF c, below
<1>7. c + 1 \in S /\ \A j \in S : c + 1 <= j
    <2>1. \A j \in S : c + 1 <= j
        <3> SUFFICES ASSUME NEW j \in S, j <= c PROVE FALSE
            BY <1>2
        <3>1. j \in below
            BY <1>2, <1>6
        <3> QED
            BY <3>1 DEF below
    <2>2. c + 1 \in 1 .. n
        <3>1. PICK j \in S : c + 1 <= j
            BY <2>1
        <3>2. j \in 1 .. n
            OBVIOUS
        <3> QED
            BY <1>2, <3>1, <3>2
    <2>3. c + 1 \notin below
        BY <1>2, <1>6
    <2>4. PICK j \in S : ~ (c + 1 < j)
        BY <2>2, <2>3 DEF below
    <2> QED
        BY <1>2, <2>1, <2>4
<1>8. \E x \in S : \A y \in S : x <= y
    BY <1>7
<1>9. Min(S) \in S /\ \A y \in S : Min(S) <= y
    BY <1>8 DEF Min
<1>10. Min(S) \in 1 .. n
    BY <1>9
<1>11. First(S) = Min(S)
    BY DEF First
<1> QED
    BY <1>9, <1>10, <1>11 DEF NULL

(* The minimum of a set of integers is the element that is below all others. *)
LEMMA MinIs ==
    ASSUME NEW S \in SUBSET Int, NEW x \in S, \A y \in S : x <= y
    PROVE  Min(S) = x
<1>1. Min(S) \in S /\ \A y \in S : Min(S) <= y
    BY DEF Min
<1>2. Min(S) \in Int /\ x \in Int
    BY <1>1
<1>3. Min(S) <= x /\ x <= Min(S)
    BY <1>1
<1> QED
    BY <1>2, <1>3

(* The permutation visits the values of an array, all of them, in order. *)
Onto(order, n) == \A k \in 1 .. n : \E i \in 1 .. n : order[i] + 1 = k
Orders(order, n, values) ==
    /\ order \in [1 .. n -> 0 .. n - 1] /\ Onto(order, n)
    /\ Sorted([i \in 1 .. n |-> values[order[i] + 1]])

LEMMA SortedOrders ==
    ASSUME NEW values \in Seq(Int), NEW order \in SortOrders(values)
    PROVE  Orders(order, Len(values), values)
<1> DEFINE n == Len(values)
<1>1. n \in Nat
    OBVIOUS
<1>2. /\ order \in [1 .. n -> 0 .. n - 1] /\ IsInjective(order)
      /\ Sorted([i \in 1 .. n |-> values[order[i] + 1]])
    BY DEF SortOrders
<1> HIDE DEF n
<1>3. /\ IsFiniteSet(1 .. n) /\ Cardinality(1 .. n) = n
      /\ IsFiniteSet(0 .. n - 1) /\ Cardinality(0 .. n - 1) = n
    <2>1. /\ IsFiniteSet(1 .. n)
          /\ Cardinality(1 .. n) = IF 1 > n THEN 0 ELSE n - 1 + 1
        BY <1>1, FS_Interval
    <2>2. /\ IsFiniteSet(0 .. n - 1)
          /\ Cardinality(0 .. n - 1) = IF 0 > n - 1 THEN 0 ELSE (n - 1) - 0 + 1
        BY <1>1, FS_Interval
    <2> QED
        BY <1>1, <2>1, <2>2
<1>4. order \in Injection(1 .. n, 0 .. n - 1)
    BY <1>2 DEF Injection, IsInjective
<1>5. order \in Surjection(1 .. n, 0 .. n - 1)
    BY <1>3, <1>4, FS_Injection
<1>6. ASSUME NEW k \in 1 .. n PROVE \E i \in 1 .. n : order[i] + 1 = k
    <2>1. k - 1 \in 0 .. n - 1
        BY <1>1
    <2>2. PICK i \in 1 .. n : order[i] = k - 1
        BY <1>5, <2>1 DEF Surjection
    <2> QED
        BY <2>2
<1> QED
    BY <1>2, <1>6 DEF Orders, Onto, n

(* What the binary search sees of the values: all of them, in order. *)
Sees(v, order, n, values) ==
    /\ v \in Seq(Int) /\ Sorted(v) /\ Len(v) = n
    /\ \A i \in 1 .. n : order[i] + 1 \in 1 .. n /\ v[i] = values[order[i] + 1]
    /\ \A k \in 1 .. n : \E i \in 1 .. n : v[i] = values[k]

LEMMA OrderedValues ==
    ASSUME NEW values \in Seq(Int), NEW n \in 0 .. Len(values), NEW order,
           Orders(order, n, values), NEW v, v = [i \in 1 .. n |-> values[order[i] + 1]]
    PROVE  Sees(v, order, n, values)
<1>0. Len(values) \in Nat /\ n \in Nat /\ n <= Len(values)
    OBVIOUS
<1>1. order \in [1 .. n -> 0 .. n - 1] /\ n \in Nat
    BY <1>0 DEF Orders
<1>2. \A i \in 1 .. n : order[i] + 1 \in 1 .. n
    BY <1>1
<1>3. \A i \in 1 .. n : v[i] = values[order[i] + 1] /\ v[i] \in Int
    <2>1. \A k \in 1 .. n : values[k] \in Int
        BY <1>0
    <2> QED
        BY <1>2, <2>1
<1>4. v \in [1 .. n -> Int]
    BY <1>3
<1>5. v \in Seq(Int) /\ Len(v) = n
    BY <1>1, <1>4
<1> QED
    BY <1>1, <1>2, <1>3, <1>5 DEF Orders, Onto, Sees

(* array_insert: what comes after the place moves up. *)
MovedUp(t, s, i, x) ==
    \A j \in 1 .. Len(s) + 1 :
        t[j] = IF j <= i THEN s[j] ELSE IF j = i + 1 THEN x ELSE s[j - 1]

LEMMA InsertedElements ==
    ASSUME NEW S, NEW s \in Seq(S), NEW x \in S, NEW i \in 0 .. Len(s)
    PROVE  /\ InsertedAt(s, i, x) \in Seq(S) /\ Len(InsertedAt(s, i, x)) = Len(s) + 1
           /\ MovedUp(InsertedAt(s, i, x), s, i, x)
<1> DEFINE a == SubSeq(s, 1, i)
           b == a \o <<x>>
           c == SubSeq(s, i + 1, Len(s))
<1>0. Len(s) \in Nat /\ i \in Nat /\ \A j \in 1 .. Len(s) : s[j] \in S
    OBVIOUS
<1>1. /\ a \in Seq(S) /\ Len(a) = i
      /\ \A j \in 1 .. i : a[j] = s[j]
    <2>1. \A j \in 1 .. i : s[j] \in S
        BY <1>0
    <2>2. /\ a \in Seq(S) /\ Len(a) = IF 1 <= i THEN i - 1 + 1 ELSE 0
          /\ \A j \in 1 .. i - 1 + 1 : a[j] = s[1 + j - 1]
        BY <1>0, <2>1, SubSeqProperties
    <2> QED
        BY <1>0, <2>2
<1>2. /\ c \in Seq(S) /\ Len(c) = Len(s) - i
      /\ \A j \in 1 .. Len(s) - i : c[j] = s[i + j]
    <2>1. \A j \in i + 1 .. Len(s) : s[j] \in S
        BY <1>0
    <2>2. /\ c \in Seq(S)
          /\ Len(c) = IF i + 1 <= Len(s) THEN Len(s) - (i + 1) + 1 ELSE 0
          /\ \A j \in 1 .. Len(s) - (i + 1) + 1 : c[j] = s[i + 1 + j - 1]
        BY <1>0, <2>1, SubSeqProperties
    <2> QED
        BY <1>0, <2>2
<1> HIDE DEF a, c
<1>3. /\ b \in Seq(S) /\ Len(b) = i + 1
      /\ \A j \in 1 .. i + 1 : b[j] = IF j <= i THEN a[j] ELSE x
    <2>1. <<x>> \in Seq(S) /\ Len(<<x>>) = 1 /\ <<x>>[1] = x
        OBVIOUS
    <2>2. /\ b \in Seq(S) /\ Len(b) = Len(a) + Len(<<x>>)
          /\ \A j \in 1 .. Len(a) + Len(<<x>>) :
                b[j] = IF j <= Len(a) THEN a[j] ELSE <<x>>[j - Len(a)]
        BY <1>1, <2>1, ConcatProperties
    <2>3. \A j \in 1 .. i + 1 : ~ (j <= i) => j - i = 1
        BY <1>0
    <2> QED
        BY <1>0, <1>1, <2>1, <2>2, <2>3
<1> HIDE DEF b
<1>4. InsertedAt(s, i, x) = b \o c
    BY DEF InsertedAt, a, b, c
<1>5. /\ b \o c \in Seq(S) /\ Len(b \o c) = Len(b) + Len(c)
      /\ \A j \in 1 .. Len(b) + Len(c) : (b \o c)[j] = IF j <= Len(b) THEN b[j] ELSE c[j - Len(b)]
    BY <1>2, <1>3, ConcatProperties, Zenon
<1>6. ASSUME NEW j \in 1 .. Len(s) + 1
      PROVE  (b \o c)[j] = IF j <= i THEN s[j] ELSE IF j = i + 1 THEN x ELSE s[j - 1]
    <2>1. CASE j <= i + 1
        BY <1>0, <1>1, <1>2, <1>3, <1>5, <2>1
    <2>2. CASE ~ (j <= i + 1)
        <3>1. /\ j - (i + 1) \in 1 .. Len(s) - i /\ i + (j - (i + 1)) = j - 1
              /\ ~ (j <= i) /\ j # i + 1
            BY <1>0, <2>2
        <3>2. (b \o c)[j] = c[j - (i + 1)]
            BY <1>0, <1>2, <1>3, <1>5, <2>2
        <3>3. c[j - (i + 1)] = s[j - 1]
            BY <1>2, <3>1
        <3> QED
            BY <3>1, <3>2, <3>3
    <2> QED
        BY <2>1, <2>2
<1> QED
    BY <1>0, <1>2, <1>3, <1>4, <1>5, <1>6 DEF MovedUp

(* A new index in a permutation. *)
LEMMA InsertedPermutation ==
    ASSUME NEW n \in Nat, NEW i \in 0 .. n, NEW order \in [1 .. n -> 0 .. n - 1],
           Onto(order, n)
    PROVE  /\ InsertedAt(order, i, n) \in [1 .. n + 1 -> 0 .. (n + 1) - 1]
           /\ \A j \in 1 .. n + 1 :
                 InsertedAt(order, i, n)[j] =
                    IF j <= i THEN order[j] ELSE IF j = i + 1 THEN n ELSE order[j - 1]
           /\ Onto(InsertedAt(order, i, n), n + 1)
<1> DEFINE o == InsertedAt(order, i, n)
<1>1. order \in Seq(0 .. n) /\ Len(order) = n
    <2>1. order \in [1 .. n -> 0 .. n]
        OBVIOUS
    <2> QED
        BY <2>1
<1>2. /\ o \in Seq(0 .. n) /\ Len(o) = n + 1
      /\ \A j \in 1 .. n + 1 :
            o[j] = IF j <= i THEN order[j] ELSE IF j = i + 1 THEN n ELSE order[j - 1]
    <2>1. n \in 0 .. n /\ i \in 0 .. Len(order)
        BY <1>1
    <2>2. o \in Seq(0 .. n) /\ Len(o) = Len(order) + 1 /\ MovedUp(o, order, i, n)
        <3>1. order \in Seq(0 .. n)
            BY <1>1
        <3> HIDE DEF o
        <3>2. InsertedAt(order, i, n) \in Seq(0 .. n)
              /\ Len(InsertedAt(order, i, n)) = Len(order) + 1
              /\ MovedUp(InsertedAt(order, i, n), order, i, n)
            BY <2>1, <3>1, InsertedElements, Zenon
        <3> QED
            BY <3>2 DEF o
    <2> HIDE DEF o
    <2> QED
        BY <1>1, <2>2 DEF MovedUp
<1> HIDE DEF o
<1>3. o \in [1 .. n + 1 -> 0 .. (n + 1) - 1]
    <2>1. o \in [1 .. n + 1 -> 0 .. n]
        <3>1. o \in [1 .. Len(o) -> 0 .. n]
            BY <1>2, LenProperties
        <3> QED
            BY <1>2, <3>1
    <2>2. (n + 1) - 1 = n
        OBVIOUS
    <2> QED
        BY <2>1, <2>2
<1>4. ASSUME NEW k \in 1 .. n + 1 PROVE \E j \in 1 .. n + 1 : o[j] + 1 = k
    <2>1. CASE k = n + 1
        <3>1. i + 1 \in 1 .. n + 1 /\ ~ (i + 1 <= i)
            OBVIOUS
        <3>2. o[i + 1] = n
            BY <1>2, <3>1
        <3> QED
            BY <2>1, <3>1, <3>2
    <2>2. CASE k # n + 1
        <3>1. k \in 1 .. n
            BY <2>2
        <3>2. PICK j \in 1 .. n : order[j] + 1 = k
            BY <3>1 DEF Onto
        <3>3. CASE j <= i
            <4>1. j \in 1 .. n + 1 /\ o[j] = order[j]
                BY <1>2, <3>3
            <4> QED
                BY <3>2, <4>1
        <3>4. CASE ~ (j <= i)
            <4>1. j + 1 \in 1 .. n + 1 /\ ~ (j + 1 <= i) /\ j + 1 # i + 1 /\ (j + 1) - 1 = j
                BY <3>4
            <4>2. o[j + 1] = order[j]
                BY <1>2, <4>1
            <4> QED
                BY <3>2, <4>1, <4>2
        <3> QED
            BY <3>3, <3>4
    <2> QED
        BY <2>1, <2>2
<1> QED
    BY <1>2, <1>3, <1>4 DEF o, Onto

(* A new value between those that are not greater and those that are not less. *)
LEMMA InsertedSorted ==
    ASSUME NEW n \in Nat, NEW i \in 0 .. n, NEW x \in Int,
           NEW w \in [1 .. n -> Int], Sorted(w),
           \A k \in 1 .. i : w[k] <= x, \A k \in i + 1 .. n : x <= w[k],
           NEW v \in [1 .. n + 1 -> Int], MovedUp(v, w, i, x)
    PROVE  Sorted(v)
<1>4. Len(v) = n + 1 /\ Len(w) = n
    OBVIOUS
<1>6. \A j \in 1 .. n + 1 :
         v[j] = IF j <= i THEN w[j] ELSE IF j = i + 1 THEN x ELSE w[j - 1]
    BY <1>4 DEF MovedUp
<1> SUFFICES ASSUME NEW j \in 1 .. n + 1, NEW k \in 1 .. n + 1, j <= k PROVE v[j] <= v[k]
    BY <1>4 DEF Sorted
<1>5. \A a, b \in 1 .. n : a <= b => w[a] <= w[b]
    BY <1>4 DEF Sorted
<1>1. CASE k <= i
    <2>1. v[j] = w[j] /\ v[k] = w[k] /\ j \in 1 .. n /\ k \in 1 .. n
        BY <1>6, <1>1
    <2> QED
        BY <1>5, <2>1
<1>2. CASE k = i + 1
    <2>1. v[k] = x
        BY <1>6, <1>2
    <2>2. CASE j <= i
        <3>1. v[j] = w[j] /\ j \in 1 .. i
            BY <1>6, <2>2
        <3> QED
            BY <2>1, <3>1
    <2>3. CASE j = i + 1
        BY <1>2, <2>1, <2>3
    <2> QED
        BY <1>2, <2>2, <2>3
<1>3. CASE ~ (k <= i + 1)
    <2>1. k - 1 \in 1 .. n /\ k - 1 \in i + 1 .. n /\ v[k] = w[k - 1] /\ w[k - 1] \in Int
        BY <1>6, <1>3
    <2>2. CASE j <= i
        <3>1. v[j] = w[j] /\ j \in 1 .. n /\ j <= k - 1
            BY <1>6, <1>3, <2>2
        <3> QED
            BY <1>5, <2>1, <3>1
    <2>3. CASE j = i + 1
        <3>1. v[j] = x
            BY <1>6, <2>3
        <3> QED
            BY <2>1, <3>1
    <2>4. CASE ~ (j <= i + 1)
        <3>1. v[j] = w[j - 1] /\ j - 1 \in 1 .. n /\ j - 1 <= k - 1
            BY <1>6, <2>4
        <3> QED
            BY <1>5, <2>1, <3>1
    <2> QED
        BY <2>2, <2>3, <2>4
<1> QED
    BY <1>1, <1>2, <1>3

(* A new value, inserted where the binary search says, keeps the order. *)
LEMMA InsertedOrders ==
    ASSUME NEW values \in Seq(Int), NEW n \in 0 .. Len(values), NEW order,
           Orders(order, n, values), NEW i \in 0 .. n,
           NEW new \in Seq(Int), Len(new) = n + 1, \A k \in 1 .. n : new[k] = values[k],
           \A k \in 1 .. i : values[order[k] + 1] <= new[n + 1],
           \A k \in i + 1 .. n : new[n + 1] <= values[order[k] + 1]
    PROVE  Orders(InsertedAt(order, i, n), n + 1, new)
<1> DEFINE o == InsertedAt(order, i, n)
           w == [j \in 1 .. n |-> values[order[j] + 1]]
           v == [j \in 1 .. n + 1 |-> new[o[j] + 1]]
<1>1. Len(values) \in Nat /\ n \in Nat
    OBVIOUS
<1>2. order \in [1 .. n -> 0 .. n - 1] /\ Onto(order, n)
    BY DEF Orders
<1>3. /\ o \in [1 .. n + 1 -> 0 .. (n + 1) - 1]
      /\ \A j \in 1 .. n + 1 :
            o[j] = IF j <= i THEN order[j] ELSE IF j = i + 1 THEN n ELSE order[j - 1]
      /\ Onto(o, n + 1)
    BY <1>1, <1>2, InsertedPermutation, Zenon
<1>4. /\ w \in Seq(Int) /\ Sorted(w) /\ Len(w) = n
      /\ \A j \in 1 .. n : order[j] + 1 \in 1 .. n /\ w[j] = values[order[j] + 1]
    <2>1. w = [j \in 1 .. n |-> values[order[j] + 1]]
        OBVIOUS
    <2> HIDE DEF w
    <2>2. Sees(w, order, n, values)
        BY <2>1, OrderedValues, Zenon
    <2> QED
        BY <2>2 DEF Sees
<1> HIDE DEF o, w
<1>5. w \in [1 .. n -> Int]
    BY <1>1, <1>4
<1>6. new[n + 1] \in Int
    BY <1>1
<1>7. /\ \A k \in 1 .. i : w[k] <= new[n + 1]
      /\ \A k \in i + 1 .. n : new[n + 1] <= w[k]
    <2>1. \A k \in 1 .. i : k \in 1 .. n
        BY <1>1
    <2>2. \A k \in i + 1 .. n : k \in 1 .. n
        BY <1>1
    <2> QED
        BY <1>4, <2>1, <2>2
<1>8. /\ v \in [1 .. n + 1 -> Int]
      /\ \A j \in 1 .. n + 1 :
            v[j] = IF j <= i THEN w[j] ELSE IF j = i + 1 THEN new[n + 1] ELSE w[j - 1]
    <2> SUFFICES ASSUME NEW j \in 1 .. n + 1
                 PROVE  /\ v[j] \in Int
                        /\ v[j] = IF j <= i THEN w[j]
                                  ELSE IF j = i + 1 THEN new[n + 1] ELSE w[j - 1]
        OBVIOUS
    <2>1. CASE j <= i
        <3>1. o[j] = order[j] /\ j \in 1 .. n
            BY <1>1, <1>3, <2>1
        <3>2. v[j] = w[j]
            <4>1. v[j] = new[o[j] + 1] /\ w[j] = values[order[j] + 1] /\ order[j] + 1 \in 1 .. n
                BY <1>4, <3>1
            <4> QED
                BY <1>1, <3>1, <4>1
        <3> QED
            BY <1>5, <2>1, <3>1, <3>2
    <2>2. CASE j = i + 1
        <3>1. o[j] = n /\ ~ (j <= i)
            BY <1>1, <1>3, <2>2
        <3> QED
            BY <1>6, <2>2, <3>1
    <2>3. CASE ~ (j <= i + 1)
        <3>1. j - 1 \in 1 .. n /\ ~ (j <= i) /\ j # i + 1
            BY <1>1, <2>3
        <3>2. o[j] = order[j - 1]
            BY <1>3, <3>1
        <3>3. v[j] = w[j - 1]
            <4>1. order[j - 1] + 1 \in 1 .. n /\ w[j - 1] = values[order[j - 1] + 1]
                BY <1>4, <3>1
            <4>2. new[order[j - 1] + 1] = values[order[j - 1] + 1]
                BY <4>1
            <4> QED
                BY <3>2, <4>1, <4>2
        <3> QED
            BY <1>5, <3>1, <3>3
    <2> QED
        BY <1>1, <2>1, <2>2, <2>3
<1> HIDE DEF v
<1>9. MovedUp(v, w, i, new[n + 1])
    BY <1>4, <1>8 DEF MovedUp
<1>10. v \in [1 .. n + 1 -> Int]
    BY <1>8
<1>11. Sorted(v)
    BY <1>1, <1>4, <1>5, <1>6, <1>7, <1>9, <1>10, InsertedSorted, Zenon
<1> QED
    BY <1>3, <1>11 DEF Orders, o, v

-----------------------------------------------------------------------------
(* The inductive invariant of the symbol table. *)

Reading == {"none", "allocate", "collect", "out_of_memory"}
Calls == {"symbol", "by_name", "size", "end", "address", "by_address",
          "add", "add_name", "add_address"}

TableType ==
    [count : Nat, symbol : Seq(Int), address : Seq(Int),
     sort_symbol : Seq(Int), sort_address : Seq(Int), segment : {<<>>, SegmentBounds}]

(* What the variables hold. *)
Types ==
    /\ image \in Images /\ table \in TableType
    /\ strings \in Nat /\ noted \in [symbol : Nat, end : Int]
    /\ request \in Requests \cup {NoRequest}
    /\ pc \in Reading \cup Calls \cup {"ready"}

(* Which request is served where. *)
Served ==
    /\ pc \in Reading \cup {"ready"} => request = NoRequest
    /\ pc \in {"symbol", "by_name", "size"} => request.what = "symbol"
    /\ pc \in {"address", "by_address"} => request.what = "address"
    /\ pc \in {"add", "add_name", "add_address"} => request.what = "add"
    /\ pc = "end" => request.what \in {"symbol", "address"}
    /\ pc \in {"none", "allocate", "ready"} => noted = Nothing

(* The names are counted, and there are arrays to hold them. *)
Owned ==
    /\ NamesOwned
    /\ pc \in {"collect", "add_address"} => {"symbol", "address"} \subseteq allocated

Lengths ==
    LET length == table.count + (IF pc = "add_address" THEN 1 ELSE 0) IN
       Len(table.symbol) = length /\ Len(table.address) = length

(* How much of the image a table has that is being built. *)
Collected ==
    /\ pc = "none" => table = EmptyTable
    /\ pc = "allocate" => table = [EmptyTable EXCEPT !.segment = SegmentBounds]
    /\ pc \in {"allocate", "collect"} => symtab # NULL
    /\ pc = "collect" =>
          /\ table.segment = SegmentBounds
          /\ Entries(table) = {[symbol |-> Name(i), address |-> Value(i)] :
                                  i \in {j \in Wanted : j <= noted.symbol}}

(* The permutations sort the arrays; that of the addresses is extended last. *)
Ordered ==
    Built => /\ Orders(table.sort_symbol, Len(table.symbol), table.symbol)
             /\ Orders(table.sort_address, table.count, table.address)
             /\ table.segment = SegmentBounds

(* What is searched, and for what. *)
Searched ==
    /\ SearchInv
    /\ pc \in {"by_name", "add_name"} => array = Names /\ key = request.symbol
    /\ pc \in {"by_address", "add_address"} => array = Addresses /\ key = request.address
    /\ pc = "end" =>
          /\ array = Addresses
          /\ key = 1 + (IF request.what = "symbol" THEN AddressFound ELSE request.address)

Holds(i, a) == SegmentBounds[i][1] <= a /\ a < SegmentBounds[i][2]
EndsWith(a, end) == \E i \in Segments(image) : Holds(i, a) /\ end = SegmentBounds[i][2]

(* What has been found so far. *)
Located ==
    /\ pc \in {"size", "end"} => noted.symbol \in 0 .. table.count - 1
    /\ pc \in {"size", "end"} /\ request.what = "symbol" =>
          table.symbol[noted.symbol + 1] = request.symbol
    /\ pc = "end" /\ request.what = "symbol" => request.size /\ EndsWith(AddressFound, noted.end)
    /\ pc = "end" /\ request.what = "address" =>
          /\ AddressFound <= request.address
          /\ \A i \in 1 .. table.count :
                table.address[i] <= request.address => table.address[i] <= AddressFound
    /\ pc \in {"by_address", "end"} /\ request.what = "address" =>
          EndsWith(request.address, noted.end)
    /\ pc = "add_address" =>
          /\ table.symbol[table.count + 1] = request.symbol
          /\ table.address[table.count + 1] = request.address
          /\ \A i \in 1 .. table.count : table.symbol[i] # request.symbol

TableInv ==
    /\ Types /\ Served /\ Owned /\ Lengths /\ Collected /\ Ordered /\ Searched /\ Located
    /\ spc = "macos" => pc = "ready" /\ answer # Aborted

-----------------------------------------------------------------------------
(* Facts about the image and the table. *)

LEMMA RequestType ==
    ASSUME Types
    PROVE  /\ request.what = "symbol" =>
                 request \in Requests /\ request.symbol \in Int /\ request.size \in BOOLEAN
           /\ request.what = "address" => request \in Requests /\ request.address \in Int
           /\ request.what = "add" =>
                 request \in Requests /\ request.symbol \in Int /\ request.address \in Int
           /\ request.what = "none" => request = NoRequest
BY RequestsAssumption DEF Types, NoRequest

LEMMA ImageFacts ==
    ASSUME image \in Images
    PROVE  /\ Len(image) \in Nat /\ DOMAIN image = 1 .. Len(image)
           /\ Segments(image) \in SUBSET (1 .. Len(image)) /\ Segments(image) # {}
           /\ \A i \in Segments(image) : /\ SegmentBounds[i] = <<image[i].vmaddr,
                                                     image[i].vmaddr + image[i].vmsize>>
                                         /\ SegmentBounds[i][1] \in Int
                                         /\ SegmentBounds[i][2] \in Int
<1>1. /\ image \in Seq(Range(image)) /\ Segments(image) # {}
      /\ \A i \in Segments(image) : image[i].vmaddr \in Int /\ image[i].vmsize \in Nat
    BY ImagesAssumption
<1>2. Len(image) \in Nat /\ DOMAIN image = 1 .. Len(image)
    BY <1>1, LenProperties
<1>3. Segments(image) \in SUBSET (1 .. Len(image))
    BY <1>2 DEF Segments
<1>4. ASSUME NEW i \in Segments(image)
      PROVE  /\ SegmentBounds[i] = <<image[i].vmaddr, image[i].vmaddr + image[i].vmsize>>
             /\ SegmentBounds[i][1] \in Int /\ SegmentBounds[i][2] \in Int
    BY <1>1, <1>4 DEF SegmentBounds
<1> QED
    BY <1>1, <1>2, <1>3, <1>4

LEMMA SymtabFacts ==
    ASSUME image \in Images, symtab # NULL
    PROVE  /\ symtab \in DOMAIN image /\ image[symtab].cmd = "SYMTAB"
           /\ \E n \in Nat : DOMAIN image[symtab].nlist = 1 .. n /\ Wanted \in SUBSET (1 .. n)
           /\ \A i \in Wanted : Name(i) \in Int /\ Value(i) \in Int
<1> DEFINE S == {i \in DOMAIN image : i > NULL /\ image[i].cmd = "SYMTAB"}
           st == image[symtab]
<1>1. Len(image) \in Nat /\ DOMAIN image = 1 .. Len(image)
    BY ImageFacts
<1>2. symtab = First(S)
    BY DEF symtab, macho_find_load_command
<1>3. S # {}
    BY <1>2 DEF First
<1>4. S \in SUBSET (1 .. Len(image))
    BY <1>1
<1>5. symtab \in S
    BY <1>1, <1>2, <1>3, <1>4, FirstOf
<1>6. /\ symtab \in DOMAIN image /\ st.cmd = "SYMTAB"
      /\ st.nlist \in Seq(Range(st.nlist))
      /\ \A k \in DOMAIN st.nlist : st.nlist[k].n_value \in Int
      /\ \A k \in DOMAIN st.strings : st.strings[k] \in Int
    BY <1>5, ImagesAssumption
<1>7. DOMAIN st.nlist = 1 .. Len(st.nlist) /\ Len(st.nlist) \in Nat
    BY <1>6, LenProperties
<1>8. Wanted \in SUBSET DOMAIN st.nlist
    BY DEF Wanted, ForEachSymbol
<1>9. \A k : macho_symtab_string(st, k) \in Int
    BY <1>6 DEF macho_symtab_string, NULL
<1> QED
    BY <1>6, <1>7, <1>8, <1>9 DEF Name, Value

(* What the searches for a name and for an address see. *)
LEMMA NamesSeen ==
    ASSUME Types, Lengths, Ordered, Built
    PROVE  Sees(Names, table.sort_symbol, Len(table.symbol), table.symbol)
<1>1. table.symbol \in Seq(Int) /\ Orders(table.sort_symbol, Len(table.symbol), table.symbol)
    BY DEF Types, TableType, Ordered
<1>2. Len(table.symbol) \in 0 .. Len(table.symbol)
    <2>1. Len(table.symbol) \in Nat
        BY <1>1
    <2> QED
        BY <2>1
<1>3. DOMAIN table.sort_symbol = 1 .. Len(table.symbol)
    BY <1>1 DEF Orders
<1>4. Names = [i \in 1 .. Len(table.symbol) |-> table.symbol[table.sort_symbol[i] + 1]]
    BY <1>3 DEF Names
<1> QED
    BY <1>1, <1>2, <1>4, OrderedValues, Zenon

LEMMA AddressesSeen ==
    ASSUME Types, Lengths, Ordered, Built
    PROVE  Sees(Addresses, table.sort_address, table.count, table.address)
<1>1. /\ table.address \in Seq(Int) /\ table.count \in Nat
      /\ Orders(table.sort_address, table.count, table.address)
    BY DEF Types, TableType, Ordered
<1>2. table.count \in 0 .. Len(table.address)
    BY <1>1 DEF Lengths
<1>3. DOMAIN table.sort_address = 1 .. table.count
    BY <1>1 DEF Orders
<1>4. Addresses = [i \in 1 .. table.count |-> table.address[table.sort_address[i] + 1]]
    BY <1>3 DEF Addresses
<1> QED
    BY <1>1, <1>2, <1>4, OrderedValues, Zenon

(* Where the search for a segment ends. *)
LEMMA SegmentFound ==
    ASSUME image \in Images, table.segment = SegmentBounds, NEW a \in Int
    PROVE  /\ SegmentOf(a) = NULL => \A i \in Segments(image) : ~ Holds(i, a)
           /\ SegmentOf(a) # NULL =>
                 /\ table.segment[SegmentOf(a)][2] \in Int
                 /\ EndsWith(a, table.segment[SegmentOf(a)][2])
<1> DEFINE S == {i \in Segments(image) : SegmentBounds[i][1] <= a /\ a < SegmentBounds[i][2]}
<1>1. /\ Len(image) \in Nat /\ Segments(image) \in SUBSET (1 .. Len(image))
      /\ \A i \in Segments(image) : SegmentBounds[i][2] \in Int
    BY ImageFacts
<1>2. DOMAIN SegmentBounds = Segments(image)
    BY DEF SegmentBounds
<1>3. SegmentOf(a) = First(S)
    BY <1>2 DEF SegmentOf
<1>4. S \in SUBSET (1 .. Len(image))
    BY <1>1
<1> HIDE DEF S
<1>5. SegmentOf(a) = NULL => S = {}
    BY <1>1, <1>3, <1>4, FirstOf
<1>6. SegmentOf(a) # NULL => SegmentOf(a) \in S
    BY <1>1, <1>3, <1>4, FirstOf DEF First
<1> QED
    BY <1>1, <1>5, <1>6 DEF S, Holds, EndsWith

(* What a search that is done has found, with indices from 1. *)
LEMMA SearchResult ==
    ASSUME SearchInv, found # "searching"
    PROVE  /\ Len(array) \in Nat /\ key \in Int /\ index \in 0 .. Len(array)
           /\ \A i \in 1 .. Len(array) : array[i] \in Int
           /\ found = "yes" => index + 1 \in 1 .. Len(array) /\ array[index + 1] = key
           /\ found = "no" => /\ \A i \in 1 .. index : array[i] < key
                              /\ \A i \in index + 1 .. Len(array) : key < array[i]
           /\ \A i \in 1 .. index : array[i] <= key
           /\ \A i \in index + 1 .. Len(array) : key <= array[i]
<1>1. /\ array \in Seq(Int) /\ key \in Int /\ Correct /\ Sorted(array)
      /\ found \in {"yes", "no"} /\ index \in 0 .. Len(array)
    BY DEF SearchInv, Ranges, Count
<1>2. Len(array) \in Nat /\ \A i \in 1 .. Len(array) : array[i] \in Int
    BY <1>1
<1>3. \A i, j \in 1 .. Len(array) : i <= j => array[i] <= array[j]
    BY <1>1 DEF Sorted
<1>4. ASSUME found = "yes"
      PROVE  index + 1 \in 1 .. Len(array) /\ array[index + 1] = key
    BY <1>1, <1>2, <1>4 DEF Correct, Count, Element
<1>5. ASSUME found = "no"
      PROVE  /\ \A i \in 1 .. index : array[i] < key
             /\ \A i \in index + 1 .. Len(array) : key < array[i]
    <2>1. /\ \A i \in 0 .. index - 1 : array[i + 1] < key
          /\ \A i \in index .. Len(array) - 1 : key < array[i + 1]
        BY <1>1, <1>5 DEF Correct, Count, Element
    <2>2. ASSUME NEW i \in 1 .. index PROVE array[i] < key
        <3>1. i - 1 \in 0 .. index - 1 /\ (i - 1) + 1 = i
            BY <1>1, <1>2
        <3> QED
            BY <2>1, <3>1
    <2>3. ASSUME NEW i \in index + 1 .. Len(array) PROVE key < array[i]
        <3>1. i - 1 \in index .. Len(array) - 1 /\ (i - 1) + 1 = i
            BY <1>1, <1>2
        <3> QED
            BY <2>1, <3>1
    <2> QED
        BY <2>2, <2>3
<1>6. ASSUME NEW i \in 1 .. index PROVE array[i] <= key
    <2>1. i \in 1 .. Len(array) /\ array[i] \in Int
        BY <1>1, <1>2
    <2>2. CASE found = "yes"
        <3>1. array[i] <= array[index + 1]
            BY <1>1, <1>2, <1>3, <1>4, <2>1, <2>2
        <3> QED
            BY <1>4, <2>2, <3>1
    <2>3. CASE found = "no"
        BY <1>1, <1>5, <2>1, <2>3
    <2> QED
        BY <1>1, <2>2, <2>3
<1>7. ASSUME NEW i \in index + 1 .. Len(array) PROVE key <= array[i]
    <2>1. i \in 1 .. Len(array) /\ array[i] \in Int
        BY <1>1, <1>2
    <2>2. CASE found = "yes"
        <3>1. array[index + 1] <= array[i]
            BY <1>1, <1>2, <1>3, <1>4, <2>1, <2>2
        <3> QED
            BY <1>4, <2>2, <3>1
    <2>3. CASE found = "no"
        BY <1>1, <1>5, <2>1, <2>3
    <2> QED
        BY <1>1, <2>2, <2>3
<1> QED
    BY <1>1, <1>2, <1>4, <1>5, <1>6, <1>7

(* A sequence, extended. *)
LEMMA Appended ==
    ASSUME NEW s \in Seq(Int), NEW x \in Int
    PROVE  /\ Append(s, x) \in Seq(Int) /\ Len(Append(s, x)) = Len(s) + 1
           /\ \A i \in 1 .. Len(s) : Append(s, x)[i] = s[i]
           /\ Append(s, x)[Len(s) + 1] = x
OBVIOUS

LEMMA NameInserted ==
    ASSUME TableInv, InsertName
    PROVE  /\ table'.symbol = Append(table.symbol, request.symbol)
           /\ table'.address = Append(table.address, request.address)
           /\ table'.count = table.count /\ table'.segment = table.segment
           /\ table'.sort_address = table.sort_address
           /\ Orders(table'.sort_symbol, table.count + 1, table'.symbol)
           /\ \A i \in 1 .. table.count : table.symbol[i] # request.symbol
<1> DEFINE n == table.count
<1>1. /\ Types /\ Lengths /\ Ordered /\ Built /\ pc = "add_name" /\ found = "no"
      /\ request.what = "add" /\ SearchInv /\ array = Names /\ key = request.symbol
    BY DEF TableInv, InsertName, Served, Searched, Built
<1>2. /\ table.symbol \in Seq(Int) /\ n \in Nat /\ Len(table.symbol) = n
      /\ request.symbol \in Int
      /\ Orders(table.sort_symbol, n, table.symbol)
    BY <1>1, RequestType DEF Types, TableType, Lengths, Ordered
<1>3. /\ table'.symbol = Append(table.symbol, request.symbol)
      /\ table'.address = Append(table.address, request.address)
      /\ table'.count = table.count /\ table'.segment = table.segment
      /\ table'.sort_address = table.sort_address
      /\ table'.sort_symbol = InsertedAt(table.sort_symbol, index, n)
    BY <1>1 DEF InsertName, Types, TableType
<1>4. Sees(Names, table.sort_symbol, n, table.symbol)
    BY <1>1, <1>2, NamesSeen
<1>5. /\ index \in 0 .. n
      /\ \A i \in 1 .. index : Names[i] < request.symbol
      /\ \A i \in index + 1 .. n : request.symbol < Names[i]
      /\ \A i \in 1 .. n : Names[i] \in Int
    BY <1>1, <1>4, SearchResult DEF Sees
<1>6. /\ Append(table.symbol, request.symbol) \in Seq(Int)
      /\ Len(Append(table.symbol, request.symbol)) = n + 1
      /\ \A i \in 1 .. n : Append(table.symbol, request.symbol)[i] = table.symbol[i]
      /\ Append(table.symbol, request.symbol)[n + 1] = request.symbol
    BY <1>2, Appended
<1> DEFINE new == Append(table.symbol, request.symbol)
<1> HIDE DEF n, new
<1>7. Orders(InsertedAt(table.sort_symbol, index, n), n + 1, new)
    <2>1. /\ \A i \in 1 .. index : table.symbol[table.sort_symbol[i] + 1] <= new[n + 1]
          /\ \A i \in index + 1 .. n : new[n + 1] <= table.symbol[table.sort_symbol[i] + 1]
        <3>1. \A i \in 1 .. n : Names[i] = table.symbol[table.sort_symbol[i] + 1]
            BY <1>4 DEF Sees
        <3>2. /\ \A i \in 1 .. index : i \in 1 .. n
              /\ \A i \in index + 1 .. n : i \in 1 .. n
            BY <1>2, <1>5
        <3>3. new[n + 1] = request.symbol
            BY <1>6 DEF new
        <3>4. /\ \A i \in 1 .. index : Names[i] <= request.symbol
              /\ \A i \in index + 1 .. n : request.symbol <= Names[i]
            BY <1>2, <1>5, <3>2
        <3> QED
            BY <3>1, <3>2, <3>3, <3>4
    <2>2. /\ new \in Seq(Int) /\ Len(new) = n + 1
          /\ \A i \in 1 .. n : new[i] = table.symbol[i]
        BY <1>6 DEF new
    <2>3. n \in 0 .. Len(table.symbol)
        BY <1>2
    <2> QED
        BY <1>2, <1>5, <2>1, <2>2, <2>3, InsertedOrders
<1>8. ASSUME NEW i \in 1 .. n PROVE table.symbol[i] # request.symbol
    <2>1. PICK j \in 1 .. n : Names[j] = table.symbol[i]
        BY <1>4 DEF Sees
    <2>2. j \in 1 .. index \/ j \in index + 1 .. n
        BY <1>2, <1>5
    <2> QED
        BY <1>2, <1>5, <2>1, <2>2
<1> QED
    BY <1>3, <1>7, <1>8 DEF n, new

LEMMA AddressInserted ==
    ASSUME TableInv, InsertAddress
    PROVE  /\ table'.symbol = table.symbol /\ table'.address = table.address
           /\ table'.count = table.count + 1 /\ table'.segment = table.segment
           /\ table'.sort_symbol = table.sort_symbol
           /\ Orders(table'.sort_address, table.count + 1, table.address)
<1> DEFINE n == table.count
<1>1. /\ Types /\ Lengths /\ Ordered /\ Built /\ pc = "add_address" /\ found # "searching"
      /\ request.what = "add" /\ SearchInv /\ array = Addresses /\ key = request.address
      /\ table.address[table.count + 1] = request.address
    BY DEF TableInv, InsertAddress, Served, Searched, Built, Located
<1>2. /\ table.address \in Seq(Int) /\ n \in Nat /\ Len(table.address) = n + 1
      /\ request.address \in Int
      /\ Orders(table.sort_address, n, table.address)
    BY <1>1, RequestType DEF Types, TableType, Lengths, Ordered
<1>3. /\ table'.symbol = table.symbol /\ table'.address = table.address
      /\ table'.count = table.count + 1 /\ table'.segment = table.segment
      /\ table'.sort_symbol = table.sort_symbol
      /\ table'.sort_address = InsertedAt(table.sort_address, index, n)
    BY <1>1 DEF InsertAddress, Types, TableType
<1>4. Sees(Addresses, table.sort_address, n, table.address)
    BY <1>1, AddressesSeen
<1>5. /\ index \in 0 .. n
      /\ \A i \in 1 .. index : Addresses[i] <= request.address
      /\ \A i \in index + 1 .. n : request.address <= Addresses[i]
    BY <1>1, <1>4, SearchResult DEF Sees
<1> HIDE DEF n
<1>6. Orders(InsertedAt(table.sort_address, index, n), n + 1, table.address)
    <2>1. /\ \A i \in 1 .. index : table.address[table.sort_address[i] + 1] <= table.address[n + 1]
          /\ \A i \in index + 1 .. n :
                table.address[n + 1] <= table.address[table.sort_address[i] + 1]
        <3>1. \A i \in 1 .. n : Addresses[i] = table.address[table.sort_address[i] + 1]
            BY <1>4 DEF Sees
        <3>2. /\ \A i \in 1 .. index : i \in 1 .. n
              /\ \A i \in index + 1 .. n : i \in 1 .. n
            BY <1>2, <1>5
        <3>3. table.address[n + 1] = request.address
            BY <1>1 DEF n
        <3> QED
            BY <1>2, <1>5, <3>1, <3>2, <3>3
    <2>2. n \in 0 .. Len(table.address)
        BY <1>2
    <2>3. \A i \in 1 .. n : table.address[i] = table.address[i]
        OBVIOUS
    <2> QED
        BY <1>2, <1>5, <2>1, <2>2, <2>3, InsertedOrders
<1> QED
    BY <1>3, <1>6 DEF n

-----------------------------------------------------------------------------
(* The steps, as the table sees them. *)

AskFor ==
    /\ pc = "ready" /\ request = NoRequest /\ answer # Aborted
    /\ request' \in Requests /\ pc' = request'.what /\ answer' = NoAnswer
    /\ UNCHANGED <<image, table, allocated, strings, noted>> /\ UNCHANGED searchVars

Quiet == UNCHANGED tableVars /\ UNCHANGED searchVars

TableStep ==
    \/ CollectSegments \/ AllocateArrays \/ collect_symbol \/ SortSymbols \/ OutOfMemory
    \/ symbol_table_deinit \/ AskFor \/ FindSymbol \/ SearchStep
    \/ SymbolFound \/ SymbolNotFound \/ NoSizeWanted \/ SizeAborts \/ FindSymbolEnd
    \/ NotInSegment \/ FindAddress \/ BeforeAllSymbols \/ FindEnd \/ EndFound
    \/ AlreadyPresent \/ AddOutOfMemory \/ InsertName \/ InsertAddress
    \/ Quiet

LEMMA SlideSteps ==
    ASSUME TableInv, [SlideNext]_allVars
    PROVE  /\ TableStep
           /\ (spc = "macos" => pc = "ready" /\ answer # Aborted)'
<1>0. /\ pc = "ready" => request = NoRequest
      /\ spc = "macos" => pc = "ready" /\ answer # Aborted
    BY DEF TableInv, Served
<1>1. CASE KernelInit
    BY <1>0, <1>1 DEF KernelInit, TableStep, UnchangedSearch, CollectSegments
<1>2. CASE AskLastSymbol
    <2>1. LastSymbolRequest \in Requests /\ LastSymbolRequest.what = "symbol"
        BY SlideAssumption DEF LastSymbolRequest
    <2> QED
        BY <1>0, <1>2, <2>1 DEF AskLastSymbol, TableStep, AskFor, Goto, Searching_
<1>3. CASE UseTable
    <2>1. TableNext /\ spc' = spc /\ (pc = "ready" => spc = "idle")
        BY <1>3 DEF UseTable, slideVars
    <2>2. TableStep
        BY <1>0, <2>1 DEF TableStep, TableNext, Ask, AskFor
    <2> QED
        BY <1>0, <2>1, <2>2
<1>4. CASE KernelSlideInit
    BY <1>0, <1>4 DEF KernelSlideInit, TableStep, Quiet, UnchangedTable, tableVars
<1>5. CASE ResetBase
    BY <1>0, <1>5 DEF ResetBase, TableStep, Quiet, UnchangedTable, UnchangedSearch, tableVars
<1>6. CASE \/ Validate \/ NoLastSymbol \/ MacosRegion \/ NoMacosRegion
           \/ FindKernelRegion \/ NoKernelRegion
           \/ NotZoneArray \/ ZoneArray \/ Backwards \/ NotBackwards
           \/ HeapScan \/ NothingInHeap \/ TrySlide \/ SkipSlide \/ NoSlideFits
           \/ StartUnsafeScan \/ TryUnsafe \/ SlideNotFound
    <2>1. UnchangedTable
        BY <1>6 DEF Validate, NoLastSymbol, MacosRegion, NoMacosRegion, FindKernelRegion,
           NoKernelRegion, NotZoneArray, ZoneArray, Backwards, NotBackwards, HeapScan,
           NothingInHeap, TrySlide, SkipSlide, NoSlideFits, StartUnsafeScan, TryUnsafe,
           SlideNotFound
    <2>2. spc' # "macos"
        BY <1>6 DEF Validate, NoLastSymbol, MacosRegion, NoMacosRegion, FindKernelRegion,
           NoKernelRegion, NotZoneArray, ZoneArray, Backwards, NotBackwards, HeapScan,
           NothingInHeap, TrySlide, SkipSlide, NoSlideFits, StartUnsafeScan, TryUnsafe,
           SlideNotFound, Goto, Searching_, SlideReturns, CheckKernelBase
    <2> QED
        BY <2>1, <2>2 DEF UnchangedTable, Quiet, TableStep
<1>7. CASE UNCHANGED allVars
    BY <1>0, <1>7 DEF allVars, slideVars, tableVars, Quiet, TableStep
<1> QED
    BY <1>1, <1>2, <1>3, <1>4, <1>5, <1>6, <1>7 DEF SlideNext

(* The image does not change, and neither does what is read of it. *)
LEMMA ImageKept ==
    ASSUME TableStep
    PROVE  /\ image' = image /\ SegmentBounds' = SegmentBounds /\ symtab' = symtab
           /\ Wanted' = Wanted /\ Segments(image') = Segments(image)
           /\ \A i : Name(i)' = Name(i) /\ Value(i)' = Value(i)
           /\ \A i, a : Holds(i, a)' = Holds(i, a)
           /\ \A a, end : EndsWith(a, end)' = EndsWith(a, end)
<1>1. image' = image
    BY DEF TableStep, CollectSegments, AllocateArrays, collect_symbol, SortSymbols, OutOfMemory,
       symbol_table_deinit, AskFor, FindSymbol, SearchStep, SymbolFound, SymbolNotFound,
       NoSizeWanted, SizeAborts, FindSymbolEnd, NotInSegment, FindAddress, BeforeAllSymbols,
       FindEnd, EndFound, AlreadyPresent, AddOutOfMemory, InsertName, InsertAddress, Quiet,
       tableVars
<1> QED
    BY <1>1 DEF SegmentBounds, symtab, Wanted, Name, Value, Holds, EndsWith

(* Only these change the table. *)
Changes ==
    \/ CollectSegments \/ collect_symbol \/ SortSymbols \/ OutOfMemory \/ symbol_table_deinit
    \/ InsertName \/ InsertAddress

LEMMA TableKept ==
    ASSUME TableStep, ~ Changes
    PROVE  /\ table' = table /\ strings' = strings
           /\ Names' = Names /\ Addresses' = Addresses /\ Entries(table') = Entries(table)
           /\ allocated \subseteq allocated'
           /\ pc' \in {"none", "collect"} => pc' = pc \/ AllocateArrays
           /\ pc' = "add_address" <=> pc = "add_address"
           /\ AllocateArrays \/ Quiet \/ (Built /\ Built')
<1>1. /\ table' = table /\ strings' = strings
      /\ allocated \subseteq allocated'
      /\ pc' \in {"none", "collect"} => pc' = pc \/ AllocateArrays
      /\ pc' = "add_address" <=> pc = "add_address"
      /\ AllocateArrays \/ Quiet \/ (Built /\ Built')
  <2>1. CASE AllocateArrays
    BY <2>1 DEF AllocateArrays
  <2>2. CASE AskFor
    BY <2>2, RequestsAssumption DEF AskFor, Built
  <2>3. CASE FindSymbol \/ SearchStep \/ SymbolFound \/ FindSymbolEnd \/ FindAddress \/ FindEnd
    BY <2>3 DEF FindSymbol, SearchStep, SymbolFound, FindSymbolEnd, FindAddress, FindEnd,
       StartSearch, Built, tableVars
  <2>4. CASE \/ SymbolNotFound \/ NoSizeWanted \/ SizeAborts \/ NotInSegment
             \/ BeforeAllSymbols \/ EndFound \/ AlreadyPresent \/ AddOutOfMemory
    BY <2>4 DEF SymbolNotFound, NoSizeWanted, SizeAborts, NotInSegment, BeforeAllSymbols,
       EndFound, AlreadyPresent, AddOutOfMemory, Return, Built
  <2>5. CASE Quiet
    BY <2>5 DEF Quiet, tableVars
  <2> QED
    BY <2>1, <2>2, <2>3, <2>4, <2>5 DEF TableStep, Changes
<1> QED
    BY <1>1 DEF Names, Addresses, Entries

-----------------------------------------------------------------------------
(* Every step keeps every part of the invariant. *)

(* The minimum of what is not collected is one of it. *)
LEMMA NextCollected ==
    ASSUME TableInv, pc = "collect", Uncollected # {}
    PROVE  /\ Min(Uncollected) \in Wanted /\ Min(Uncollected) > noted.symbol
           /\ Min(Uncollected) \in Nat
           /\ \A i \in Wanted : i <= Min(Uncollected) <=> i <= noted.symbol \/ i = Min(Uncollected)
           /\ Name(Min(Uncollected)) \in Int /\ Value(Min(Uncollected)) \in Int
<1>1. image \in Images /\ symtab # NULL /\ noted.symbol \in Nat
    BY DEF TableInv, Types, Collected
<1>2. PICK n \in Nat : Wanted \in SUBSET (1 .. n)
    BY <1>1, SymtabFacts
<1>3. Uncollected \in SUBSET (1 .. n)
    BY <1>2 DEF Uncollected
<1>4. Min(Uncollected) \in Uncollected /\ \A j \in Uncollected : Min(Uncollected) <= j
    BY <1>2, <1>3, FirstOf
<1>5. /\ Min(Uncollected) \in Wanted /\ Min(Uncollected) > noted.symbol
      /\ Min(Uncollected) \in 1 .. n
    BY <1>2, <1>4 DEF Uncollected
<1>6. ASSUME NEW i \in Wanted
      PROVE  i <= Min(Uncollected) <=> i <= noted.symbol \/ i = Min(Uncollected)
    <2>1. i \in 1 .. n
        BY <1>2
    <2>2. i > noted.symbol => Min(Uncollected) <= i
        BY <1>4 DEF Uncollected
    <2> QED
        BY <1>1, <1>5, <2>1, <2>2
<1> QED
    BY <1>1, <1>5, <1>6, SymtabFacts

(* A permutation is a sequence of numbers. *)
LEMMA OrderType ==
    ASSUME NEW order, NEW n \in Nat, NEW values, Orders(order, n, values)
    PROVE  order \in Seq(Int)
<1>1. order \in [1 .. n -> Int]
    BY DEF Orders
<1> QED
    BY <1>1

LEMMA EmptyTableType ==
    EmptyTable \in TableType /\ [EmptyTable EXCEPT !.segment = SegmentBounds] \in TableType
<1>1. <<>> \in Seq(Int) /\ 0 \in Nat
    OBVIOUS
<1>2. <<>> \in {<<>>, SegmentBounds} /\ SegmentBounds \in {<<>>, SegmentBounds}
    OBVIOUS
<1> QED
    BY <1>1, <1>2, Zenon DEF EmptyTable, TableType

LEMMA StepTypes ==
    ASSUME TableInv, TableStep
    PROVE  Types'
<1>0. /\ image \in Images /\ table \in TableType
      /\ strings \in Nat /\ noted \in [symbol : Nat, end : Int]
      /\ request \in Requests \cup {NoRequest}
      /\ pc \in Reading \cup Calls \cup {"ready"}
      /\ image' = image /\ TableType' = TableType
    BY ImageKept DEF TableInv, Types, TableType
<1>1. table' \in TableType
  <2>1. CASE ~ Changes
    BY <1>0, <2>1, TableKept
  <2>2. CASE OutOfMemory \/ symbol_table_deinit
    BY <2>2, EmptyTableType DEF OutOfMemory, symbol_table_deinit, Deinitialized
  <2>3. CASE CollectSegments
    BY <1>0, <2>3, EmptyTableType DEF CollectSegments
  <2>4. CASE collect_symbol
    <3>1. Name(Min(Uncollected)) \in Int /\ Value(Min(Uncollected)) \in Int
        BY <2>4, NextCollected DEF collect_symbol
    <3>2. /\ Append(table.symbol, Name(Min(Uncollected))) \in Seq(Int)
          /\ Append(table.address, Value(Min(Uncollected))) \in Seq(Int)
        BY <1>0, <3>1, Appended DEF TableType
    <3>3. \/ table' = table
          \/ table' = [table EXCEPT !.symbol = Append(@, Name(Min(Uncollected))),
                                    !.address = Append(@, Value(Min(Uncollected))),
                                    !.count = @ + 1]
        BY <2>4 DEF collect_symbol
    <3>4. table.count + 1 \in Nat
        BY <1>0 DEF TableType
    <3> DEFINE names == Append(table.symbol, Name(Min(Uncollected)))
               addresses == Append(table.address, Value(Min(Uncollected)))
    <3>5. table' # table =>
             table' = [table EXCEPT !.symbol = names, !.address = addresses, !.count = table.count + 1]
        BY <3>3
    <3> HIDE DEF names, addresses
    <3>6. names \in Seq(Int) /\ addresses \in Seq(Int)
        BY <3>2 DEF names, addresses
    <3> QED
        BY <1>0, <3>4, <3>5, <3>6 DEF TableType
  <2>5. CASE SortSymbols
    <3>1. CASE UNCHANGED table
        BY <1>0, <3>1
    <3>2. CASE table' # table
        <4>1. PICK by_name \in SortOrders(table.symbol), by_address \in SortOrders(table.address) :
                 table' = [table EXCEPT !.sort_symbol = by_name, !.sort_address = by_address]
            BY <2>5, <3>2 DEF SortSymbols
        <4>2. by_name \in Seq(Int) /\ by_address \in Seq(Int)
            BY <1>0, SortedOrders, OrderType DEF TableType
        <4> QED
            BY <1>0, <4>1, <4>2 DEF TableType
    <3> QED
        BY <3>1, <3>2
  <2>6. CASE InsertName
    <3>1. table'.sort_symbol \in Seq(Int)
        <4>1. table.count + 1 \in Nat
            BY <1>0 DEF TableType
        <4> QED
            BY <2>6, <4>1, NameInserted, OrderType
    <3>2. table'.symbol \in Seq(Int) /\ table'.address \in Seq(Int)
        <4>1. request.symbol \in Int /\ request.address \in Int
            BY <2>6, RequestType DEF InsertName, TableInv, Served
        <4>2. table.symbol \in Seq(Int) /\ table.address \in Seq(Int)
            BY <1>0 DEF TableType
        <4>3. /\ table'.symbol = Append(table.symbol, request.symbol)
              /\ table'.address = Append(table.address, request.address)
            BY <2>6, NameInserted
        <4> QED
            BY <4>1, <4>2, <4>3, Appended
    <3>3. table' = [table EXCEPT !.symbol = table'.symbol, !.address = table'.address,
                                 !.sort_symbol = table'.sort_symbol]
        BY <1>0, <2>6 DEF InsertName, TableType
    <3> QED
        BY <1>0, <3>1, <3>2, <3>3 DEF TableType
  <2>7. CASE InsertAddress
    <3>1. table'.sort_address \in Seq(Int) /\ table.count + 1 \in Nat
        <4>1. table.count + 1 \in Nat
            BY <1>0 DEF TableType
        <4> QED
            BY <2>7, <4>1, AddressInserted, OrderType
    <3>2. table' = [table EXCEPT !.sort_address = table'.sort_address, !.count = @ + 1]
        BY <1>0, <2>7 DEF InsertAddress, TableType
    <3> QED
        BY <1>0, <3>1, <3>2 DEF TableType
  <2> QED
    BY <2>1, <2>2, <2>3, <2>4, <2>5, <2>6, <2>7 DEF Changes
<1>2. strings' \in Nat
  <2>1. CASE ~ Changes
    BY <1>0, <2>1, TableKept
  <2>2. CASE OutOfMemory \/ symbol_table_deinit
    <3>1. strings = table.count /\ table.count \in Nat
        BY <1>0, <2>2 DEF TableInv, Owned, NamesOwned, OutOfMemory, symbol_table_deinit, TableType
    <3> QED
        BY <2>2, <3>1 DEF OutOfMemory, symbol_table_deinit, Deinitialized
  <2>3. CASE CollectSegments \/ collect_symbol \/ SortSymbols \/ InsertName \/ InsertAddress
    <3>1. strings' = strings \/ strings' = strings + 1
        BY <2>3 DEF CollectSegments, collect_symbol, SortSymbols, InsertName, InsertAddress
    <3> QED
        BY <1>0, <3>1
  <2> QED
    BY <2>1, <2>2, <2>3 DEF Changes
<1>3. noted' \in [symbol : Nat, end : Int]
  <2>1. CASE UNCHANGED noted
    BY <1>0, <2>1
  <2>2. CASE noted' = Nothing
    BY <2>2 DEF Nothing
  <2>3. CASE collect_symbol
    <3>1. Uncollected # {} => Min(Uncollected) \in Nat
        BY <2>3, NextCollected DEF collect_symbol
    <3> QED
        BY <1>0, <2>3, <3>1 DEF collect_symbol
  <2>4. CASE SymbolFound
    <3>1. index + 1 \in 1 .. Len(Names) /\ Built
        BY <2>4, SearchResult DEF SymbolFound, TableInv, Searched, Built
    <3>2. Sees(Names, table.sort_symbol, Len(table.symbol), table.symbol)
        BY <3>1, NamesSeen DEF TableInv
    <3>3. table.sort_symbol \in Seq(Int) /\ Len(table.symbol) \in Nat
        BY <1>0 DEF TableType
    <3>4. table.sort_symbol[index + 1] + 1 \in 1 .. Len(table.symbol)
        BY <3>1, <3>2 DEF Sees
    <3>5. Len(table.sort_symbol) = Len(table.symbol)
        <4>1. table.sort_symbol \in [1 .. Len(table.symbol) -> 0 .. Len(table.symbol) - 1]
            BY <3>1 DEF TableInv, Ordered, Orders
        <4> QED
            BY <3>3, <4>1
    <3>6. table.sort_symbol[index + 1] \in Int
        <4>1. index + 1 \in 1 .. Len(table.sort_symbol)
            BY <3>1, <3>2, <3>5 DEF Sees
        <4> QED
            BY <3>3, <4>1
    <3>7. table.sort_symbol[index + 1] \in Nat
        BY <3>3, <3>4, <3>6
    <3> QED
        BY <1>0, <2>4, <3>7 DEF SymbolFound
  <2>5. CASE FindSymbolEnd
    <3>1. /\ pc = "size" /\ SegmentOf(AddressFound) # NULL
          /\ noted' = [noted EXCEPT !.end = table.segment[SegmentOf(AddressFound)][2]]
        BY <2>5 DEF FindSymbolEnd
    <3>2. table.segment = SegmentBounds /\ AddressFound \in Int
        <4>1. /\ table.segment = SegmentBounds /\ noted.symbol \in 0 .. table.count - 1
              /\ Len(table.address) = table.count
            <5>1. Ordered /\ Located /\ Lengths /\ Built /\ table.count \in Nat
                BY <1>0, <3>1 DEF TableInv, Built, TableType
            <5> QED
                BY <3>1, <5>1 DEF Ordered, Located, Lengths
        <4>2. noted.symbol + 1 \in 1 .. Len(table.address)
            BY <1>0, <4>1 DEF TableType
        <4> QED
            BY <1>0, <4>1, <4>2 DEF TableType, AddressFound
    <3>3. table.segment[SegmentOf(AddressFound)][2] \in Int
        BY <1>0, <3>1, <3>2, SegmentFound
    <3> QED
        BY <1>0, <3>1, <3>3
  <2>6. CASE FindAddress
    <3>1. /\ pc = "address" /\ SegmentOf(request.address) # NULL
          /\ noted' = [noted EXCEPT !.end = table.segment[SegmentOf(request.address)][2]]
        BY <2>6 DEF FindAddress
    <3>2. table.segment = SegmentBounds /\ request.address \in Int
        BY <3>1, RequestType DEF TableInv, Ordered, Built, Served
    <3>3. table.segment[SegmentOf(request.address)][2] \in Int
        BY <1>0, <3>1, <3>2, SegmentFound
    <3> QED
        BY <1>0, <3>1, <3>3
  <2>7. CASE FindEnd
    <3> DEFINE i == IF found = "yes" THEN index + 1 ELSE index
    <3>1. /\ SearchInv /\ found \in {"yes", "no"} /\ (found = "no" => index > 0)
          /\ array = Addresses /\ Built
          /\ noted' = [noted EXCEPT !.symbol = table.sort_address[i]]
        BY <2>7 DEF FindEnd, TableInv, Searched, Built
    <3>2. i \in 1 .. Len(Addresses)
        BY <3>1, SearchResult
    <3>3. Sees(Addresses, table.sort_address, table.count, table.address)
        BY <3>1, AddressesSeen DEF TableInv
    <3>4. table.sort_address \in [1 .. table.count -> 0 .. table.count - 1] /\ table.count \in Nat
        BY <1>0, <3>1 DEF TableInv, Ordered, Orders, TableType
    <3> HIDE DEF i
    <3>5. i \in 1 .. table.count
        BY <3>2, <3>3 DEF Sees
    <3>6. table.sort_address[i] \in 0 .. table.count - 1
        BY <3>4, <3>5
    <3>7. table.sort_address[i] \in Nat
        BY <3>4, <3>6
    <3> QED
        BY <1>0, <3>1, <3>7
  <2> QED
    BY <2>1, <2>2, <2>3, <2>4, <2>5, <2>6, <2>7 DEF TableStep, CollectSegments, AllocateArrays,
       SortSymbols, OutOfMemory, symbol_table_deinit, AskFor, FindSymbol, SearchStep,
       SymbolNotFound, NoSizeWanted, SizeAborts, NotInSegment, BeforeAllSymbols, EndFound,
       AlreadyPresent, AddOutOfMemory, InsertName, InsertAddress, Quiet, tableVars, Return
<1>4. request' \in Requests \cup {NoRequest}
    BY <1>0 DEF TableStep, CollectSegments, AllocateArrays, collect_symbol, SortSymbols,
       OutOfMemory, symbol_table_deinit, AskFor, FindSymbol, SearchStep, SymbolFound,
       SymbolNotFound, NoSizeWanted, SizeAborts, FindSymbolEnd, NotInSegment, FindAddress,
       BeforeAllSymbols, FindEnd, EndFound, AlreadyPresent, AddOutOfMemory, InsertName,
       InsertAddress, Quiet, tableVars, Return
<1>5. pc' \in Reading \cup Calls \cup {"ready"}
    BY <1>0, RequestsAssumption DEF TableStep, CollectSegments, AllocateArrays, collect_symbol,
       SortSymbols, OutOfMemory, symbol_table_deinit, AskFor, FindSymbol, SearchStep,
       SymbolFound, SymbolNotFound, NoSizeWanted, SizeAborts, FindSymbolEnd, NotInSegment,
       FindAddress, BeforeAllSymbols, FindEnd, EndFound, AlreadyPresent, AddOutOfMemory,
       InsertName, InsertAddress, Quiet, tableVars, Return, StartSearch, Reading, Calls
<1> QED
    BY <1>0, <1>1, <1>2, <1>3, <1>4, <1>5 DEF Types

LEMMA StepServed ==
    ASSUME TableInv, TableStep
    PROVE  Served'
<1>0. Served /\ Types
    BY DEF TableInv
<1>1. CASE CollectSegments \/ AllocateArrays \/ collect_symbol \/ SortSymbols \/ OutOfMemory
    BY <1>0, <1>1 DEF CollectSegments, AllocateArrays, collect_symbol, SortSymbols, OutOfMemory,
       Served, Reading, Calls, EmptyTable, Nothing
<1>2. CASE symbol_table_deinit
    BY <1>0, <1>2 DEF symbol_table_deinit, Served, Reading
<1>3. CASE AskFor
    BY <1>0, <1>3, RequestsAssumption DEF AskFor, Served, Reading
<1>4. CASE \/ SymbolNotFound \/ NoSizeWanted \/ SizeAborts \/ NotInSegment
           \/ BeforeAllSymbols \/ EndFound \/ AlreadyPresent \/ AddOutOfMemory \/ InsertAddress
    BY <1>0, <1>4 DEF SymbolNotFound, NoSizeWanted, SizeAborts, NotInSegment, BeforeAllSymbols,
       EndFound, AlreadyPresent, AddOutOfMemory, InsertAddress, Return, Served, Reading
<1>5. CASE FindSymbol \/ SymbolFound \/ FindSymbolEnd \/ FindAddress \/ FindEnd \/ InsertName
    BY <1>0, <1>5 DEF FindSymbol, SymbolFound, FindSymbolEnd, FindAddress, FindEnd, InsertName,
       StartSearch, Served, Reading
<1>6. CASE SearchStep \/ Quiet
    BY <1>0, <1>6 DEF SearchStep, Quiet, tableVars, Served
<1> QED
    BY <1>1, <1>2, <1>3, <1>4, <1>5, <1>6 DEF TableStep

LEMMA StepOwned ==
    ASSUME TableInv, TableStep
    PROVE  Owned'
<1>0. Owned /\ table.count \in Nat /\ strings \in Nat /\ table \in TableType
    BY DEF TableInv, Types, TableType
<1>1. CASE ~ Changes
    <2>1. /\ table' = table /\ strings' = strings /\ allocated \subseteq allocated'
          /\ pc' \in {"none", "collect"} => pc' = pc \/ AllocateArrays
          /\ pc' = "add_address" <=> pc = "add_address"
          /\ AllocateArrays \/ Quiet \/ (Built /\ Built')
        BY <1>1, TableKept
    <2>2. pc' = "none" => allocated' = {}
        <3>1. CASE AllocateArrays
            BY <3>1 DEF AllocateArrays
        <3>2. CASE Quiet
            BY <1>0, <3>2 DEF Quiet, tableVars, Owned, NamesOwned
        <3>3. CASE Built'
            BY <3>3 DEF Built
        <3> QED
            BY <2>1, <3>1, <3>2, <3>3
    <2>3. pc' \in {"collect", "add_address"} => {"symbol", "address"} \subseteq allocated'
        <3>1. CASE AllocateArrays
            BY <3>1 DEF AllocateArrays
        <3>2. CASE ~ AllocateArrays
            BY <1>0, <2>1, <3>2 DEF Owned
        <3> QED
            BY <3>1, <3>2
    <2> QED
        BY <1>0, <2>1, <2>2, <2>3 DEF Owned, NamesOwned
<1>2. CASE CollectSegments
    BY <1>0, <1>2, EmptyTableType DEF CollectSegments, Owned, NamesOwned, EmptyTable, TableInv,
       Collected
<1>3. CASE collect_symbol
    <2>1. pc = "collect" /\ pc' \in {"collect", "out_of_memory"} /\ allocated' = allocated
        BY <1>3 DEF collect_symbol
    <2>2. \/ table'.count = table.count + 1 /\ strings' = strings + 1
          \/ table' = table /\ strings' = strings
        BY <1>0, <1>3 DEF collect_symbol, TableType
    <2> QED
        BY <1>0, <2>1, <2>2 DEF Owned, NamesOwned
<1>4. CASE SortSymbols
    <2>1. /\ pc = "collect" /\ pc' \in {"ready", "out_of_memory"} /\ strings' = strings
          /\ allocated \subseteq allocated'
        BY <1>4 DEF SortSymbols
    <2>2. table'.count = table.count
        BY <1>0, <1>4 DEF SortSymbols, TableType
    <2> QED
        BY <1>0, <2>1, <2>2 DEF Owned, NamesOwned
<1>5. CASE OutOfMemory \/ symbol_table_deinit
    <2>1. /\ pc \in {"out_of_memory", "ready"} /\ pc' = "none" /\ Deinitialized
        BY <1>5 DEF OutOfMemory, symbol_table_deinit
    <2>2. /\ strings = table.count
          /\ strings' = IF "symbol" \in allocated THEN strings - table.count ELSE strings
          /\ table'.count = 0 /\ allocated' = {}
        BY <1>0, <2>1 DEF Deinitialized, EmptyTable, Owned, NamesOwned
    <2>3. strings' = 0
        BY <1>0, <2>2 DEF Owned, NamesOwned
    <2> QED
        BY <2>1, <2>2, <2>3 DEF Owned, NamesOwned
<1>6. CASE InsertName
    <2>1. table'.count = table.count
        BY <1>6, NameInserted
    <2>2. /\ pc = "add_name" /\ pc' = "add_address" /\ allocated' = allocated \cup Arrays_
          /\ strings' = strings + 1
        BY <1>6 DEF InsertName, StartSearch
    <2> QED
        BY <1>0, <2>1, <2>2 DEF Owned, NamesOwned, Arrays_
<1>7. CASE InsertAddress
    <2>1. table'.count = table.count + 1
        BY <1>7, AddressInserted
    <2>2. /\ pc = "add_address" /\ pc' = "ready" /\ allocated' = allocated /\ strings' = strings
        BY <1>7 DEF InsertAddress, Return
    <2> QED
        BY <1>0, <2>1, <2>2 DEF Owned, NamesOwned
<1> QED
    BY <1>1, <1>2, <1>3, <1>4, <1>5, <1>6, <1>7 DEF Changes

LEMMA StepLengths ==
    ASSUME TableInv, TableStep
    PROVE  Lengths'
<1>0. /\ Lengths /\ table.count \in Nat /\ table \in TableType
      /\ table.symbol \in Seq(Int) /\ table.address \in Seq(Int)
    BY DEF TableInv, Types, TableType
<1>1. CASE ~ Changes
    BY <1>0, <1>1, TableKept DEF Lengths
<1>2. CASE CollectSegments
    <2>1. pc = "none" /\ pc' # "add_address"
        BY <1>2 DEF CollectSegments
    <2>2. table' = EmptyTable \/ table' = [EmptyTable EXCEPT !.segment = SegmentBounds]
        BY <1>2, <2>1 DEF CollectSegments, TableInv, Collected
    <2> QED
        BY <2>1, <2>2 DEF Lengths, EmptyTable
<1>3. CASE collect_symbol
    <2>1. pc = "collect" /\ pc' \in {"collect", "out_of_memory"}
        BY <1>3 DEF collect_symbol
    <2>2. /\ Name(Min(Uncollected)) \in Int /\ Value(Min(Uncollected)) \in Int
        BY <1>3, NextCollected DEF collect_symbol
    <2>3. \/ /\ table'.count = table.count + 1
             /\ table'.symbol = Append(table.symbol, Name(Min(Uncollected)))
             /\ table'.address = Append(table.address, Value(Min(Uncollected)))
          \/ table' = table
        BY <1>0, <1>3 DEF collect_symbol, TableType
    <2>4. Len(table.symbol) = table.count /\ Len(table.address) = table.count
        BY <1>0, <2>1 DEF Lengths
    <2>5. Len(table'.symbol) = table'.count /\ Len(table'.address) = table'.count
        BY <1>0, <2>2, <2>3, <2>4, Appended
    <2> QED
        BY <1>0, <2>1, <2>3, <2>5 DEF Lengths
<1>4. CASE SortSymbols
    <2>1. /\ pc = "collect" /\ pc' \in {"ready", "out_of_memory"}
          /\ table'.count = table.count /\ table'.symbol = table.symbol
          /\ table'.address = table.address
        BY <1>0, <1>4 DEF SortSymbols, TableType
    <2> QED
        BY <1>0, <2>1 DEF Lengths
<1>5. CASE OutOfMemory \/ symbol_table_deinit
    <2>1. pc' = "none" /\ table' = EmptyTable
        BY <1>5 DEF OutOfMemory, symbol_table_deinit, Deinitialized
    <2> QED
        BY <2>1 DEF Lengths, EmptyTable
<1>6. CASE InsertName
    <2>1. /\ table'.count = table.count
          /\ table'.symbol = Append(table.symbol, request.symbol)
          /\ table'.address = Append(table.address, request.address)
        BY <1>6, NameInserted
    <2>2. pc = "add_name" /\ pc' = "add_address"
        BY <1>6 DEF InsertName, StartSearch
    <2>3. request.symbol \in Int /\ request.address \in Int
        BY <2>2, RequestType DEF TableInv, Served
    <2>4. Len(table.symbol) = table.count /\ Len(table.address) = table.count
        BY <1>0, <2>2 DEF Lengths
    <2>5. Len(table'.symbol) = table.count + 1 /\ Len(table'.address) = table.count + 1
        BY <1>0, <2>1, <2>3, <2>4, Appended
    <2> QED
        BY <2>1, <2>2, <2>5 DEF Lengths
<1>7. CASE InsertAddress
    <2>1. /\ table'.count = table.count + 1 /\ table'.symbol = table.symbol
          /\ table'.address = table.address
        BY <1>7, AddressInserted
    <2>2. pc = "add_address" /\ pc' = "ready"
        BY <1>7 DEF InsertAddress, Return
    <2> QED
        BY <1>0, <2>1, <2>2 DEF Lengths
<1> QED
    BY <1>1, <1>2, <1>3, <1>4, <1>5, <1>6, <1>7 DEF Changes

LEMMA StepCollected ==
    ASSUME TableInv, TableStep
    PROVE  Collected'
<1>0. /\ Collected /\ Served /\ Lengths /\ table \in TableType /\ table.count \in Nat
      /\ SegmentBounds' = SegmentBounds /\ symtab' = symtab /\ Wanted' = Wanted
      /\ \A i : Name(i)' = Name(i) /\ Value(i)' = Value(i)
    BY ImageKept DEF TableInv, Types, TableType
<1> DEFINE Upto(n) == {[symbol |-> Name(i), address |-> Value(i)] : i \in {j \in Wanted : j <= n}}
<1>1. Upto(noted.symbol)' = Upto(noted.symbol')
    BY <1>0
<1>2. CASE ~ Changes /\ ~ AllocateArrays
    <2>1. /\ table' = table /\ Entries(table') = Entries(table)
          /\ pc' \in {"none", "collect"} => pc' = pc
          /\ Quiet \/ (Built /\ Built')
        BY <1>2, TableKept
    <2>2. CASE Quiet
        BY <1>0, <1>1, <2>1, <2>2 DEF Quiet, tableVars, Collected
    <2>3. CASE Built'
        BY <2>3 DEF Built, Collected
    <2> QED
        BY <2>1, <2>2, <2>3
<1>3. CASE AllocateArrays
    <2>1. /\ pc = "allocate" /\ pc' \in {"collect", "out_of_memory"}
          /\ noted' = noted /\ noted.symbol = 0 /\ table' = table
          /\ table = [EmptyTable EXCEPT !.segment = SegmentBounds] /\ symtab # NULL
        BY <1>0, <1>3 DEF AllocateArrays, Collected, Served, Nothing
    <2>2. Entries(table) = {}
        <3>1. table.count = 0
            BY <2>1 DEF EmptyTable
        <3> QED
            BY <3>1 DEF Entries
    <2>3. Upto(0) = {}
        <3>1. PICK n \in Nat : Wanted \in SUBSET (1 .. n)
            BY <2>1, SymtabFacts DEF TableInv, Types
        <3>2. \A j \in Wanted : ~ (j <= 0)
            <4> SUFFICES ASSUME NEW j \in Wanted PROVE ~ (j <= 0)
                OBVIOUS
            <4>1. j \in 1 .. n
                BY <3>1
            <4> QED
                BY <4>1
        <3>3. {j \in Wanted : j <= 0} = {}
            BY <3>2
        <3> QED
            BY <3>3
    <2>4. table.segment = SegmentBounds
        BY <2>1 DEF EmptyTable
    <2>5. Entries(table') = Upto(noted.symbol')
        BY <2>1, <2>2, <2>3
    <2> QED
        BY <1>0, <1>1, <2>1, <2>4, <2>5 DEF Collected
<1>4. CASE CollectSegments
    <2>1. /\ pc = "none" /\ pc' \in {"ready", "allocate", "out_of_memory"}
          /\ pc' = "allocate" =>
                table' = [EmptyTable EXCEPT !.segment = SegmentBounds] /\ symtab # NULL
        BY <1>4 DEF CollectSegments
    <2> QED
        BY <1>0, <2>1 DEF Collected
<1>5. CASE collect_symbol
    <2> DEFINE m == Min(Uncollected)
    <2>1. pc = "collect" /\ pc' \in {"collect", "out_of_memory"} /\ Uncollected # {}
        BY <1>5 DEF collect_symbol
    <2>2. CASE pc' = "out_of_memory"
        BY <2>2 DEF Collected
    <2>3. CASE pc' = "collect"
        <3>1. /\ table'.count = table.count + 1 /\ table'.segment = table.segment
              /\ table'.symbol = Append(table.symbol, Name(m))
              /\ table'.address = Append(table.address, Value(m))
              /\ noted'.symbol = m
            BY <1>0, <1>5, <2>3 DEF collect_symbol, TableType, TableInv, Types
        <3>2. /\ m \in Wanted /\ Name(m) \in Int /\ Value(m) \in Int
              /\ \A i \in Wanted : i <= m <=> i <= noted.symbol \/ i = m
            BY <2>1, NextCollected
        <3>3. /\ table.symbol \in Seq(Int) /\ table.address \in Seq(Int)
              /\ Len(table.symbol) = table.count /\ Len(table.address) = table.count
            BY <1>0, <2>1 DEF TableType, Lengths
        <3> HIDE DEF m
        <3>4. /\ \A i \in 1 .. table.count : /\ table'.symbol[i] = table.symbol[i]
                                             /\ table'.address[i] = table.address[i]
              /\ table'.symbol[table.count + 1] = Name(m)
              /\ table'.address[table.count + 1] = Value(m)
            BY <3>1, <3>2, <3>3, Appended
        <3>5. Entries(table') = Entries(table) \cup {[symbol |-> Name(m), address |-> Value(m)]}
            <4>1. 1 .. table'.count = (1 .. table.count) \cup {table.count + 1}
                BY <1>0, <3>1
            <4> QED
                BY <3>4, <4>1 DEF Entries
        <3>6. {j \in Wanted : j <= m} = {j \in Wanted : j <= noted.symbol} \cup {m}
            BY <3>2
        <3>7. Upto(m) = Upto(noted.symbol) \cup {[symbol |-> Name(m), address |-> Value(m)]}
            BY <3>6
        <3>8. Entries(table) = Upto(noted.symbol) /\ table.segment = SegmentBounds /\ symtab # NULL
            BY <1>0, <2>1 DEF Collected
        <3>9. Entries(table') = Upto(noted.symbol')
            BY <3>1, <3>5, <3>7, <3>8
        <3> QED
            BY <1>0, <1>1, <2>3, <3>1, <3>8, <3>9 DEF Collected
    <2> QED
        BY <2>1, <2>2, <2>3
<1>6. CASE OutOfMemory \/ symbol_table_deinit
    BY <1>6 DEF OutOfMemory, symbol_table_deinit, Deinitialized, Collected
<1>7. CASE SortSymbols \/ InsertName \/ InsertAddress
    <2>1. pc' \notin {"none", "allocate", "collect"}
        BY <1>7 DEF SortSymbols, InsertName, InsertAddress, StartSearch, Return
    <2> QED
        BY <2>1 DEF Collected
<1> QED
    BY <1>2, <1>3, <1>4, <1>5, <1>6, <1>7 DEF Changes

(* Values that are not visited do not matter. *)
LEMMA OrdersKept ==
    ASSUME NEW order, NEW n \in Nat, NEW values, Orders(order, n, values), NEW new,
           \A k \in 1 .. n : new[k] = values[k]
    PROVE  Orders(order, n, new)
<1>1. order \in [1 .. n -> 0 .. n - 1]
    BY DEF Orders
<1>2. \A i \in 1 .. n : order[i] + 1 \in 1 .. n
    BY <1>1
<1>3. [i \in 1 .. n |-> new[order[i] + 1]] = [i \in 1 .. n |-> values[order[i] + 1]]
    BY <1>2
<1> QED
    BY <1>3 DEF Orders

LEMMA NothingToOrder == Orders(<<>>, 0, <<>>)
<1>1. <<>> \in [1 .. 0 -> 0 .. 0 - 1]
    OBVIOUS
<1>2. Onto(<<>>, 0)
    BY DEF Onto
<1>3. [i \in 1 .. 0 |-> <<>>[<<>>[i] + 1]] = <<>>
    OBVIOUS
<1>4. Sorted(<<>>)
    BY DEF Sorted
<1> QED
    BY <1>1, <1>2, <1>3, <1>4 DEF Orders

LEMMA StepOrdered ==
    ASSUME TableInv, TableStep
    PROVE  Ordered'
<1>0. /\ Ordered /\ table \in TableType /\ table.count \in Nat /\ SegmentBounds' = SegmentBounds
      /\ table.symbol \in Seq(Int) /\ table.address \in Seq(Int)
    BY ImageKept DEF TableInv, Types, TableType
<1>1. CASE ~ Changes
    <2>1. table' = table /\ (AllocateArrays \/ Quiet \/ (Built /\ Built'))
        BY <1>1, TableKept
    <2>2. CASE AllocateArrays
        BY <2>2 DEF AllocateArrays, Ordered, Built
    <2>3. CASE Quiet
        BY <1>0, <2>1, <2>3 DEF Quiet, tableVars, Ordered, Built
    <2>4. CASE Built /\ Built'
        BY <1>0, <2>1, <2>4 DEF Ordered
    <2> QED
        BY <2>1, <2>2, <2>3, <2>4
<1>2. CASE CollectSegments
    <2>1. \/ table' = [EmptyTable EXCEPT !.segment = SegmentBounds]
          \/ pc' = "out_of_memory"
        BY <1>2 DEF CollectSegments
    <2>2. CASE table' = [EmptyTable EXCEPT !.segment = SegmentBounds]
        <3>1. /\ table'.sort_symbol = <<>> /\ table'.sort_address = <<>> /\ table'.count = 0
              /\ table'.symbol = <<>> /\ table'.address = <<>> /\ table'.segment = SegmentBounds
            BY <2>2 DEF EmptyTable
        <3>2. Len(table'.symbol) = 0
            BY <3>1
        <3> QED
            BY <1>0, <3>1, <3>2, NothingToOrder DEF Ordered
    <2>3. CASE pc' = "out_of_memory"
        BY <2>3 DEF Ordered, Built
    <2> QED
        BY <2>1, <2>2, <2>3
<1>3. CASE collect_symbol \/ OutOfMemory \/ symbol_table_deinit
    BY <1>3 DEF collect_symbol, OutOfMemory, symbol_table_deinit, Ordered, Built
<1>4. CASE SortSymbols
    <2>1. CASE pc' = "out_of_memory"
        BY <2>1 DEF Ordered, Built
    <2>2. CASE pc' # "out_of_memory"
        <3>1. PICK by_name \in SortOrders(table.symbol), by_address \in SortOrders(table.address) :
                 table' = [table EXCEPT !.sort_symbol = by_name, !.sort_address = by_address]
            BY <1>4, <2>2 DEF SortSymbols
        <3>2. /\ table'.sort_symbol = by_name /\ table'.sort_address = by_address
              /\ table'.symbol = table.symbol /\ table'.address = table.address
              /\ table'.count = table.count /\ table'.segment = table.segment
            BY <1>0, <3>1 DEF TableType
        <3>3. /\ Orders(by_name, Len(table.symbol), table.symbol)
              /\ Orders(by_address, Len(table.address), table.address)
            BY <1>0, SortedOrders, Zenon
        <3>4. Len(table.address) = table.count /\ table.segment = SegmentBounds
            <4>1. pc = "collect" /\ Lengths /\ Collected
                BY <1>4 DEF SortSymbols, TableInv
            <4>2. Len(table.address) = table.count
                BY <1>0, <4>1 DEF Lengths
            <4>3. table.segment = SegmentBounds
                BY <4>1 DEF Collected
            <4> QED
                BY <4>2, <4>3
        <3> QED
            BY <1>0, <3>2, <3>3, <3>4 DEF Ordered
    <2> QED
        BY <2>1, <2>2
<1>5. CASE InsertName
    <2>1. /\ table'.symbol = Append(table.symbol, request.symbol)
          /\ table'.address = Append(table.address, request.address)
          /\ table'.count = table.count /\ table'.segment = table.segment
          /\ table'.sort_address = table.sort_address
          /\ Orders(table'.sort_symbol, table.count + 1, table'.symbol)
        BY <1>5, NameInserted
    <2>2. pc = "add_name" /\ Built
        BY <1>5 DEF InsertName, Built
    <2>3. request.symbol \in Int /\ request.address \in Int
        BY <2>2, RequestType DEF TableInv, Served
    <2>4. Len(table.symbol) = table.count /\ Len(table.address) = table.count
        BY <1>0, <2>2 DEF TableInv, Lengths
    <2>5. /\ Len(table'.symbol) = table.count + 1
          /\ \A k \in 1 .. table.count : table'.address[k] = table.address[k]
        BY <1>0, <2>1, <2>3, <2>4, Appended
    <2>6. Orders(table.sort_address, table.count, table.address) /\ table.segment = SegmentBounds
        BY <1>0, <2>2 DEF Ordered
    <2>7. Orders(table.sort_address, table.count, table'.address)
        BY <1>0, <2>5, <2>6, OrdersKept, Zenon
    <2> QED
        BY <1>0, <2>1, <2>5, <2>6, <2>7 DEF Ordered
<1>6. CASE InsertAddress
    <2>1. /\ table'.symbol = table.symbol /\ table'.address = table.address
          /\ table'.count = table.count + 1 /\ table'.segment = table.segment
          /\ table'.sort_symbol = table.sort_symbol
          /\ Orders(table'.sort_address, table.count + 1, table.address)
        BY <1>6, AddressInserted
    <2>2. Built
        BY <1>6 DEF InsertAddress, Built
    <2> QED
        BY <1>0, <2>1, <2>2 DEF Ordered
<1> QED
    BY <1>1, <1>2, <1>3, <1>4, <1>5, <1>6 DEF Changes

(* Names and addresses make a sorted array to search. *)
LEMMA ArraysSearched ==
    ASSUME TableInv, Built
    PROVE  /\ Names \in Seq(Int) /\ Sorted(Names) /\ Len(Names) = Len(table.symbol)
           /\ Addresses \in Seq(Int) /\ Sorted(Addresses) /\ Len(Addresses) = table.count
<1>1. Types /\ Lengths /\ Ordered
    BY DEF TableInv
<1> QED
    BY <1>1, NamesSeen, AddressesSeen DEF Sees

(* The symbol that was noted is one of those in the table. *)
LEMMA NotedAddress ==
    ASSUME TableInv, pc \in {"size", "end"}
    PROVE  noted.symbol + 1 \in 1 .. table.count /\ AddressFound \in Int
<1>1. /\ noted.symbol \in 0 .. table.count - 1 /\ noted.symbol \in Nat /\ table.count \in Nat
      /\ table.address \in Seq(Int) /\ Len(table.address) = table.count
    <2>1. Types /\ Located /\ Lengths
        BY DEF TableInv
    <2>2. table.count \in Nat /\ table.address \in Seq(Int) /\ noted.symbol \in Nat
        BY <2>1 DEF Types, TableType
    <2> QED
        BY <2>1, <2>2 DEF Located, Lengths
<1>2. noted.symbol + 1 \in 1 .. table.count
    BY <1>1
<1> QED
    BY <1>1, <1>2 DEF AddressFound

LEMMA StepSearched ==
    ASSUME TableInv, TableStep
    PROVE  Searched'
<1>0. Searched /\ SearchInv /\ Types
    BY DEF TableInv, Searched
<1> DEFINE Unsought == pc' \notin {"by_name", "add_name", "by_address", "add_address", "end"}
<1>1. CASE UNCHANGED searchVars /\ Unsought
    BY <1>0, <1>1, SearchStays DEF Searched
<1>2. CASE FindSymbol
    <2>1. /\ StartSearch(Names, request.symbol, IF pc = "add" THEN "add_name" ELSE "by_name")
          /\ pc \in {"symbol", "add"} /\ ~ Changes /\ Built /\ request' = request
        BY <1>2 DEF FindSymbol, Built, Changes, CollectSegments, collect_symbol, SortSymbols,
           OutOfMemory, symbol_table_deinit, InsertName, InsertAddress
    <2>2. request.symbol \in Int
        BY <1>0, <2>1, RequestType DEF TableInv, Served
    <2>3. Names \in Seq(Int) /\ Sorted(Names) /\ Names' = Names
        BY <2>1, ArraysSearched, TableKept
    <2>4. SearchInv'
        BY <2>1, <2>2, <2>3, SearchStarts DEF StartSearch
    <2>5. array' = Names /\ key' = request.symbol /\ pc' \in {"by_name", "add_name"}
        BY <2>1 DEF StartSearch
    <2> QED
        BY <2>1, <2>3, <2>4, <2>5 DEF Searched
<1>3. CASE FindAddress
    <2>1. /\ StartSearch(Addresses, request.address, "by_address")
          /\ pc = "address" /\ ~ Changes /\ Built /\ request' = request
        BY <1>3 DEF FindAddress, Built, Changes, CollectSegments, collect_symbol, SortSymbols,
           OutOfMemory, symbol_table_deinit, InsertName, InsertAddress
    <2>2. request.address \in Int
        BY <1>0, <2>1, RequestType DEF TableInv, Served
    <2>3. Addresses \in Seq(Int) /\ Sorted(Addresses) /\ Addresses' = Addresses
        BY <2>1, ArraysSearched, TableKept
    <2>4. SearchInv'
        BY <2>1, <2>2, <2>3, SearchStarts DEF StartSearch
    <2>5. array' = Addresses /\ key' = request.address /\ pc' = "by_address"
        BY <2>1 DEF StartSearch
    <2> QED
        BY <2>1, <2>3, <2>4, <2>5 DEF Searched
<1>4. CASE FindSymbolEnd
    <2>1. /\ StartSearch(Addresses, AddressFound + 1, "end") /\ pc = "size"
          /\ ~ Changes /\ Built /\ request' = request /\ noted'.symbol = noted.symbol
          /\ request.what = "symbol" /\ table' = table
        BY <1>0, <1>4 DEF FindSymbolEnd, Built, Changes, CollectSegments, collect_symbol, SortSymbols,
           OutOfMemory, symbol_table_deinit, InsertName, InsertAddress, TableInv, Served, Types
    <2>2. AddressFound + 1 \in Int /\ AddressFound' = AddressFound
          /\ 1 + AddressFound = AddressFound + 1
        BY <2>1, NotedAddress DEF AddressFound
    <2>3. Addresses \in Seq(Int) /\ Sorted(Addresses) /\ Addresses' = Addresses
        BY <2>1, ArraysSearched, TableKept
    <2>4. SearchInv'
        BY <2>1, <2>2, <2>3, SearchStarts DEF StartSearch
    <2>5. array' = Addresses /\ key' = AddressFound + 1 /\ pc' = "end"
        BY <2>1 DEF StartSearch
    <2> QED
        BY <2>1, <2>2, <2>3, <2>4, <2>5 DEF Searched
<1>5. CASE FindEnd
    <2>1. /\ StartSearch(Addresses, request.address + 1, "end") /\ pc = "by_address"
          /\ ~ Changes /\ Built /\ request' = request /\ request.what = "address"
        BY <1>5 DEF FindEnd, Built, Changes, CollectSegments, collect_symbol, SortSymbols,
           OutOfMemory, symbol_table_deinit, InsertName, InsertAddress, TableInv, Served
    <2>2. request.address + 1 \in Int /\ 1 + request.address = request.address + 1
        <3>1. request.address \in Int
            BY <1>0, <2>1, RequestType
        <3> QED
            BY <3>1
    <2>3. Addresses \in Seq(Int) /\ Sorted(Addresses) /\ Addresses' = Addresses
        BY <2>1, ArraysSearched, TableKept
    <2>4. SearchInv'
        BY <2>1, <2>2, <2>3, SearchStarts DEF StartSearch
    <2>5. array' = Addresses /\ key' = request.address + 1 /\ pc' = "end"
        BY <2>1 DEF StartSearch
    <2> QED
        BY <2>1, <2>2, <2>3, <2>4, <2>5 DEF Searched
<1>6. CASE InsertName
    <2>1. /\ StartSearch(Addresses, request.address, "add_address")
          /\ pc = "add_name" /\ Built /\ request' = request
        BY <1>6 DEF InsertName, Built
    <2>2. request.address \in Int
        BY <1>0, <2>1, RequestType DEF TableInv, Served
    <2>3. /\ table'.address = Append(table.address, request.address)
          /\ table'.sort_address = table.sort_address
        BY <1>6, NameInserted
    <2>4. Addresses \in Seq(Int) /\ Sorted(Addresses)
        BY <2>1, ArraysSearched
    <2>5. Addresses' = Addresses
        <3>1. /\ table.address \in Seq(Int) /\ Len(table.address) = table.count
              /\ table.count \in Nat
              /\ table.sort_address \in [1 .. table.count -> 0 .. table.count - 1]
            BY <1>0, <2>1 DEF Types, TableType, TableInv, Lengths, Ordered, Orders
        <3>2. \A k \in 1 .. table.count : table'.address[k] = table.address[k]
            BY <2>2, <2>3, <3>1, Appended
        <3>3. \A i \in 1 .. table.count : table.sort_address[i] + 1 \in 1 .. table.count
            BY <3>1
        <3>4. DOMAIN table.sort_address = 1 .. table.count
            BY <3>1
        <3> QED
            BY <2>3, <3>2, <3>3, <3>4 DEF Addresses
    <2>6. SearchInv'
        BY <2>1, <2>2, <2>4, SearchStarts DEF StartSearch
    <2>7. array' = Addresses /\ key' = request.address /\ pc' = "add_address"
        BY <2>1 DEF StartSearch
    <2> QED
        BY <2>1, <2>5, <2>6, <2>7 DEF Searched
<1>7. CASE SearchStep
    <2>1. UNCHANGED tableVars /\ Next
        BY <1>7 DEF SearchStep
    <2>2. SearchInv'
        BY <1>0, <2>1, SearchTurns
    <2>3. array' = array /\ key' = key
        BY <2>1 DEF Next, GoLeft, GoRight, Hit, Miss
    <2>4. /\ pc' = pc /\ request' = request /\ Names' = Names /\ Addresses' = Addresses
          /\ AddressFound' = AddressFound
        BY <2>1 DEF tableVars, Names, Addresses, AddressFound
    <2> QED
        BY <1>0, <2>2, <2>3, <2>4 DEF Searched
<1>8. CASE Quiet
    <2>1. SearchInv' /\ array' = array /\ key' = key
        BY <1>0, <1>8, SearchStays DEF Quiet, searchVars
    <2>2. /\ pc' = pc /\ request' = request /\ Names' = Names /\ Addresses' = Addresses
          /\ AddressFound' = AddressFound
        BY <1>8 DEF Quiet, tableVars, Names, Addresses, AddressFound
    <2> QED
        BY <1>0, <2>1, <2>2 DEF Searched
<1>9. CASE \/ CollectSegments \/ AllocateArrays \/ collect_symbol \/ SortSymbols \/ OutOfMemory
           \/ symbol_table_deinit \/ AskFor \/ SymbolFound \/ SymbolNotFound \/ NoSizeWanted
           \/ SizeAborts \/ NotInSegment \/ BeforeAllSymbols \/ EndFound \/ AlreadyPresent
           \/ AddOutOfMemory \/ InsertAddress
    <2>1. UNCHANGED searchVars /\ Unsought
        BY <1>9, RequestsAssumption DEF CollectSegments, AllocateArrays, collect_symbol,
           SortSymbols, OutOfMemory, symbol_table_deinit, AskFor, SymbolFound, SymbolNotFound,
           NoSizeWanted, SizeAborts, NotInSegment, BeforeAllSymbols, EndFound, AlreadyPresent,
           AddOutOfMemory, InsertAddress, Return
    <2> QED
        BY <1>1, <2>1
<1> QED
    BY <1>2, <1>3, <1>4, <1>5, <1>6, <1>7, <1>8, <1>9 DEF TableStep

(* The name that was searched is that of the symbol that is noted. *)
LEMMA NameFound ==
    ASSUME TableInv, SymbolFound
    PROVE  /\ noted'.symbol \in 0 .. table.count - 1
           /\ table.symbol[noted'.symbol + 1] = request.symbol
           /\ request.what = "symbol"
<1>1. /\ Types /\ Lengths /\ Ordered /\ Built /\ pc = "by_name" /\ found = "yes"
      /\ SearchInv /\ array = Names /\ key = request.symbol /\ request.what = "symbol"
      /\ noted' = [noted EXCEPT !.symbol = table.sort_symbol[index + 1]]
    BY DEF SymbolFound, TableInv, Searched, Served, Built
<1>2. /\ table.count \in Nat /\ Len(table.symbol) = table.count
      /\ noted \in [symbol : Nat, end : Int]
      /\ table.sort_symbol \in [1 .. table.count -> 0 .. table.count - 1]
    BY <1>1 DEF Types, TableType, Lengths, Ordered, Orders
<1>3. Sees(Names, table.sort_symbol, table.count, table.symbol)
    BY <1>1, <1>2, NamesSeen
<1>4. index + 1 \in 1 .. table.count /\ Names[index + 1] = request.symbol
    BY <1>1, <1>3, SearchResult DEF Sees
<1>5. noted'.symbol = table.sort_symbol[index + 1]
    BY <1>1, <1>2
<1>6. table.symbol[noted'.symbol + 1] = request.symbol
    BY <1>3, <1>4, <1>5 DEF Sees
<1> QED
    BY <1>1, <1>2, <1>4, <1>5, <1>6

(* The symbol that is noted for an address is the last at or before it. *)
LEMMA LastBefore ==
    ASSUME TableInv, FindEnd
    PROVE  /\ noted'.symbol \in 0 .. table.count - 1
           /\ table.address[noted'.symbol + 1] <= request.address
           /\ \A k \in 1 .. table.count :
                 table.address[k] <= request.address =>
                    table.address[k] <= table.address[noted'.symbol + 1]
           /\ request.what = "address" /\ noted'.end = noted.end
<1> DEFINE n == table.count
           i == IF found = "yes" THEN index + 1 ELSE index
<1>1. /\ Types /\ Lengths /\ Ordered /\ Built /\ pc = "by_address" /\ found \in {"yes", "no"}
      /\ (found = "no" => index > 0)
      /\ SearchInv /\ array = Addresses /\ key = request.address /\ request.what = "address"
      /\ noted' = [noted EXCEPT !.symbol = table.sort_address[i]]
    BY DEF FindEnd, TableInv, Searched, Served, Built
<1>2. /\ n \in Nat /\ Len(table.address) = n /\ table.address \in Seq(Int)
      /\ noted \in [symbol : Nat, end : Int]
      /\ table.sort_address \in [1 .. n -> 0 .. n - 1]
      /\ request.address \in Int
    BY <1>1, RequestType DEF Types, TableType, Lengths, Ordered, Orders
<1>3. Sees(Addresses, table.sort_address, n, table.address)
    BY <1>1, AddressesSeen
<1> HIDE DEF i
<1>4. noted'.symbol = table.sort_address[i] /\ noted'.end = noted.end
    BY <1>1, <1>2
<1>5. /\ Len(Addresses) = n /\ \A k \in 1 .. n : Addresses[k] \in Int
      /\ \A a, b \in 1 .. n : a <= b => Addresses[a] <= Addresses[b]
    <2>1. Addresses \in Seq(Int) /\ Sorted(Addresses) /\ Len(Addresses) = n
        BY <1>3 DEF Sees
    <2>2. \A k \in 1 .. n : Addresses[k] \in Int
        BY <2>1
    <2> QED
        BY <2>1, <2>2 DEF Sorted
<1>6. /\ index \in 0 .. n
      /\ found = "yes" => index + 1 \in 1 .. n
      /\ found = "yes" => Addresses[index + 1] = request.address
      /\ \A k \in 1 .. index : Addresses[k] <= request.address
      /\ found = "no" => \A k \in index + 1 .. n : request.address < Addresses[k]
    BY <1>1, <1>5, SearchResult
<1>7. i \in 1 .. n /\ Addresses[i] <= request.address
    <2>1. CASE found = "yes"
        <3>1. i = index + 1
            BY <2>1 DEF i
        <3>2. i \in 1 .. n /\ Addresses[i] = request.address
            BY <1>6, <2>1, <3>1
        <3> QED
            BY <1>2, <3>2
    <2>2. CASE found = "no"
        <3>1. i = index /\ index > 0 /\ index \in 0 .. n
            BY <1>1, <1>6, <2>2 DEF i
        <3>2. index \in 1 .. index /\ index \in 1 .. n
            BY <1>2, <3>1
        <3>3. Addresses[index] <= request.address
            BY <1>6, <3>2
        <3> QED
            BY <3>1, <3>2, <3>3
    <2> QED
        BY <1>1, <2>1, <2>2
<1>8. ASSUME NEW j \in 1 .. n, Addresses[j] <= request.address
      PROVE  Addresses[j] <= Addresses[i]
    <2>1. CASE found = "yes"
        BY <1>6, <1>8, <2>1 DEF i
    <2>2. CASE found = "no"
        <3>1. i = index
            BY <2>2 DEF i
        <3>2. j <= i
            <4>1. Addresses[j] \in Int
                BY <1>5
            <4>2. ~ (j \in index + 1 .. n)
                BY <1>2, <1>6, <1>8, <2>2, <4>1
            <4>3. index \in 0 .. n /\ j \in 1 .. n
                BY <1>6
            <4> QED
                BY <1>2, <3>1, <4>2, <4>3
        <3> QED
            BY <1>5, <1>7, <3>2
    <2> QED
        BY <1>1, <2>1, <2>2
<1>9. table.address[noted'.symbol + 1] = Addresses[i]
    BY <1>3, <1>4, <1>7 DEF Sees
<1>10. ASSUME NEW k \in 1 .. n, table.address[k] <= request.address
       PROVE  table.address[k] <= Addresses[i]
    <2>1. PICK j \in 1 .. n : Addresses[j] = table.address[k]
        BY <1>3 DEF Sees
    <2> QED
        BY <1>8, <1>10, <2>1
<1>11. noted'.symbol \in 0 .. n - 1
    BY <1>2, <1>4, <1>7
<1> QED
    BY <1>1, <1>4, <1>7, <1>9, <1>10, <1>11

LEMMA StepLocated ==
    ASSUME TableInv, TableStep
    PROVE  Located'
<1>0. /\ Located /\ Types /\ Served /\ Lengths /\ table.count \in Nat /\ image \in Images
      /\ \A a, end : EndsWith(a, end)' = EndsWith(a, end)
    BY ImageKept DEF TableInv, Types, TableType
<1>1. CASE pc' \notin {"size", "end", "by_address", "add_address"}
    BY <1>1 DEF Located
<1>2. CASE SymbolFound
    <2>1. /\ noted'.symbol \in 0 .. table.count - 1
          /\ table.symbol[noted'.symbol + 1] = request.symbol
        BY <1>2, NameFound
    <2>2. table' = table /\ request' = request /\ pc' = "size"
        BY <1>2 DEF SymbolFound
    <2> QED
        BY <2>1, <2>2 DEF Located
<1>3. CASE FindSymbolEnd
    <2>1. /\ pc = "size" /\ pc' = "end" /\ table' = table /\ request' = request
          /\ request.size /\ request.what = "symbol" /\ SegmentOf(AddressFound) # NULL
          /\ noted' = [noted EXCEPT !.end = table.segment[SegmentOf(AddressFound)][2]]
        BY <1>0, <1>3 DEF FindSymbolEnd, StartSearch, Served
    <2>2. noted \in [symbol : Nat, end : Int] /\ table.segment = SegmentBounds
        BY <2>1 DEF TableInv, Types, Ordered, Built
    <2>3. AddressFound \in Int
        BY <2>1, NotedAddress
    <2>4. /\ noted'.symbol = noted.symbol
          /\ noted'.end = table.segment[SegmentOf(AddressFound)][2]
          /\ AddressFound' = AddressFound
        BY <2>1, <2>2 DEF AddressFound
    <2>5. EndsWith(AddressFound, noted'.end)
        BY <1>0, <2>1, <2>2, <2>3, <2>4, SegmentFound
    <2>6. EndsWith(AddressFound, noted.end)'
        BY <1>0, <2>4, <2>5
    <2> QED
        BY <1>0, <2>1, <2>4, <2>6 DEF Located
<1>4. CASE FindAddress
    <2>1. /\ pc = "address" /\ pc' = "by_address" /\ table' = table /\ request' = request
          /\ request.what = "address" /\ SegmentOf(request.address) # NULL
          /\ noted' = [noted EXCEPT !.end = table.segment[SegmentOf(request.address)][2]]
        BY <1>0, <1>4 DEF FindAddress, StartSearch, Served
    <2>2. noted \in [symbol : Nat, end : Int] /\ table.segment = SegmentBounds
        BY <2>1 DEF TableInv, Types, Ordered, Built
    <2>3. request.address \in Int
        BY <1>0, <2>1, RequestType
    <2>4. noted'.end = table.segment[SegmentOf(request.address)][2]
        BY <2>2, <2>1
    <2>5. EndsWith(request.address, noted'.end)
        BY <1>0, <2>1, <2>2, <2>3, <2>4, SegmentFound
    <2>6. EndsWith(request.address, noted.end)'
        BY <1>0, <2>1, <2>5
    <2> QED
        BY <2>1, <2>6 DEF Located
<1>5. CASE FindEnd
    <2>1. /\ pc = "by_address" /\ pc' = "end" /\ table' = table /\ request' = request
        BY <1>5 DEF FindEnd, StartSearch
    <2>2. /\ noted'.symbol \in 0 .. table.count - 1
          /\ table.address[noted'.symbol + 1] <= request.address
          /\ \A k \in 1 .. table.count :
                table.address[k] <= request.address =>
                   table.address[k] <= table.address[noted'.symbol + 1]
          /\ request.what = "address" /\ noted'.end = noted.end
        BY <1>5, LastBefore
    <2>3. AddressFound' = table.address[noted'.symbol + 1]
        BY <2>1 DEF AddressFound
    <2>4. EndsWith(request.address, noted.end)
        BY <1>0, <2>1, <2>2 DEF Located
    <2>5. EndsWith(request.address, noted.end)'
        BY <1>0, <2>1, <2>2, <2>4
    <2> QED
        BY <2>1, <2>2, <2>3, <2>5 DEF Located
<1>6. CASE InsertName
    <2>1. /\ table'.symbol = Append(table.symbol, request.symbol)
          /\ table'.address = Append(table.address, request.address)
          /\ table'.count = table.count
          /\ \A i \in 1 .. table.count : table.symbol[i] # request.symbol
        BY <1>6, NameInserted
    <2>2. pc = "add_name" /\ pc' = "add_address" /\ request' = request
        BY <1>6 DEF InsertName, StartSearch
    <2>3. request.symbol \in Int /\ request.address \in Int
        BY <1>0, <2>2, RequestType DEF Served
    <2>4. /\ Len(table.symbol) = table.count /\ Len(table.address) = table.count
          /\ table.symbol \in Seq(Int) /\ table.address \in Seq(Int)
        BY <1>0, <2>2 DEF Lengths, Types, TableType
    <2>5. /\ table'.symbol[table.count + 1] = request.symbol
          /\ table'.address[table.count + 1] = request.address
          /\ \A i \in 1 .. table.count : table'.symbol[i] = table.symbol[i]
        BY <2>1, <2>3, <2>4, Appended
    <2> QED
        BY <2>1, <2>2, <2>5 DEF Located
<1>7. CASE SearchStep \/ Quiet
    <2>1. UNCHANGED tableVars
        BY <1>7 DEF SearchStep, Quiet
    <2>2. /\ pc' = pc /\ table' = table /\ request' = request /\ noted' = noted
          /\ AddressFound' = AddressFound
        BY <2>1 DEF tableVars, AddressFound
    <2>3. /\ EndsWith(AddressFound, noted.end)' = EndsWith(AddressFound, noted.end)
          /\ EndsWith(request.address, noted.end)' = EndsWith(request.address, noted.end)
        BY <1>0, <2>2
    <2> QED
        BY <1>0, <2>2, <2>3 DEF Located
<1>8. CASE \/ CollectSegments \/ AllocateArrays \/ collect_symbol \/ SortSymbols \/ OutOfMemory
           \/ symbol_table_deinit \/ AskFor \/ FindSymbol \/ SymbolNotFound \/ NoSizeWanted
           \/ SizeAborts \/ NotInSegment \/ BeforeAllSymbols \/ EndFound \/ AlreadyPresent
           \/ AddOutOfMemory \/ InsertAddress
    <2>1. pc' \notin {"size", "end", "by_address", "add_address"}
        BY <1>8, RequestsAssumption DEF CollectSegments, AllocateArrays, collect_symbol,
           SortSymbols, OutOfMemory, symbol_table_deinit, AskFor, FindSymbol, SymbolNotFound,
           NoSizeWanted, SizeAborts, NotInSegment, BeforeAllSymbols, EndFound, AlreadyPresent,
           AddOutOfMemory, InsertAddress, Return, StartSearch
    <2> QED
        BY <1>1, <2>1
<1> QED
    BY <1>2, <1>3, <1>4, <1>5, <1>6, <1>7, <1>8 DEF TableStep

LEMMA InitTable == SlideInit => TableInv
<1> SUFFICES ASSUME SlideInit PROVE TableInv
    OBVIOUS
<1> USE DEF SlideInit, TableInit
<1>1. Types
    <2>1. table \in TableType
        BY EmptyTableType
    <2> QED
        BY <2>1 DEF Types, Nothing, Reading
<1>2. Served
    BY DEF Served, NoRequest
<1>3. Owned /\ Lengths /\ Collected
    BY DEF Owned, NamesOwned, Lengths, Collected, EmptyTable
<1>4. Ordered /\ Located
    BY DEF Ordered, Built, Located
<1>5. Searched
    <2>1. SearchInv
        <3>1. <<>> \in Seq(Int) /\ Len(<<>>) = 0 /\ Sorted(<<>>)
            BY DEF Sorted
        <3> QED
            BY <3>1 DEF SearchInv, Ranges, Excluded, Correct, Count
    <2> QED
        BY <2>1 DEF Searched
<1> QED
    BY <1>1, <1>2, <1>3, <1>4, <1>5 DEF TableInv

LEMMA TableInvariant == SlideSpec => []TableInv
<1>1. TableInv /\ [SlideNext]_allVars => TableInv'
    <2> SUFFICES ASSUME TableInv, [SlideNext]_allVars PROVE TableInv'
        OBVIOUS
    <2>1. TableStep /\ (spc = "macos" => pc = "ready" /\ answer # Aborted)'
        BY SlideSteps
    <2> QED
        BY <2>1, StepTypes, StepServed, StepOwned, StepLengths, StepCollected, StepOrdered,
           StepSearched, StepLocated DEF TableInv
<1> QED
    BY <1>1, InitTable, PTL DEF SlideSpec

(***************************************************************************)
(* symbol_table.c owns one copy of each name that it counts, and nothing   *)
(* is left of a table that could not be built, whichever allocation failed. *)
(***************************************************************************)
THEOREM NamesAreOwned == SlideSpec => []NamesOwned
<1>1. TableInv => NamesOwned
    BY DEF TableInv, Owned
<1> QED
    BY <1>1, TableInvariant, PTL

(* The searches of the table are right, whatever it holds by then. *)
THEOREM TableSearches == SlideSpec => []Correct
<1>1. TableInv => Correct
    BY DEF TableInv, Searched, SearchInv
<1> QED
    BY <1>1, TableInvariant, PTL

-----------------------------------------------------------------------------
(* The table implements the map that its header promises. *)

(* Each segment of the image is one of the map's. *)
LEMMA BoundsOfImage ==
    ASSUME image \in Images, table.segment = SegmentBounds
    PROVE  /\ Bounds(table) = ImageContents(image).segments /\ Bounds(table) # {}
           /\ \A s \in Bounds(table) : \E i \in Segments(image) :
                 s = [start |-> SegmentBounds[i][1], end |-> SegmentBounds[i][2]]
           /\ \A i \in Segments(image) :
                 [start |-> SegmentBounds[i][1], end |-> SegmentBounds[i][2]] \in Bounds(table)
<1>1. /\ Segments(image) # {}
      /\ \A i \in Segments(image) : SegmentBounds[i] = <<image[i].vmaddr,
                                                         image[i].vmaddr + image[i].vmsize>>
    BY ImageFacts
<1>2. DOMAIN table.segment = Segments(image)
    BY DEF SegmentBounds
<1>3. Bounds(table) = {[start |-> SegmentBounds[i][1], end |-> SegmentBounds[i][2]] :
                          i \in Segments(image)}
    BY <1>2 DEF Bounds
<1>4. ImageContents(image).segments =
         {[start |-> image[i].vmaddr, end |-> image[i].vmaddr + image[i].vmsize] :
             i \in Segments(image)}
    BY DEF ImageContents
<1>5. \A i \in Segments(image) :
         [start |-> SegmentBounds[i][1], end |-> SegmentBounds[i][2]] =
         [start |-> image[i].vmaddr, end |-> image[i].vmaddr + image[i].vmsize]
    BY <1>1
<1>6. Bounds(table) = ImageContents(image).segments
    <2>1. \A s \in Bounds(table) : s \in ImageContents(image).segments
        BY <1>3, <1>4, <1>5
    <2>2. \A s \in ImageContents(image).segments : s \in Bounds(table)
        BY <1>3, <1>4, <1>5
    <2> QED
        BY <2>1, <2>2
<1> QED
    BY <1>1, <1>3, <1>6

(* When all symbols are collected, the table has those of the image. *)
LEMMA EntriesOfImage ==
    ASSUME TableInv, pc = "collect", Uncollected = {}
    PROVE  Entries(table) = ImageContents(image).entries
<1>1. /\ symtab # NULL /\ noted.symbol \in Nat
      /\ Entries(table) = {[symbol |-> Name(i), address |-> Value(i)] :
                              i \in {j \in Wanted : j <= noted.symbol}}
    BY DEF TableInv, Types, Collected
<1>2. {j \in Wanted : j <= noted.symbol} = Wanted
    <2>1. PICK n \in Nat : Wanted \in SUBSET (1 .. n)
        BY <1>1, SymtabFacts DEF TableInv, Types
    <2>2. ASSUME NEW j \in Wanted PROVE j <= noted.symbol
        <3>1. j \in 1 .. n
            BY <2>1
        <3>2. ~ (j > noted.symbol)
            BY DEF Uncollected
        <3> QED
            BY <1>1, <3>1, <3>2
    <2> QED
        BY <2>2
<1>3. ImageContents(image).entries = {[symbol |-> Name(i), address |-> Value(i)] : i \in Wanted}
    BY <1>1 DEF ImageContents, Name, Value, Wanted, symtab
<1> QED
    BY <1>1, <1>2, <1>3

LEMMA NoEntriesOfImage ==
    ASSUME symtab = NULL
    PROVE  ImageContents(image).entries = {}
BY DEF ImageContents, symtab

(* The segments that hold an address. *)
LEMMA ContainingSegments ==
    ASSUME TableInv, Built, NEW a \in Int
    PROVE  /\ SegmentOf(a) = NULL => Map!Containing(a) = {}
           /\ \A end : EndsWith(a, end) => \E s \in Map!Containing(a) : s.end = end
<1>1. image \in Images /\ table.segment = SegmentBounds
    BY DEF TableInv, Types, Ordered
<1>2. Map!Containing(a) = {s \in Bounds(table) : s.start <= a /\ a < s.end}
    BY DEF Map!Containing
<1>3. ASSUME SegmentOf(a) = NULL PROVE Map!Containing(a) = {}
    <2>1. \A i \in Segments(image) : ~ Holds(i, a)
        BY <1>1, <1>3, SegmentFound
    <2>2. ASSUME NEW s \in Bounds(table), s.start <= a, a < s.end PROVE FALSE
        <3>1. PICK i \in Segments(image) :
                 s = [start |-> SegmentBounds[i][1], end |-> SegmentBounds[i][2]]
            BY <1>1, BoundsOfImage
        <3> QED
            BY <2>1, <2>2, <3>1 DEF Holds
    <2> QED
        BY <1>2, <2>2
<1>4. ASSUME NEW end, EndsWith(a, end) PROVE \E s \in Map!Containing(a) : s.end = end
    <2>1. PICK i \in Segments(image) : Holds(i, a) /\ end = SegmentBounds[i][2]
        BY <1>4 DEF EndsWith
    <2> DEFINE s == [start |-> SegmentBounds[i][1], end |-> SegmentBounds[i][2]]
    <2>2. s \in Bounds(table)
        BY <1>1, BoundsOfImage
    <2>3. s.start <= a /\ a < s.end /\ s.end = end
        BY <2>1 DEF Holds
    <2> QED
        BY <1>2, <2>2, <2>3
<1> QED
    BY <1>3, <1>4

(* A name that was searched and not found is that of no entry. *)
LEMMA NameAbsent ==
    ASSUME TableInv, pc \in {"by_name", "add_name"}, found = "no"
    PROVE  \A i \in 1 .. table.count : table.symbol[i] # request.symbol
<1>1. /\ Types /\ Lengths /\ Ordered /\ Built /\ SearchInv
      /\ array = Names /\ key = request.symbol
    BY DEF TableInv, Searched, Built
<1>2. table.count \in Nat /\ Len(table.symbol) = table.count
    BY <1>1 DEF Types, TableType, Lengths
<1>3. Sees(Names, table.sort_symbol, table.count, table.symbol)
    BY <1>1, <1>2, NamesSeen
<1>4. /\ request.symbol \in Int /\ index \in 0 .. table.count
      /\ \A i \in 1 .. index : Names[i] < request.symbol
      /\ \A i \in index + 1 .. table.count : request.symbol < Names[i]
      /\ \A i \in 1 .. table.count : Names[i] \in Int
    BY <1>1, <1>3, SearchResult DEF Sees
<1>5. ASSUME NEW i \in 1 .. table.count PROVE table.symbol[i] # request.symbol
    <2>1. PICK j \in 1 .. table.count : Names[j] = table.symbol[i]
        BY <1>3 DEF Sees
    <2>2. j \in 1 .. index \/ j \in index + 1 .. table.count
        BY <1>2, <1>4
    <2> QED
        BY <1>4, <2>1, <2>2
<1> QED
    BY <1>5

(* No address is at or before one that belongs before all of them. *)
LEMMA AllAfter ==
    ASSUME TableInv, BeforeAllSymbols
    PROVE  \A i \in 1 .. table.count : ~ (table.address[i] <= request.address)
<1>1. /\ Types /\ Lengths /\ Ordered /\ Built /\ SearchInv
      /\ array = Addresses /\ key = request.address /\ found = "no" /\ index = 0
    BY DEF BeforeAllSymbols, TableInv, Searched, Built
<1>2. Sees(Addresses, table.sort_address, table.count, table.address)
    BY <1>1, AddressesSeen
<1>3. /\ \A i \in 0 + 1 .. table.count : request.address < Addresses[i]
      /\ request.address \in Int /\ \A i \in 1 .. table.count : Addresses[i] \in Int
    BY <1>1, <1>2, SearchResult DEF Sees
<1>4. ASSUME NEW i \in 1 .. table.count PROVE ~ (table.address[i] <= request.address)
    <2>1. PICK j \in 1 .. table.count : Addresses[j] = table.address[i]
        BY <1>2 DEF Sees
    <2>2. request.address < Addresses[j] /\ Addresses[j] \in Int
        BY <1>3
    <2> QED
        BY <1>3, <2>1, <2>2
<1> QED
    BY <1>4

(* The address after which the end is searched. *)
Place == IF request.what = "symbol" THEN AddressFound ELSE request.address
Beyond == {e.address : e \in {f \in Entries(table) : f.address > Place}}

(* The end is the first address beyond the place, or the segment's end. *)
LEMMA EndRight ==
    ASSUME TableInv, pc = "end", found # "searching"
    PROVE  EndAddress = Min({noted.end} \cup Beyond)
<1> DEFINE n == table.count
<1>1. /\ Types /\ Lengths /\ Ordered /\ Built /\ SearchInv
      /\ array = Addresses /\ key = 1 + Place
    BY DEF TableInv, Searched, Built, Place
<1>2. /\ n \in Nat /\ noted.end \in Int /\ Place \in Int
    <2>1. AddressFound \in Int
        BY NotedAddress
    <2>2. request.what # "symbol" => request.address \in Int
        BY <1>1, RequestType DEF TableInv, Served
    <2> QED
        BY <1>1, <2>1, <2>2 DEF Types, TableType, Place
<1>3. Sees(Addresses, table.sort_address, n, table.address)
    BY <1>1, AddressesSeen
<1>4. /\ Len(Addresses) = n /\ \A i \in 1 .. n : Addresses[i] \in Int
      /\ \A i \in 1 .. n : table.sort_address[i] + 1 \in 1 .. n
      /\ \A i \in 1 .. n : Addresses[i] = table.address[table.sort_address[i] + 1]
      /\ \A k \in 1 .. n : \E i \in 1 .. n : Addresses[i] = table.address[k]
    <2>1. Addresses \in Seq(Int) /\ Len(Addresses) = n
        BY <1>3 DEF Sees
    <2>2. \A i \in 1 .. n : Addresses[i] \in Int
        BY <2>1
    <2> QED
        BY <1>3, <2>1, <2>2 DEF Sees
<1>5. Beyond = {Addresses[i] : i \in {j \in 1 .. n : Addresses[j] > Place}}
    <2>1. ASSUME NEW x \in Beyond
          PROVE  x \in {Addresses[i] : i \in {j \in 1 .. n : Addresses[j] > Place}}
        <3>1. PICK k \in 1 .. n : x = table.address[k] /\ table.address[k] > Place
            BY <2>1 DEF Beyond, Entries
        <3>2. PICK i \in 1 .. n : Addresses[i] = table.address[k]
            BY <1>4
        <3> QED
            BY <3>1, <3>2
    <2>2. ASSUME NEW i \in 1 .. n, Addresses[i] > Place PROVE Addresses[i] \in Beyond
        <3> DEFINE k == table.sort_address[i] + 1
                   e == [symbol |-> table.symbol[k], address |-> table.address[k]]
        <3>1. k \in 1 .. n /\ Addresses[i] = table.address[k]
            BY <1>4
        <3>2. e \in Entries(table)
            BY <3>1 DEF Entries
        <3>3. e.address = Addresses[i]
            BY <3>1
        <3> QED
            BY <2>2, <3>2, <3>3 DEF Beyond
    <2> QED
        BY <2>1, <2>2
<1>6. /\ index \in 0 .. n
      /\ found = "yes" => index + 1 \in 1 .. n /\ Addresses[index + 1] = 1 + Place
      /\ found = "no" => \A i \in 1 .. index : Addresses[i] < 1 + Place
      /\ \A i \in index + 1 .. n : 1 + Place <= Addresses[i]
      /\ \A i \in 1 .. n : i <= index => Addresses[i] <= 1 + Place
      /\ found \in {"yes", "no"}
    <2>1. \A i \in 1 .. index : Addresses[i] <= 1 + Place
        BY <1>1, SearchResult
    <2>2. \A i \in 1 .. n : i <= index => i \in 1 .. index
        BY <1>2
    <2>3. found \in {"yes", "no"}
        BY <1>1 DEF SearchInv, Ranges
    <2> QED
        BY <1>1, <1>4, <2>1, <2>2, <2>3, SearchResult
<1>7. \A i, j \in 1 .. n : i <= j => Addresses[i] <= Addresses[j]
    BY <1>3, <1>4 DEF Sees, Sorted
<1> HIDE DEF n
<1>8. Beyond \in SUBSET Int /\ {noted.end} \cup Beyond \in SUBSET Int
    BY <1>2, <1>4, <1>5
<1>9. CASE index = n
    <2>1. found = "no"
        BY <1>2, <1>6, <1>9
    <2>2. ASSUME NEW i \in 1 .. n PROVE ~ (Addresses[i] > Place)
        <3>1. Addresses[i] < 1 + Place /\ Addresses[i] \in Int
            BY <1>4, <1>6, <1>9, <2>1
        <3> QED
            BY <1>2, <3>1
    <2>3. Beyond = {}
        BY <1>5, <2>2
    <2>4. EndAddress = noted.end
        BY <1>9 DEF EndAddress, n
    <2>5. noted.end <= noted.end
        BY <1>2
    <2>6. Min({noted.end} \cup Beyond) = noted.end
        BY <1>8, <2>3, <2>5, MinIs
    <2> QED
        BY <2>4, <2>6
<1>10. CASE index # n
    <2> DEFINE next == Addresses[index + 1]
    <2>1. /\ index + 1 \in 1 .. n /\ index + 1 \in index + 1 .. n /\ next \in Int
          /\ next > Place
        <3>1. index + 1 \in 1 .. n /\ index + 1 \in index + 1 .. n
            BY <1>2, <1>6, <1>10
        <3>2. next \in Int /\ 1 + Place <= next
            BY <1>4, <1>6, <3>1
        <3> QED
            BY <1>2, <3>1, <3>2
    <2>2. next \in Beyond
        BY <1>5, <2>1
    <2>3. ASSUME NEW x \in Beyond PROVE next <= x
        <3>1. PICK i \in 1 .. n : x = Addresses[i] /\ Addresses[i] > Place
            BY <1>5
        <3>2. Addresses[i] \in Int
            BY <1>4
        <3>3. CASE ~ (i <= index)
            <4>1. index + 1 <= i
                BY <1>2, <1>6, <3>3
            <4> QED
                BY <1>7, <2>1, <3>1, <4>1
        <3>4. CASE i <= index
            <4>1. Addresses[i] = 1 + Place
                <5>1. Addresses[i] <= 1 + Place
                    BY <1>6, <3>4
                <5> QED
                    BY <1>2, <3>1, <3>2, <5>1
            <4>2. found = "yes"
                <5>1. i \in 1 .. index
                    BY <1>2, <1>6, <3>4
                <5>2. found = "no" => Addresses[i] < 1 + Place
                    BY <1>6, <5>1
                <5> QED
                    BY <1>2, <1>6, <4>1, <5>2
            <4>3. next = 1 + Place
                BY <1>6, <4>2
            <4> QED
                BY <1>2, <3>1, <4>1, <4>3
        <3> QED
            BY <3>3, <3>4
    <2>4. EndAddress = Min({next, noted.end})
        BY <1>10 DEF EndAddress, n
    <2> HIDE DEF next
    <2>5. CASE next <= noted.end
        <3>1. Min({next, noted.end}) = next
            <4>1. {next, noted.end} \in SUBSET Int /\ next <= next
                BY <1>2, <2>1
            <4> QED
                BY <2>5, <4>1, MinIs
        <3>2. Min({noted.end} \cup Beyond) = next
            BY <1>8, <2>2, <2>3, <2>5, MinIs
        <3> QED
            BY <2>4, <3>1, <3>2
    <2>6. CASE ~ (next <= noted.end)
        <3>1. noted.end <= next /\ noted.end <= noted.end
            BY <1>2, <2>1, <2>6
        <3>2. Min({next, noted.end}) = noted.end
            <4>1. {next, noted.end} \in SUBSET Int
                BY <1>2, <2>1
            <4> QED
                BY <3>1, <4>1, MinIs
        <3>3. \A x \in Beyond : noted.end <= x
            BY <1>2, <1>8, <2>1, <2>3, <3>1
        <3>4. Min({noted.end} \cup Beyond) = noted.end
            BY <1>8, <3>1, <3>3, MinIs
        <3> QED
            BY <2>4, <3>2, <3>4
    <2> QED
        BY <2>5, <2>6
<1> QED
    BY <1>9, <1>10

(* It is an end that the map allows. *)
LEMMA EndAllowed ==
    ASSUME TableInv, pc = "end", found # "searching"
    PROVE  EndAddress \in Map!Ends(Place) /\ Map!Containing(Place) # {}
<1>1. Built /\ EndsWith(Place, noted.end) /\ Place \in Int
    <2>1. Located /\ Served /\ Types
        BY DEF TableInv
    <2>2. CASE request.what = "symbol"
        BY <2>1, <2>2, NotedAddress DEF Located, Place, Built
    <2>3. CASE request.what # "symbol"
        <3>1. request.what = "address" /\ Place = request.address
            BY <2>1, <2>3 DEF Served, Place
        <3> QED
            BY <2>1, <3>1, RequestType DEF Located, Built
    <2> QED
        BY <2>2, <2>3
<1>2. PICK s \in Map!Containing(Place) : s.end = noted.end
    BY <1>1, ContainingSegments
<1>3. EndAddress = Min({s.end} \cup {e.address : e \in {f \in Entries(table) : f.address > Place}})
    BY <1>2, EndRight DEF Beyond
<1>4. Map!Ends(Place) =
         {Min({t.end} \cup {e.address : e \in {f \in Entries(table) : f.address > Place}}) :
             t \in Map!Containing(Place)}
    BY <1>1, Zenon DEF Map!Ends, Map!Min, Min
<1> QED
    BY <1>2, <1>3, <1>4

(* Steps that a client of the table does not see. *)
LEMMA Unseen ==
    ASSUME Built' <=> Built, Built => Entries(table)' = Entries(table) /\ Bounds(table)' = Bounds(table),
           request' = request, answer' = answer
    PROVE  UNCHANGED Map!vars
BY DEF Map!vars

(* The table that is read from the image has what the image has. *)
LEMMA LoadedEntries ==
    ASSUME TableInv, SortSymbols \/ CollectSegments, pc' = "ready"
    PROVE  Entries(table)' = ImageContents(image).entries /\ table'.segment = SegmentBounds
<1>0. table \in TableType
    BY DEF TableInv, Types
<1>1. CASE SortSymbols
    <2>1. pc = "collect" /\ Uncollected = {}
        BY <1>1 DEF SortSymbols
    <2>2. /\ table'.count = table.count /\ table'.symbol = table.symbol
          /\ table'.address = table.address /\ table'.segment = table.segment
        BY <1>0, <1>1 DEF SortSymbols, TableType
    <2>3. Entries(table)' = Entries(table)
        BY <2>2 DEF Entries
    <2>4. table.segment = SegmentBounds
        BY <2>1 DEF TableInv, Collected
    <2> QED
        BY <2>1, <2>2, <2>3, <2>4, EntriesOfImage
<1>2. CASE CollectSegments
    <2>1. symtab = NULL /\ table' = [EmptyTable EXCEPT !.segment = SegmentBounds]
        BY <1>2 DEF CollectSegments
    <2>2. table'.count = 0 /\ table'.segment = SegmentBounds
        BY <2>1 DEF EmptyTable
    <2>3. Entries(table)' = {}
        BY <2>2 DEF Entries
    <2> QED
        BY <2>1, <2>2, <2>3, NoEntriesOfImage
<1> QED
    BY <1>1, <1>2

(* What has been inserted by half is no entry yet. *)
LEMMA HalfInserted ==
    ASSUME TableInv, InsertName
    PROVE  Entries(table)' = Entries(table) /\ Bounds(table)' = Bounds(table)
<1>1. pc = "add_name"
    BY DEF InsertName
<1>2. /\ table'.symbol = Append(table.symbol, request.symbol)
      /\ table'.address = Append(table.address, request.address)
      /\ table'.count = table.count /\ table'.segment = table.segment
    BY NameInserted
<1>3. request.symbol \in Int /\ request.address \in Int
    BY <1>1, RequestType DEF TableInv, Served
<1>4. /\ Len(table.symbol) = table.count /\ Len(table.address) = table.count
      /\ table.symbol \in Seq(Int) /\ table.address \in Seq(Int) /\ table.count \in Nat
    <2>1. table.count \in Nat /\ table.symbol \in Seq(Int) /\ table.address \in Seq(Int)
        BY DEF TableInv, Types, TableType
    <2> QED
        BY <1>1, <2>1 DEF TableInv, Lengths
<1>5. \A i \in 1 .. table.count : /\ table'.symbol[i] = table.symbol[i]
                                  /\ table'.address[i] = table.address[i]
    BY <1>2, <1>3, <1>4, Appended
<1> QED
    BY <1>2, <1>5 DEF Entries, Bounds

(* The entry that is added has the name that was not there. *)
LEMMA EntryAdded ==
    ASSUME TableInv, InsertAddress
    PROVE  LET new == [symbol |-> request.symbol, address |-> request.address] IN
              /\ Entries(table)' = Entries(table) \cup {new}
              /\ \A f \in Entries(table) : f.symbol # new.symbol
              /\ Bounds(table)' = Bounds(table)
<1> DEFINE n == table.count
           new == [symbol |-> request.symbol, address |-> request.address]
<1>1. pc = "add_address" /\ n \in Nat
    BY DEF InsertAddress, TableInv, Types, TableType
<1>2. /\ table'.symbol = table.symbol /\ table'.address = table.address
      /\ table'.count = n + 1 /\ table'.segment = table.segment
    BY AddressInserted
<1>3. /\ table.symbol[n + 1] = request.symbol /\ table.address[n + 1] = request.address
      /\ \A i \in 1 .. n : table.symbol[i] # request.symbol
    BY <1>1 DEF TableInv, Located
<1>4. Bounds(table)' = Bounds(table)
    BY <1>2 DEF Bounds
<1>5. Entries(table)' = Entries(table) \cup {new}
    <2>1. 1 .. n + 1 = (1 .. n) \cup {n + 1}
        BY <1>1
    <2> QED
        BY <1>2, <1>3, <2>1 DEF Entries
<1>6. \A f \in Entries(table) : f.symbol # new.symbol
    BY <1>3 DEF Entries
<1> QED
    BY <1>4, <1>5, <1>6

LEMMA LoadStep ==
    ASSUME TableInv, SortSymbols \/ CollectSegments
    PROVE  Map!Load \/ UNCHANGED Map!vars
<1>0. image \in Images /\ image' = image /\ ~ Built /\ request = NoRequest /\ request' = request
      /\ table \in TableType
    BY DEF SortSymbols, CollectSegments, TableInv, Types, Served, Built, Reading
<1>1. CASE pc' # "ready"
    <2>1. answer' = answer /\ ~ Built'
        BY <1>1 DEF SortSymbols, CollectSegments, Built
    <2> QED
        BY <1>0, <2>1, Unseen
<1>2. CASE pc' = "ready"
    <2>1. /\ answer' = Success /\ Built'
        BY <1>2 DEF SortSymbols, CollectSegments, Built
    <2>2. Entries(table)' = ImageContents(image).entries /\ table'.segment = SegmentBounds
        BY <1>2, LoadedEntries
    <2>3. Bounds(table)' = ImageContents(image).segments /\ Bounds(table)' # {}
        <3>1. /\ Segments(image) # {}
              /\ \A i \in Segments(image) :
                    SegmentBounds[i] = <<image[i].vmaddr, image[i].vmaddr + image[i].vmsize>>
            BY <1>0, ImageFacts
        <3>2. DOMAIN table'.segment = Segments(image)
            BY <2>2 DEF SegmentBounds
        <3>3. Bounds(table)' = {[start |-> SegmentBounds[i][1], end |-> SegmentBounds[i][2]] :
                                   i \in Segments(image)}
            BY <2>2, <3>2 DEF Bounds
        <3>4. ImageContents(image).segments =
                 {[start |-> image[i].vmaddr, end |-> image[i].vmaddr + image[i].vmsize] :
                     i \in Segments(image)}
            BY DEF ImageContents
        <3>5. \A i \in Segments(image) :
                 [start |-> SegmentBounds[i][1], end |-> SegmentBounds[i][2]] =
                 [start |-> image[i].vmaddr, end |-> image[i].vmaddr + image[i].vmsize]
            BY <3>1
        <3>6. \A s \in Bounds(table)' : s \in ImageContents(image).segments
            BY <3>3, <3>4, <3>5
        <3>7. \A s \in ImageContents(image).segments : s \in Bounds(table)'
            BY <3>3, <3>4, <3>5
        <3>8. Bounds(table)' = ImageContents(image).segments
            BY <3>6, <3>7
        <3> QED
            BY <3>1, <3>3, <3>8
    <2>4. ImageContents(image) \in {ImageContents(m) : m \in Images}
        BY <1>0
    <2>5. Map!Success = Success /\ Map!NoRequest = NoRequest
        BY DEF Map!Success, Success, Map!NoRequest, NoRequest
    <2> QED
        BY <1>0, <2>1, <2>2, <2>3, <2>4, <2>5 DEF Map!Load
<1> QED
    BY <1>1, <1>2

LEMMA GivenUpStep ==
    ASSUME TableInv, OutOfMemory \/ symbol_table_deinit
    PROVE  Map!LoadFails \/ Map!Unload
<1>1. /\ request = NoRequest /\ request' = request /\ ~ Built'
    BY DEF OutOfMemory, symbol_table_deinit, TableInv, Served, Reading, Built
<1>2. /\ Map!Failure = Failure /\ Map!NoRequest = NoRequest /\ Map!NoAnswer = NoAnswer
    BY DEF Map!Failure, Failure, Map!NoRequest, NoRequest, Map!NoAnswer, NoAnswer
<1>3. CASE OutOfMemory
    <2>1. ~ Built /\ answer' = Failure
        BY <1>3 DEF OutOfMemory, Built
    <2> QED
        BY <1>1, <1>2, <2>1 DEF Map!LoadFails
<1>4. CASE symbol_table_deinit
    <2>1. Built /\ answer' = NoAnswer
        BY <1>4 DEF symbol_table_deinit, Built
    <2>2. Bounds(table) # {}
        BY <2>1, BoundsOfImage DEF TableInv, Types, Ordered
    <2> QED
        BY <1>1, <1>2, <2>1, <2>2 DEF Map!Unload
<1> QED
    BY <1>3, <1>4

LEMMA AskStep ==
    ASSUME TableInv, AskFor
    PROVE  Map!Ask
<1>1. /\ request = NoRequest /\ answer # Aborted /\ request' \in Requests /\ answer' = NoAnswer
      /\ table' = table /\ Built /\ Built'
    BY RequestsAssumption DEF AskFor, Built
<1>2. Bounds(table) # {}
    BY <1>1, BoundsOfImage DEF TableInv, Types, Ordered
<1>3. /\ Map!NoRequest = NoRequest /\ Map!NoAnswer = NoAnswer /\ Map!Aborted = Aborted
    BY DEF Map!NoRequest, NoRequest, Map!NoAnswer, NoAnswer, Map!Aborted, Aborted
<1> QED
    BY <1>1, <1>2, <1>3 DEF Map!Ask

Noted == [symbol |-> table.symbol[noted.symbol + 1], address |-> AddressFound]

LEMMA NotedEntry ==
    ASSUME TableInv, pc \in {"size", "end"}
    PROVE  Noted \in Entries(table)
<1>1. noted.symbol + 1 \in 1 .. table.count
    BY NotedAddress
<1> QED
    BY <1>1 DEF Noted, Entries, AddressFound

(* What is answered to the question for a name. *)
LEMMA SymbolAnswered ==
    ASSUME TableInv,
           \/ SymbolNotFound \/ NoSizeWanted \/ SizeAborts
           \/ EndFound /\ request.what = "symbol"
    PROVE  answer' \in Map!SymbolAnswers(request) /\ request.what = "symbol"
<1>0. Built /\ request.what = "symbol" /\ Served /\ Located /\ Types
    BY DEF SymbolNotFound, NoSizeWanted, SizeAborts, EndFound, TableInv, Served, Built
<1>1. /\ Map!NotFound = NotFound /\ Map!Aborted = Aborted
    BY DEF Map!NotFound, NotFound, Map!Aborted, Aborted
<1> DEFINE Named == {e \in Entries(table) : e.symbol = request.symbol}
<1>2. CASE SymbolNotFound
    <2>1. answer' = NotFound /\ pc = "by_name" /\ found = "no"
        BY <1>2 DEF SymbolNotFound, Return
    <2>2. \A i \in 1 .. table.count : table.symbol[i] # request.symbol
        BY <2>1, NameAbsent
    <2>3. Named = {}
        BY <2>2 DEF Entries
    <2> QED
        BY <1>0, <1>1, <2>1, <2>3 DEF Map!SymbolAnswers
<1>3. CASE pc \in {"size", "end"}
    <2>1. Noted \in Entries(table) /\ Noted.symbol = request.symbol /\ Noted.address = AddressFound
        <3>1. table.symbol[noted.symbol + 1] = request.symbol
            BY <1>0, <1>3 DEF Located
        <3> QED
            BY <1>3, <3>1, NotedEntry DEF Noted
    <2>2. Noted \in Named
        BY <2>1
    <2>3. AddressFound \in Int
        BY <1>3, NotedAddress
    <2> HIDE DEF Named
    <2>4. CASE NoSizeWanted
        <3>1. ~ request.size /\ answer' = [result |-> "ok", address |-> Noted.address, size |-> 0]
            BY <2>1, <2>4 DEF NoSizeWanted, Return
        <3> QED
            BY <1>0, <2>2, <3>1 DEF Map!SymbolAnswers, Named
    <2>5. CASE SizeAborts
        <3>1. request.size /\ answer' = Aborted /\ SegmentOf(AddressFound) = NULL
            BY <2>5 DEF SizeAborts, Return
        <3>2. Map!Containing(Noted.address) = {}
            BY <1>0, <2>1, <2>3, <3>1, ContainingSegments
        <3> QED
            BY <1>0, <1>1, <2>2, <3>1, <3>2 DEF Map!SymbolAnswers, Named
    <2>6. CASE EndFound
        <3>1. /\ pc = "end" /\ found # "searching"
              /\ answer' = [result |-> "ok", address |-> Noted.address,
                            size |-> EndAddress - Noted.address]
            BY <1>0, <2>1, <2>6 DEF EndFound, Return
        <3>2. Place = Noted.address
            BY <1>0, <2>1 DEF Place
        <3>3. EndAddress \in Map!Ends(Noted.address) /\ Map!Containing(Noted.address) # {}
            BY <3>1, <3>2, EndAllowed
        <3>4. request.size
            BY <1>0, <3>1 DEF Located
        <3>5. answer' \in {[result |-> "ok", address |-> Noted.address, size |-> end - Noted.address] :
                              end \in Map!Ends(Noted.address)}
            BY <3>1, <3>3
        <3> QED
            BY <1>0, <2>2, <3>3, <3>4, <3>5 DEF Map!SymbolAnswers, Named
    <2> QED
        BY <1>2, <2>4, <2>5, <2>6 DEF SymbolNotFound
<1> QED
    BY <1>0, <1>2, <1>3 DEF NoSizeWanted, SizeAborts, EndFound

(* What is answered to the question for an address. *)
LEMMA AddressAnswered ==
    ASSUME TableInv,
           \/ NotInSegment \/ BeforeAllSymbols
           \/ EndFound /\ request.what = "address"
    PROVE  answer' \in Map!AddressAnswers(request) /\ request.what = "address"
<1>0. Built /\ request.what = "address" /\ Served /\ Located /\ Types
    BY DEF NotInSegment, BeforeAllSymbols, EndFound, TableInv, Served, Built
<1>1. Map!NotFound = NotFound /\ request.address \in Int
    BY <1>0, RequestType DEF Map!NotFound, NotFound
<1> DEFINE before == {e \in Entries(table) : e.address <= request.address}
           last == {e \in before : \A f \in before : f.address <= e.address}
<1>2. CASE NotInSegment
    <2>1. answer' = NotFound /\ SegmentOf(request.address) = NULL
        BY <1>2 DEF NotInSegment, Return
    <2>2. Map!Containing(request.address) = {}
        BY <1>0, <1>1, <2>1, ContainingSegments
    <2> QED
        BY <1>0, <1>1, <2>1, <2>2 DEF Map!AddressAnswers
<1>3. CASE BeforeAllSymbols
    <2>1. answer' = NotFound
        BY <1>3 DEF BeforeAllSymbols, Return
    <2>2. before = {}
        BY <1>3, AllAfter DEF Entries
    <2> QED
        BY <1>0, <1>1, <2>1, <2>2 DEF Map!AddressAnswers
<1>4. CASE EndFound
    <2>1. /\ pc = "end" /\ found # "searching"
          /\ answer' = [result |-> "ok", symbol |-> Noted.symbol,
                        offset |-> request.address - Noted.address,
                        size |-> EndAddress - Noted.address]
        BY <1>0, <1>4 DEF EndFound, Return, Noted
    <2>2. EndAddress \in Map!Ends(request.address) /\ Map!Containing(request.address) # {}
        BY <1>0, <2>1, EndAllowed DEF Place
    <2>3. /\ Noted \in Entries(table) /\ Noted.address <= request.address
          /\ \A i \in 1 .. table.count :
                table.address[i] <= request.address => table.address[i] <= Noted.address
        BY <1>0, <2>1, NotedEntry DEF Located, Noted
    <2>4. Noted \in before
        BY <2>3
    <2>5. \A f \in before : f.address <= Noted.address
        BY <2>3 DEF Entries
    <2>6. Noted \in last
        BY <2>4, <2>5
    <2> HIDE DEF last, before
    <2>7. before # {}
        BY <2>4
    <2> QED
        BY <1>0, <2>1, <2>2, <2>6, <2>7 DEF Map!AddressAnswers, last, before
<1> QED
    BY <1>2, <1>3, <1>4

LEMMA AnswerStep ==
    ASSUME TableInv,
           \/ SymbolNotFound \/ NoSizeWanted \/ SizeAborts \/ NotInSegment
           \/ BeforeAllSymbols \/ EndFound
    PROVE  Map!AnswerQuestion
<1>1. /\ Built /\ Built' /\ table' = table /\ request' = NoRequest
    BY DEF SymbolNotFound, NoSizeWanted, SizeAborts, NotInSegment, BeforeAllSymbols, EndFound,
       Return, Built
<1>2. Map!NoRequest = NoRequest
    BY DEF Map!NoRequest, NoRequest
<1>3. EndFound => request.what \in {"symbol", "address"}
    BY DEF EndFound, TableInv, Served
<1>4. \/ request.what = "symbol" /\ answer' \in Map!SymbolAnswers(request)
      \/ request.what = "address" /\ answer' \in Map!AddressAnswers(request)
    BY <1>3, SymbolAnswered, AddressAnswered
<1> QED
    BY <1>1, <1>2, <1>4 DEF Map!AnswerQuestion

LEMMA RefuseStep ==
    ASSUME TableInv, AlreadyPresent \/ AddOutOfMemory
    PROVE  Map!RefuseSymbol
<1>1. /\ Built /\ Built' /\ table' = table /\ request' = NoRequest /\ answer' = Failure
      /\ request.what = "add"
    BY DEF AlreadyPresent, AddOutOfMemory, Return, Built, TableInv, Served
<1>2. Map!NoRequest = NoRequest /\ Map!Failure = Failure
    BY DEF Map!NoRequest, NoRequest, Map!Failure, Failure
<1> QED
    BY <1>1, <1>2 DEF Map!RefuseSymbol

LEMMA AddStep ==
    ASSUME TableInv, InsertAddress
    PROVE  Map!AddSymbol
<1>1. /\ Built /\ Built' /\ request' = NoRequest /\ answer' = Success /\ request.what = "add"
    BY DEF InsertAddress, Return, Built, TableInv, Served
<1>2. Map!NoRequest = NoRequest /\ Map!Success = Success
    BY DEF Map!NoRequest, NoRequest, Map!Success, Success
<1> QED
    BY <1>1, <1>2, EntryAdded DEF Map!AddSymbol

LEMMA MapStep ==
    ASSUME TableInv, TableStep
    PROVE  [Map!Next]_(Map!vars)
<1>1. CASE SortSymbols \/ CollectSegments
    BY <1>1, LoadStep DEF Map!Next
<1>2. CASE OutOfMemory \/ symbol_table_deinit
    BY <1>2, GivenUpStep DEF Map!Next
<1>3. CASE AskFor
    BY <1>3, AskStep DEF Map!Next
<1>4. CASE \/ SymbolNotFound \/ NoSizeWanted \/ SizeAborts \/ NotInSegment
           \/ BeforeAllSymbols \/ EndFound
    BY <1>4, AnswerStep DEF Map!Next
<1>5. CASE AlreadyPresent \/ AddOutOfMemory
    BY <1>5, RefuseStep DEF Map!Next
<1>6. CASE InsertAddress
    BY <1>6, AddStep DEF Map!Next
<1>7. CASE AllocateArrays \/ collect_symbol
    <2>1. ~ Built /\ ~ Built' /\ request' = request /\ answer' = answer
        BY <1>7 DEF AllocateArrays, collect_symbol, Built
    <2> QED
        BY <2>1, Unseen
<1>8. CASE FindSymbol \/ SymbolFound \/ FindSymbolEnd \/ FindAddress \/ FindEnd
    <2>1. Built /\ Built' /\ table' = table /\ request' = request /\ answer' = answer
        BY <1>8 DEF FindSymbol, SymbolFound, FindSymbolEnd, FindAddress, FindEnd, StartSearch, Built
    <2> QED
        BY <2>1, Unseen
<1>9. CASE SearchStep \/ Quiet
    <2>1. pc' = pc /\ table' = table /\ request' = request /\ answer' = answer
        BY <1>9 DEF SearchStep, Quiet, tableVars
    <2> QED
        BY <2>1, Unseen DEF Built
<1>10. CASE InsertName
    <2>1. Built /\ Built' /\ request' = request /\ answer' = answer
        BY <1>10 DEF InsertName, StartSearch, Built
    <2> QED
        BY <1>10, <2>1, HalfInserted, Unseen
<1> QED
    BY <1>1, <1>2, <1>3, <1>4, <1>5, <1>6, <1>7, <1>8, <1>9, <1>10 DEF TableStep

(***************************************************************************)
(* The symbol table does what symbol_table.h promises: with its arrays,    *)
(* its permutations and the turns of its searches it implements a set of   *)
(* names and addresses that is asked and extended in single steps.         *)
(***************************************************************************)
THEOREM TableImplementsMap == SlideSpec => Implements
<1>1. SlideInit => Map!Init
    <2>1. /\ Map!NoRequest = NoRequest /\ Map!NoAnswer = NoAnswer
        BY DEF Map!NoRequest, NoRequest, Map!NoAnswer, NoAnswer
    <2>2. SlideInit => ~ Built /\ request = NoRequest /\ answer = NoAnswer
        BY DEF SlideInit, TableInit, Built
    <2> QED
        BY <2>1, <2>2 DEF Map!Init
<1>2. TableInv /\ [SlideNext]_allVars => [Map!Next]_(Map!vars)
    BY SlideSteps, MapStep
<1> QED
    BY <1>1, <1>2, TableInvariant, PTL DEF SlideSpec, Implements, Map!Spec

-----------------------------------------------------------------------------
(* The search for the slide. *)

Searches == {"region", "zone", "backwards", "slides", "unsafe"}
HeaderAt == StaticBase + env.slide
ScannedRegion == env.regions[KernelRegion(env)]

(* Where the kernel is, as far as it is known. *)
Kernel ==
    /\ env \in Environments /\ image = env.image
    /\ kernel \in [base : Int, slide : Int] /\ kernel_slide \in Int
    /\ pc # "none" => kernel.base = StaticBase + kernel.slide
    /\ kernel_slide = 0 => kernel.slide = 0

(* What the search does, and what it has found. *)
Slide ==
    /\ spc \in Searches \cup {"idle", "validate", "macos", "macos_symbol"}
    /\ was_invalid \in BOOLEAN
    /\ spc \in Searches => env.kernelcache
    /\ spc \in {"macos", "macos_symbol"} => ~ env.kernelcache /\ probed = {}
    /\ spc \notin {"idle", "validate"} => kernel_slide = 0
    /\ spc # "idle" => slide_result = "none"
    /\ spc = "validate" /\ is_kernel_slide(kernel_slide) => kernel_slide = env.slide
    /\ spc = "idle" /\ ~ was_invalid => kernel_slide \in {0, env.slide}
    /\ slide_result = "ok" /\ ~ was_invalid => kernel_slide = env.slide

(* Only the image says where the last symbol is, and it is asked for that. *)
Last ==
    /\ spc \notin {"idle", "macos_symbol"} => pc = "ready"
    /\ Built => \A e \in Entries(table) :
                   e.symbol = LastSymbol => e \in ImageContents(image).entries
    /\ spc = "macos_symbol" =>
          \/ pc \in {"symbol", "by_name", "size"} /\ request = LastSymbolRequest
          \/ /\ pc = "ready"
             /\ \/ answer = NotFound
                \/ \E e \in Entries(table) :
                      /\ e.symbol = LastSymbol
                      /\ answer = [result |-> "ok", address |-> e.address, size |-> 0]

(* Every way of looking for the header stays where it may look. *)
Scans ==
    /\ scan \in [start : Int, end : Int, zone : Int, next : Int]
    /\ spc = "region" => probed = {}
    /\ spc \in Searches \ {"region"} =>
          KernelRegion(env) # NULL /\ scan.start = ScannedRegion.start /\ scan.end = ScannedRegion.end
    /\ spc = "backwards" =>
          /\ scan.next \in Int /\ scan.next < scan.end
          /\ env.pointers_good => scan.next < StaticEnd + env.slide
    /\ spc = "slides" =>
          /\ PreHeader # {} /\ Pointers # {}
          /\ scan.next \in Nat /\ scan.next % slide_increment = 0
          /\ env.pointers_good /\ Read(HeaderAt) = KernelHeader => scan.next <= env.slide
    /\ spc = "unsafe" =>
          \/ scan.next = UnsafeScanStart
          \/ /\ scan.next \in Nat /\ scan.next % slide_increment = 0 /\ env.before_16_3
             /\ scan.start <= StaticBase + scan.next
             /\ env.pointers_good => scan.next <= env.slide

SlideInv == Kernel /\ Slide /\ Last /\ Scans /\ ProbesSafe

(* Numbers. *)

LEMMA NextMultiple ==
    ASSUME NEW a \in Nat, NEW b \in Nat, NEW d \in Nat \ {0}, a % d = 0, b % d = 0, a < b
    PROVE  a + d <= b
<1> DEFINE p == a \div d
           q == b \div d
<1>1. p \in Int /\ q \in Int /\ a = d * p /\ b = d * q
    BY Z3
<1> HIDE DEF p, q
<1>2. CASE ~ (p + 1 <= q)
    <2>1. q <= p
        BY <1>1, <1>2
    <2>2. d * q <= d * p
        BY <1>1, <2>1
    <2> QED
        BY <1>1, <2>2
<1>3. CASE p + 1 <= q
    <2>1. d * (p + 1) <= d * q
        BY <1>1, <1>3
    <2>2. d * (p + 1) = d * p + d
        BY <1>1
    <2> QED
        BY <1>1, <2>1, <2>2
<1> QED
    BY <1>2, <1>3

LEMMA Rounded ==
    ASSUME NEW a \in Int, NEW unit \in Nat \ {0}
    PROVE  /\ round_down(a, unit) \in Int /\ round_down(a, unit) <= a
           /\ round_down(a, unit) % unit = 0
           /\ round2_up(a, unit) \in Int /\ a <= round2_up(a, unit)
           /\ round2_up(a, unit) < a + unit /\ round2_up(a, unit) % unit = 0
<1>1. ASSUME NEW x \in Int
      PROVE  /\ round_down(x, unit) \in Int /\ round_down(x, unit) <= x
             /\ x - unit < round_down(x, unit) /\ round_down(x, unit) % unit = 0
    <2>1. x % unit \in 0 .. unit - 1
        OBVIOUS
    <2>2. (x - (x % unit)) % unit = 0
        BY Z3
    <2> DEFINE rest == x % unit
    <2> HIDE DEF rest
    <2>3. round_down(x, unit) = x - rest
        BY DEF round_down, rest
    <2>4. rest \in 0 .. unit - 1 /\ (x - rest) % unit = 0
        BY <2>1, <2>2 DEF rest
    <2> QED
        BY <2>3, <2>4
<1>2. a + unit - 1 \in Int
    OBVIOUS
<1> QED
    BY <1>1, <1>2 DEF round2_up

LEMMA NextOfMultiple ==
    ASSUME NEW a \in Nat, NEW d \in Nat \ {0}, a % d = 0
    PROVE  (a + d) % d = 0
<1> DEFINE p == a \div d
<1>1. p \in Int /\ a = d * p
    BY Z3
<1> HIDE DEF p
<1>2. a + d = d * (p + 1)
    BY <1>1
<1>3. (d * (p + 1)) % d = 0
    BY <1>1
<1> QED
    BY <1>2, <1>3

(* A finite set of integers has a least and a greatest element. *)
LEMMA Extremes ==
    ASSUME NEW S \in SUBSET Int, IsFiniteSet(S), S # {}
    PROVE  /\ Min(S) \in S /\ \A y \in S : Min(S) <= y
           /\ Max(S) \in S /\ \A y \in S : y <= Max(S)
<1> DEFINE Upto(x) == {y \in S : y <= x}
           rank(x) == Cardinality(Upto(x))
           n == Cardinality(S)
<1>1. n \in Nat
    BY FS_CardinalityType
<1>2. ASSUME NEW x \in S PROVE rank(x) \in 1 .. n
    <2>1. Upto(x) \in SUBSET S /\ x \in Upto(x)
        OBVIOUS
    <2>2. IsFiniteSet(Upto(x)) /\ rank(x) <= n
        BY <2>1, FS_Subset
    <2>3. rank(x) \in Nat /\ rank(x) # 0
        BY <2>1, <2>2, FS_CardinalityType, FS_EmptySet
    <2> QED
        BY <1>1, <2>2, <2>3
<1>3. ASSUME NEW x \in S, NEW y \in S, ~ (y <= x) PROVE rank(x) < rank(y)
    <2>1. Upto(x) \in SUBSET Upto(y) /\ y \in Upto(y) /\ y \notin Upto(x)
        <3>1. x \in Int /\ y \in Int /\ x <= y /\ y <= y
            BY <1>3
        <3>2. ASSUME NEW w \in S, w <= x PROVE w <= y
            <4>1. w \in Int
                OBVIOUS
            <4> QED
                BY <3>1, <3>2, <4>1
        <3> QED
            BY <1>3, <3>1, <3>2
    <2>2. IsFiniteSet(Upto(y))
        <3>1. Upto(y) \in SUBSET S
            OBVIOUS
        <3> QED
            BY <3>1, FS_Subset
    <2>3. rank(x) <= rank(y) /\ (rank(y) = rank(x) => Upto(y) = Upto(x))
        BY <2>1, <2>2, FS_Subset
    <2>4. rank(x) # rank(y)
        BY <2>1, <2>3
    <2>5. rank(x) \in 1 .. n /\ rank(y) \in 1 .. n
        BY <1>2
    <2> HIDE DEF rank
    <2> QED
        BY <1>1, <2>3, <2>4, <2>5
<1> DEFINE ranks == {rank(x) : x \in S}
           mirrored == {n + 1 - rank(x) : x \in S}
<1> HIDE DEF rank
<1>4. PICK x \in S : \A y \in S : rank(x) <= rank(y)
    <2>1. ranks \in SUBSET (1 .. n) /\ ranks # {}
        BY <1>2
    <2>2. Min(ranks) \in ranks /\ \A j \in ranks : Min(ranks) <= j
        BY <1>1, <2>1, FirstOf
    <2>3. PICK x \in S : rank(x) = Min(ranks)
        BY <2>2
    <2> QED
        BY <2>2, <2>3
<1>5. PICK z \in S : \A y \in S : rank(y) <= rank(z)
    <2>1. mirrored \in SUBSET (1 .. n) /\ mirrored # {}
        BY <1>1, <1>2
    <2>2. Min(mirrored) \in mirrored /\ \A j \in mirrored : Min(mirrored) <= j
        BY <1>1, <2>1, FirstOf
    <2>3. PICK z \in S : n + 1 - rank(z) = Min(mirrored)
        BY <2>2
    <2>4. ASSUME NEW y \in S PROVE rank(y) <= rank(z)
        <3>1. n + 1 - rank(z) <= n + 1 - rank(y)
            BY <2>2, <2>3
        <3> QED
            BY <1>1, <1>2, <3>1
    <2> QED
        BY <2>4
<1>6. \A y \in S : x <= y
    <2> SUFFICES ASSUME NEW y \in S, ~ (x <= y) PROVE FALSE
        OBVIOUS
    <2>1. rank(y) < rank(x) /\ rank(x) <= rank(y)
        BY <1>3, <1>4
    <2> QED
        BY <1>1, <1>2, <2>1
<1>7. \A y \in S : y <= z
    <2> SUFFICES ASSUME NEW y \in S, ~ (y <= z) PROVE FALSE
        OBVIOUS
    <2>1. rank(z) < rank(y) /\ rank(y) <= rank(z)
        BY <1>3, <1>5
    <2> QED
        BY <1>1, <1>2, <2>1
<1> QED
    BY <1>6, <1>7 DEF Min, Max

(* Where the segments of an image start and end. *)
LEMMA ImageNumbers ==
    ASSUME NEW m \in Images
    PROVE  /\ macho_find_base(m) \in Int
           /\ \A S \in SUBSET Segments(m) :
                 S # {} => StartOf(m, S) \in Int /\ EndOf(m, S) \in Int
<1>1. /\ m \in Seq(Range(m)) /\ \A i \in Segments(m) : m[i].vmaddr \in Int /\ m[i].vmsize \in Nat
    BY ImagesAssumption
<1>2. Len(m) \in Nat /\ DOMAIN m = 1 .. Len(m) /\ Segments(m) \in SUBSET (1 .. Len(m))
    BY <1>1, LenProperties DEF Segments
<1>3. macho_find_base(m) \in Int
    <2> DEFINE S == {i \in Segments(m) : m[i].fileoff = 0 /\ m[i].filesize # 0}
    <2>1. S \in SUBSET (1 .. Len(m)) /\ S \in SUBSET Segments(m)
        BY <1>2
    <2>2. macho_find_base(m) = IF First(S) = NULL THEN NO_ADDRESS ELSE m[First(S)].vmaddr
        BY DEF macho_find_base
    <2> HIDE DEF S
    <2>3. CASE First(S) = NULL
        BY <2>2, <2>3 DEF NO_ADDRESS
    <2>4. CASE First(S) # NULL
        <3>1. First(S) \in S
            BY <1>2, <2>1, <2>4, FirstOf DEF First
        <3> QED
            BY <1>1, <2>1, <2>2, <2>4, <3>1
    <2> QED
        BY <2>3, <2>4
<1>4. ASSUME NEW S \in SUBSET Segments(m), S # {}
      PROVE  StartOf(m, S) \in Int /\ EndOf(m, S) \in Int
    <2>1. IsFiniteSet(S)
        <3>1. IsFiniteSet(1 .. Len(m)) /\ S \in SUBSET (1 .. Len(m))
            BY <1>2, FS_Interval
        <3> QED
            BY <3>1, FS_Subset
    <2>2. ASSUME NEW f, f \in [S -> Int]
          PROVE  /\ {f[i] : i \in S} \in SUBSET Int /\ IsFiniteSet({f[i] : i \in S})
                 /\ {f[i] : i \in S} # {}
        <3>1. f \in Surjection(S, {f[i] : i \in S})
            BY <2>2 DEF Surjection
        <3>2. IsFiniteSet({f[i] : i \in S})
            BY <2>1, <3>1, FS_Surjection
        <3> QED
            BY <1>4, <2>2, <3>2
    <2>3. StartOf(m, S) \in Int
        <3> DEFINE f == [i \in S |-> m[i].vmaddr]
        <3>1. f \in [S -> Int]
            BY <1>1
        <3>2. {m[i].vmaddr : i \in S} = {f[i] : i \in S}
            OBVIOUS
        <3> HIDE DEF f
        <3> QED
            <4> DEFINE T == {f[i] : i \in S}
            <4>1. T \in SUBSET Int /\ IsFiniteSet(T) /\ T # {}
                BY <2>2, <3>1
            <4>2. StartOf(m, S) = Min(T)
                BY <3>2 DEF StartOf
            <4> HIDE DEF T
            <4>3. Min(T) \in T
                BY <4>1, Extremes
            <4> QED
                BY <4>1, <4>2, <4>3
    <2>4. EndOf(m, S) \in Int
        <3> DEFINE f == [i \in S |-> m[i].vmaddr + m[i].vmsize]
        <3>1. f \in [S -> Int]
            BY <1>1
        <3>2. {m[i].vmaddr + m[i].vmsize : i \in S} = {f[i] : i \in S}
            OBVIOUS
        <3> HIDE DEF f
        <3> QED
            <4> DEFINE T == {f[i] : i \in S}
            <4>1. T \in SUBSET Int /\ IsFiniteSet(T) /\ T # {}
                BY <2>2, <3>1
            <4>2. EndOf(m, S) = Max(T)
                BY <3>2 DEF EndOf
            <4> HIDE DEF T
            <4>3. Max(T) \in T
                BY <4>1, Extremes
            <4> QED
                BY <4>1, <4>2, <4>3
    <2> QED
        BY <2>3, <2>4
<1> QED
    BY <1>3, <1>4

-----------------------------------------------------------------------------
(* What is known of the running kernel. *)

(* No step moves it. *)
LEMMA KernelKept ==
    ASSUME TableInv, [SlideNext]_allVars
    PROVE  /\ TableStep /\ env' = env /\ image' = image
           /\ StaticBase' = StaticBase /\ StaticEnd' = StaticEnd /\ HeaderAt' = HeaderAt
           /\ ScannedRegion' = ScannedRegion /\ KernelRegion(env)' = KernelRegion(env)
           /\ \A a : Read(a)' = Read(a)
<1>1. TableStep
    BY SlideSteps
<1>2. image' = image
    BY <1>1, ImageKept
<1>3. env' = env
    BY DEF SlideNext, KernelInit, ResetBase, KernelSlideInit, Validate,
       AskLastSymbol, NoLastSymbol, MacosRegion, NoMacosRegion, FindKernelRegion, NoKernelRegion,
       NotZoneArray, ZoneArray, Backwards, NotBackwards, HeapScan, NothingInHeap, TrySlide,
       SkipSlide, NoSlideFits, StartUnsafeScan, TryUnsafe, SlideNotFound, UseTable, allVars,
       slideVars, UnchangedSearch, Goto, SlideReturns, Searching_, CheckKernelBase
<1> QED
    BY <1>1, <1>2, <1>3 DEF StaticBase, StaticEnd, HeaderAt, ScannedRegion, Read

LEMMA KernelFacts ==
    ASSUME TableInv, Kernel
    PROVE  /\ StaticBase \in Int /\ StaticEnd \in Int /\ StaticBase = macho_find_base(env.image)
           /\ is_kernel_slide(env.slide) /\ env.slide \in Nat /\ HeaderAt \in Int
           /\ \A i \in DOMAIN env.regions : /\ env.regions[i].start \in Int
                                            /\ env.regions[i].end \in Int
           /\ \A a : RegionIn(env, a) # NULL => RegionIn(env, a) \in DOMAIN env.regions
           /\ KernelRegion(env) # NULL => KernelRegion(env) \in DOMAIN env.regions
<1>1. env \in Environments /\ image \in Images /\ image = env.image
    BY DEF TableInv, Types, Kernel
<1>2. /\ is_kernel_slide(env.slide) /\ env.regions \in Seq(Range(env.regions))
      /\ \A i \in DOMAIN env.regions : env.regions[i].start \in Int /\ env.regions[i].end \in Int
    BY <1>1, EnvironmentsAssumption
<1>3. StaticBase \in Int /\ StaticEnd \in Int /\ StaticBase = macho_find_base(env.image)
    <2>1. Segments(image) # {} /\ Segments(image) \in SUBSET Segments(image)
        BY <1>1, ImageFacts
    <2> QED
        BY <1>1, <2>1, ImageNumbers DEF StaticBase, StaticEnd
<1>4. env.slide \in Nat
    <2>1. env.slide \in 0 .. 2 * max_slide - slide_increment
        BY <1>2 DEF is_kernel_slide
    <2>2. max_slide \in Nat /\ slide_increment \in Nat
        BY SlideAssumption
    <2> QED
        BY <2>1, <2>2
<1>5. HeaderAt \in Int
    BY <1>3, <1>4 DEF HeaderAt
<1>6. DOMAIN env.regions = 1 .. Len(env.regions) /\ Len(env.regions) \in Nat
    BY <1>2, LenProperties
<1>7. ASSUME NEW S \in SUBSET DOMAIN env.regions, First(S) # NULL
      PROVE  First(S) \in DOMAIN env.regions
    <2>1. S # {}
        BY <1>7 DEF First
    <2> QED
        BY <1>6, <2>1, FirstOf
<1>8. ASSUME NEW a, RegionIn(env, a) # NULL PROVE RegionIn(env, a) \in DOMAIN env.regions
    BY <1>7, <1>8 DEF RegionIn
<1>9. KernelRegion(env) # NULL => KernelRegion(env) \in DOMAIN env.regions
    BY <1>7 DEF KernelRegion
<1> QED
    BY <1>2, <1>3, <1>4, <1>5, <1>8, <1>9

(* Where the search of memory may rely on it. *)
Before == PreHeaderIn(image, StaticBase)

LEMMA SearchFacts ==
    ASSUME TableInv, Kernel, env.kernelcache
    PROVE  /\ StaticBase < StaticEnd /\ macho_size \in Nat
           /\ \A a : Read(a) \in Int /\ (Read(a) = KernelHeader => a = HeaderAt)
           /\ Before # {} => /\ StartOf(image, Before) \in Int /\ EndOf(image, Before) \in Int
                             /\ EndOf(image, Before) <= StaticBase
<1>0. env \in Environments /\ image \in Images /\ image = env.image
    BY DEF TableInv, Types, Kernel
<1>1. ScansFindKernel(env)
    BY <1>0, EnvironmentsAssumption
<1>2. /\ StaticBase < StaticEnd
      /\ Before # {} => EndOf(image, Before) <= StaticBase
      /\ \A i \in Segments(image) : image[i].fileoff + image[i].filesize \in Nat
      /\ \A a \in DOMAIN env.memory :
            env.memory[a] \in Int /\ (env.memory[a] = KernelHeader => a = StaticBase + env.slide)
    BY <1>0, <1>1, Zenon DEF ScansFindKernel, StaticBase, StaticEnd, Before
<1>3. ASSUME NEW a PROVE Read(a) \in Int /\ (Read(a) = KernelHeader => a = HeaderAt)
    <2>1. CASE a \in DOMAIN env.memory
        BY <1>2, <2>1 DEF Read, ReadIn, HeaderAt
    <2>2. CASE a \notin DOMAIN env.memory
        BY <2>2 DEF Read, ReadIn, KernelHeader
    <2> QED
        BY <2>1, <2>2
<1>4. macho_size \in Nat
    <2> DEFINE f == [i \in Segments(image) |-> image[i].fileoff + image[i].filesize]
               T == {f[i] : i \in Segments(image)}
    <2>1. f \in [Segments(image) -> Nat]
        BY <1>2
    <2>2. macho_size = Max(T)
        BY DEF macho_size
    <2> HIDE DEF f
    <2>3. Segments(image) # {} /\ IsFiniteSet(Segments(image))
        <3>1. /\ Segments(image) # {} /\ Segments(image) \in SUBSET (1 .. Len(image))
              /\ Len(image) \in Nat
            BY <1>0, ImageFacts
        <3>2. IsFiniteSet(1 .. Len(image))
            BY <3>1, FS_Interval
        <3> QED
            BY <3>1, <3>2, FS_Subset
    <2>4. f \in Surjection(Segments(image), T)
        BY <2>1 DEF Surjection
    <2>5. IsFiniteSet(T) /\ T \in SUBSET Nat /\ T # {}
        BY <2>1, <2>3, <2>4, FS_Surjection
    <2>6. T \in SUBSET Int
        BY <2>5
    <2> HIDE DEF T
    <2>7. Max(T) \in T
        BY <2>5, <2>6, Extremes
    <2> QED
        BY <2>2, <2>5, <2>7
<1>5. Before # {} => StartOf(image, Before) \in Int /\ EndOf(image, Before) \in Int
    <2>1. Before \in SUBSET Segments(image)
        BY DEF Before, PreHeaderIn
    <2> QED
        BY <1>0, <2>1, ImageNumbers
<1> QED
    BY <1>2, <1>3, <1>4, <1>5

(* What good pointers point to. *)
LEMMA GoodPointers ==
    ASSUME TableInv, Kernel, env.kernelcache, env.pointers_good, KernelRegion(env) # NULL
    PROVE  /\ \A i \in DOMAIN env.heap :
                 IsZone(env.heap[i]) /\ PointsBackIn(env, ScannedRegion, env.heap[i])
                    => Read(env.heap[i].start) < StaticEnd + env.slide
           /\ LET pointers == PointersIn(env, ScannedRegion)
                  start == StartOf(image, Before)
                  end == EndOf(image, Before)
              IN Before # {} /\ pointers # {} =>
                    /\ StaticEnd + env.slide <= ScannedRegion.end
                    /\ Min(pointers) \in start + env.slide .. end + env.slide - 1
                    /\ Read(HeaderAt) = KernelHeader \/ end - start <= StaticEnd - StaticBase
           /\ env.before_16_3 => /\ Read(HeaderAt) = KernelHeader
                                 /\ ScannedRegion.start <= HeaderAt
<1>1. env \in Environments /\ image = env.image
    BY DEF Kernel
<1>2. ScansFindKernel(env)
    BY <1>1, EnvironmentsAssumption
<1> QED
    BY <1>1, <1>2, Zenon DEF ScansFindKernel, StaticBase, StaticEnd, Before, HeaderAt, ScannedRegion,
       Read

-----------------------------------------------------------------------------
(* Looking for the header. *)

ScanType == [start : Int, end : Int, zone : Int, next : Int]

(* What check_kernel_base does at an address that is safe to read. *)
LooksAt(b) ==
    /\ probed' = probed \cup {b}
    /\ scan.start <= b
    /\ env.pointers_good => b < scan.end /\ b < StaticEnd + env.slide
    /\ \/ spc' = "validate" /\ kernel_slide' = env.slide
       \/ spc' = spc /\ kernel_slide' = kernel_slide /\ Read(b) # KernelHeader
    /\ scan' \in ScanType /\ scan'.start = scan.start /\ scan'.end = scan.end
    /\ Quiet /\ UNCHANGED <<env, kernel, inits, slide_result, was_invalid>>

(* The kernel has not been moved when it is searched for. *)
LEMMA Unmoved ==
    ASSUME TableInv, SlideInv, spc \in Searches
    PROVE  /\ kernel.base = StaticBase /\ kernel_slide = 0 /\ pc = "ready" /\ env.kernelcache
           /\ scan \in ScanType /\ PreHeader = Before
           /\ spc # "region" => /\ KernelRegion(env) # NULL
                                /\ scan.start = ScannedRegion.start
                                /\ scan.end = ScannedRegion.end
                                /\ scan.start \in Int /\ scan.end \in Int
                                /\ Pointers = PointersIn(env, ScannedRegion)
<1>1. /\ Kernel /\ Slide /\ Last /\ Scans /\ spc \notin {"idle", "validate", "macos_symbol"}
    BY DEF SlideInv, Searches
<1>2. kernel_slide = 0 /\ pc = "ready" /\ env.kernelcache
    BY <1>1 DEF Slide, Last
<1>3. kernel.base = StaticBase
    <2>1. kernel.base = StaticBase + 0
        BY <1>1, <1>2 DEF Kernel
    <2> QED
        BY <1>1, <2>1, KernelFacts
<1>4. scan \in ScanType
    BY <1>1 DEF Scans, ScanType
<1>5. PreHeader = Before
    BY <1>3 DEF PreHeader, Before
<1>6. ASSUME spc # "region"
      PROVE  /\ KernelRegion(env) # NULL
             /\ scan.start = ScannedRegion.start /\ scan.end = ScannedRegion.end
             /\ Pointers = PointersIn(env, ScannedRegion)
    <2>1. KernelRegion(env) # NULL /\ scan.start = ScannedRegion.start /\ scan.end = ScannedRegion.end
        BY <1>1, <1>6 DEF Scans
    <2> QED
        BY <2>1 DEF Pointers, PointersIn
<1>7. scan.start \in Int /\ scan.end \in Int
    BY <1>4 DEF ScanType
<1> QED
    BY <1>2, <1>3, <1>4, <1>5, <1>6, <1>7

(* Once the address is safe, the check is what it should be. *)
LEMMA Checked ==
    ASSUME TableInv, SlideInv, spc \in Searches \ {"region"}, UnchangedTable,
           NEW b \in Int, NEW next \in Int, CheckKernelBase(b, [scan EXCEPT !.next = next]),
           scan.start <= b,
           env.pointers_good => b < scan.end /\ b < StaticEnd + env.slide
    PROVE  LooksAt(b) /\ scan'.next = next
<1>1. /\ kernel.base = StaticBase /\ env.kernelcache /\ scan \in ScanType /\ Kernel
    BY Unmoved DEF SlideInv
<1>2. /\ scan' = [scan EXCEPT !.next = next] /\ probed' = probed \cup {b}
      /\ kernel_slide' = IF Read(b) = KernelHeader THEN b - kernel.base ELSE kernel_slide
      /\ spc' = IF Read(b) = KernelHeader THEN "validate" ELSE spc
      /\ UNCHANGED <<env, kernel, inits, slide_result, was_invalid>>
    BY DEF CheckKernelBase, Goto, Searching_
<1>3. scan' \in ScanType /\ scan'.start = scan.start /\ scan'.end = scan.end /\ scan'.next = next
    BY <1>1, <1>2 DEF ScanType
<1>4. Quiet
    BY DEF UnchangedTable, Quiet
<1>5. CASE Read(b) = KernelHeader
    <2>1. b = StaticBase + env.slide
        BY <1>1, <1>5, SearchFacts DEF HeaderAt
    <2>2. kernel_slide' = env.slide
        BY <1>1, <1>2, <1>5, <2>1, KernelFacts
    <2> QED
        BY <1>2, <1>3, <1>4, <1>5, <2>2 DEF LooksAt
<1>6. CASE Read(b) # KernelHeader
    BY <1>2, <1>3, <1>4, <1>6 DEF LooksAt
<1> QED
    BY <1>5, <1>6

LEMMA BackwardsStep ==
    ASSUME TableInv, SlideInv, Backwards
    PROVE  (\E b : LooksAt(b)) /\ Scans'
<1>1. /\ spc = "backwards" /\ scan.next >= scan.start
      /\ CheckKernelBase(scan.next, [scan EXCEPT !.next = scan.next - page_size])
      /\ UnchangedTable
    BY DEF Backwards
<1>2. /\ spc \in Searches \ {"region"} /\ Scans /\ scan \in ScanType /\ page_size \in Nat
      /\ Kernel
    BY <1>1, Unmoved, SlideAssumption DEF Searches, SlideInv
<1>3. scan.next < scan.end /\ (env.pointers_good => scan.next < StaticEnd + env.slide)
    BY <1>1, <1>2 DEF Scans
<1>4. /\ scan.next \in Int /\ scan.start \in Int /\ scan.end \in Int
      /\ scan.next - page_size \in Int
      /\ StaticEnd + env.slide \in Int
    BY <1>2, KernelFacts DEF ScanType
<1>5. LooksAt(scan.next) /\ scan'.next = scan.next - page_size
    BY <1>1, <1>2, <1>3, <1>4, Checked
<1>6. /\ scan.next - page_size < scan.end
      /\ env.pointers_good => scan.next - page_size < StaticEnd + env.slide
    BY <1>2, <1>3, <1>4
<1>7. [SlideNext]_allVars
    BY DEF SlideNext
<1>8. Scans'
    BY <1>1, <1>2, <1>5, <1>6, <1>7, KernelKept DEF LooksAt, Scans, ScanType, Searches
<1> QED
    BY <1>5, <1>8

(* A slide that is not the kernel's leaves the next one to be tried. *)
LEMMA NextSlide ==
    ASSUME NEW n \in Nat, NEW slide \in Nat, n % slide_increment = 0, is_kernel_slide(slide),
           n <= slide, n # slide
    PROVE  n + slide_increment <= slide
<1>1. slide % slide_increment = 0 /\ slide_increment \in Nat \ {0}
    BY SlideAssumption DEF is_kernel_slide
<1>2. n < slide
    OBVIOUS
<1> QED
    BY <1>1, <1>2, NextMultiple, Zenon

(* The lowest pointer, and where the segments before the header are. *)
LEMMA Lowest ==
    ASSUME TableInv, SlideInv, spc = "slides"
    PROVE  /\ scan.next \in Nat /\ scan.next % slide_increment = 0
           /\ Before # {} /\ PreHeader = Before
           /\ kernel_ptr \in Int /\ scan.start <= kernel_ptr
           /\ preheader_start \in Int /\ preheader_end \in Int /\ preheader_end <= StaticBase
           /\ env.pointers_good =>
                 /\ StaticEnd + env.slide <= scan.end
                 /\ preheader_start + env.slide <= kernel_ptr
                 /\ kernel_ptr < preheader_end + env.slide
                 /\ \/ Read(HeaderAt) = KernelHeader /\ scan.next <= env.slide
                    \/ preheader_end - preheader_start <= StaticEnd - StaticBase
<1>1. spc \in Searches /\ spc # "region" /\ Scans /\ Kernel /\ env.kernelcache
    BY Unmoved DEF Searches, SlideInv
<1>2. /\ PreHeader = Before /\ Pointers = PointersIn(env, ScannedRegion)
      /\ scan.start = ScannedRegion.start /\ scan.end = ScannedRegion.end
      /\ scan.start \in Int /\ scan.end \in Int /\ KernelRegion(env) # NULL
    BY <1>1, Unmoved
<1>3. /\ scan.next \in Nat /\ scan.next % slide_increment = 0 /\ PreHeader # {} /\ Pointers # {}
      /\ env.pointers_good /\ Read(HeaderAt) = KernelHeader => scan.next <= env.slide
    BY <1>1 DEF Scans
<1>4. /\ preheader_start = StartOf(image, Before) /\ preheader_end = EndOf(image, Before)
    BY <1>2 DEF preheader_start, preheader_end
<1>5. /\ preheader_start \in Int /\ preheader_end \in Int /\ preheader_end <= StaticBase
    BY <1>1, <1>2, <1>3, <1>4, SearchFacts
<1>6. Pointers \in SUBSET (scan.start .. scan.end - 1)
    BY DEF Pointers, PointersIn
<1>7. kernel_ptr \in Pointers
    <2>1. IsFiniteSet(scan.start .. scan.end - 1)
        BY <1>2, FS_Interval
    <2>2. IsFiniteSet(Pointers)
        BY <1>6, <2>1, FS_Subset
    <2>3. Pointers \in SUBSET Int
        BY <1>2, <1>6
    <2>4. Min(Pointers) \in Pointers
        BY <1>3, <2>2, <2>3, Extremes
    <2> QED
        BY <2>4 DEF kernel_ptr
<1>8. kernel_ptr \in Int /\ scan.start <= kernel_ptr
    BY <1>2, <1>6, <1>7
<1>9. ASSUME env.pointers_good
      PROVE  /\ StaticEnd + env.slide <= scan.end
             /\ preheader_start + env.slide <= kernel_ptr
             /\ kernel_ptr < preheader_end + env.slide
             /\ \/ Read(HeaderAt) = KernelHeader /\ scan.next <= env.slide
                \/ preheader_end - preheader_start <= StaticEnd - StaticBase
    <2>1. /\ StaticEnd + env.slide <= ScannedRegion.end
          /\ kernel_ptr \in preheader_start + env.slide .. preheader_end + env.slide - 1
          /\ \/ Read(HeaderAt) = KernelHeader
             \/ preheader_end - preheader_start <= StaticEnd - StaticBase
        BY <1>1, <1>2, <1>3, <1>4, <1>9, GoodPointers DEF kernel_ptr
    <2>2. env.slide \in Int
        BY <1>1, KernelFacts
    <2> QED
        BY <1>2, <1>3, <1>5, <1>8, <1>9, <2>1, <2>2
<1> QED
    BY <1>2, <1>3, <1>5, <1>8, <1>9

LEMMA TrySlideStep ==
    ASSUME TableInv, SlideInv, TrySlide
    PROVE  (\E b : LooksAt(b)) /\ Scans'
<1> DEFINE next == scan.next
           b == StaticBase + next
           d == slide_increment
<1>1. /\ spc = "slides" /\ Consistent(next) /\ UnchangedTable
      /\ CheckKernelBase(kernel.base + next, [scan EXCEPT !.next = next + d])
    BY DEF TrySlide
<1>2. /\ spc \in Searches \ {"region"} /\ Kernel /\ env.kernelcache /\ Scans
      /\ scan \in ScanType /\ kernel.base = StaticBase /\ Pointers # {}
    BY <1>1, Unmoved DEF Searches, SlideInv, Scans
<1>3. /\ StaticBase \in Int /\ StaticEnd \in Int /\ env.slide \in Nat /\ is_kernel_slide(env.slide)
      /\ d \in Nat \ {0} /\ StaticBase < StaticEnd
    BY <1>2, KernelFacts, SearchFacts, SlideAssumption
<1>4. /\ next \in Nat /\ next % d = 0
      /\ Before # {} /\ PreHeader = Before
      /\ kernel_ptr \in Int /\ scan.start <= kernel_ptr
      /\ preheader_start \in Int /\ preheader_end \in Int /\ preheader_end <= StaticBase
    BY <1>1, Lowest
<1>5. preheader_start + next <= kernel_ptr /\ kernel_ptr < preheader_end + next
    BY <1>1 DEF Consistent
<1>6. b \in Int /\ next + d \in Int /\ scan.start \in Int /\ scan.end \in Int
    BY <1>2, <1>3, <1>4 DEF ScanType
<1>7. scan.start <= b
    BY <1>3, <1>4, <1>5, <1>6
<1>8. ASSUME env.pointers_good
      PROVE  b < scan.end /\ b < StaticEnd + env.slide
    <2>1. /\ StaticEnd + env.slide <= scan.end
          /\ kernel_ptr < preheader_end + env.slide
          /\ \/ Read(HeaderAt) = KernelHeader /\ next <= env.slide
             \/ preheader_end - preheader_start <= StaticEnd - StaticBase
        BY <1>1, <1>8, Lowest
    <2>2. CASE next <= env.slide
        BY <1>3, <1>4, <1>6, <2>1, <2>2
    <2>3. CASE preheader_end - preheader_start <= StaticEnd - StaticBase
        BY <1>3, <1>4, <1>5, <1>6, <2>1, <2>3
    <2> QED
        BY <2>1, <2>2, <2>3
<1> HIDE DEF b, next, d
<1>9. LooksAt(b) /\ scan'.next = next + d
    <2>1. CheckKernelBase(b, [scan EXCEPT !.next = next + d])
        BY <1>1, <1>2 DEF b
    <2> QED
        BY <1>1, <1>2, <1>6, <1>7, <1>8, <2>1, Checked
<1>10. [SlideNext]_allVars
    BY DEF SlideNext
<1>11. next + d \in Nat /\ (next + d) % d = 0
    <2>1. (next + d) % d = 0
        BY <1>3, <1>4, NextOfMultiple, Zenon
    <2> QED
        BY <1>3, <1>4, <2>1
<1>12. ASSUME spc' = "slides", env.pointers_good, Read(HeaderAt) = KernelHeader
       PROVE  next + d <= env.slide
    <2>1. Read(b) # KernelHeader
        BY <1>9, <1>12 DEF LooksAt
    <2>2. next # env.slide
        BY <1>12, <2>1 DEF b, HeaderAt
    <2>3. next <= env.slide
        BY <1>1, <1>2, <1>12 DEF Scans, next
    <2> QED
        BY <1>3, <1>4, <2>2, <2>3, NextSlide DEF d
<1>13. PreHeader' = PreHeader /\ Pointers' = Pointers
    <2>1. UNCHANGED <<env, kernel>> /\ scan'.start = scan.start /\ scan'.end = scan.end
        BY <1>9 DEF LooksAt
    <2> QED
        BY <1>10, <2>1, KernelKept DEF PreHeader, Pointers, PointersIn
<1>14. Scans'
    BY <1>1, <1>2, <1>4, <1>9, <1>10, <1>11, <1>12, <1>13, KernelKept
       DEF LooksAt, Scans, ScanType, Searches, d
<1> QED
    BY <1>9, <1>14

LEMMA TryUnsafeStep ==
    ASSUME TableInv, SlideInv, TryUnsafe
    PROVE  (\E b : LooksAt(b)) /\ Scans'
<1> DEFINE next == scan.next
           b == StaticBase + next
           d == slide_increment
<1>1. /\ spc = "unsafe" /\ next \in 0 .. max_slide - 1 /\ UnchangedTable
      /\ kernel.base + next < scan.end - macho_size
      /\ CheckKernelBase(kernel.base + next, [scan EXCEPT !.next = next + d])
    BY DEF TryUnsafe
<1>2. /\ spc \in Searches \ {"region"} /\ Kernel /\ env.kernelcache /\ Scans
      /\ scan \in ScanType /\ kernel.base = StaticBase /\ KernelRegion(env) # NULL
      /\ scan.start = ScannedRegion.start
    BY <1>1, Unmoved DEF Searches, SlideInv
<1>3. /\ StaticBase \in Int /\ StaticEnd \in Int /\ env.slide \in Nat /\ is_kernel_slide(env.slide)
      /\ d \in Nat \ {0} /\ StaticBase < StaticEnd /\ macho_size \in Nat /\ max_slide \in Nat
    BY <1>2, KernelFacts, SearchFacts, SlideAssumption
<1>4. /\ next \in Nat /\ next % d = 0 /\ env.before_16_3 /\ scan.start <= b
      /\ env.pointers_good => next <= env.slide
    <2>1. next # UnsafeScanStart
        BY <1>1, <1>3 DEF UnsafeScanStart
    <2> QED
        BY <1>1, <1>2, <2>1 DEF Scans
<1>5. b \in Int /\ next + d \in Int /\ scan.start \in Int /\ scan.end \in Int
    BY <1>2, <1>3, <1>4 DEF ScanType
<1>6. ASSUME env.pointers_good
      PROVE  b < scan.end /\ b < StaticEnd + env.slide
    <2>1. next <= env.slide
        BY <1>4, <1>6
    <2>2. b < scan.end - macho_size
        BY <1>1, <1>2
    <2> QED
        BY <1>3, <1>4, <1>5, <2>1, <2>2
<1> HIDE DEF b, next, d
<1>7. LooksAt(b) /\ scan'.next = next + d
    <2>1. CheckKernelBase(b, [scan EXCEPT !.next = next + d])
        BY <1>1, <1>2 DEF b
    <2> QED
        BY <1>1, <1>2, <1>4, <1>5, <1>6, <2>1, Checked
<1>8. [SlideNext]_allVars
    BY DEF SlideNext
<1>9. next + d \in Nat /\ (next + d) % d = 0
    <2>1. (next + d) % d = 0
        BY <1>3, <1>4, NextOfMultiple, Zenon
    <2> QED
        BY <1>3, <1>4, <2>1
<1>10. ASSUME spc' = "unsafe", env.pointers_good PROVE next + d <= env.slide
    <2>1. Read(b) # KernelHeader
        BY <1>7, <1>10 DEF LooksAt
    <2>2. Read(HeaderAt) = KernelHeader
        BY <1>2, <1>4, <1>10, GoodPointers
    <2>3. next # env.slide
        BY <2>1, <2>2 DEF b, HeaderAt
    <2> QED
        BY <1>3, <1>4, <1>10, <2>3, NextSlide DEF d
<1>11. scan.start <= StaticBase + (next + d)
    BY <1>3, <1>4, <1>5 DEF b
<1>12. Scans'
    BY <1>1, <1>2, <1>4, <1>7, <1>8, <1>9, <1>10, <1>11, KernelKept
       DEF LooksAt, Scans, ScanType, Searches, d
<1> QED
    BY <1>7, <1>12

(* The steps between the looks. *)
LEMMA MoveScans ==
    ASSUME TableInv, SlideInv,
           \/ FindKernelRegion \/ NotZoneArray \/ ZoneArray \/ NotBackwards
           \/ HeapScan \/ NothingInHeap \/ SkipSlide \/ NoSlideFits \/ StartUnsafeScan
    PROVE  /\ spc \in Searches /\ spc' \in Searches
           /\ Quiet /\ UNCHANGED <<env, kernel, kernel_slide, probed, inits, slide_result, was_invalid>>
           /\ probed = {} \/ (scan'.start = scan.start /\ scan'.end = scan.end /\ spc # "region")
           /\ Scans'
<1> DEFINE Kept == /\ scan'.start = scan.start /\ scan'.end = scan.end
                   /\ scan' \in ScanType
<1>1. /\ spc \in Searches /\ spc' \in Searches \ {"region"}
      /\ Quiet /\ UNCHANGED <<env, kernel, kernel_slide, probed, inits, slide_result, was_invalid>>
    BY DEF FindKernelRegion, NotZoneArray, ZoneArray, NotBackwards, HeapScan, NothingInHeap,
       SkipSlide, NoSlideFits, StartUnsafeScan, Goto, Searching_, UnchangedTable, Quiet, Searches
<1>2. /\ Kernel /\ env.kernelcache /\ Scans /\ scan \in ScanType /\ kernel.base = StaticBase
      /\ PreHeader = Before
    BY <1>1, Unmoved DEF SlideInv
<1>3. /\ StaticBase \in Int /\ StaticEnd \in Int /\ env.slide \in Nat /\ is_kernel_slide(env.slide)
      /\ slide_increment \in Nat \ {0} /\ page_size \in Nat \ {0} /\ max_slide \in Nat
      /\ StaticBase < StaticEnd /\ slide_increment \in Int
    BY <1>2, KernelFacts, SearchFacts, SlideAssumption
<1>4. spc # "region" =>
         /\ KernelRegion(env) # NULL
         /\ scan.start = ScannedRegion.start /\ scan.end = ScannedRegion.end
         /\ scan.start \in Int /\ scan.end \in Int
         /\ Pointers = PointersIn(env, ScannedRegion)
    BY <1>1, Unmoved
<1>5. [SlideNext]_allVars
    BY DEF SlideNext
<1>6. ASSUME spc # "region", Kept
      PROVE  /\ scan' \in ScanType
             /\ (spc \in Searches \ {"region"} =>
                  /\ KernelRegion(env) # NULL
                  /\ scan.start = ScannedRegion.start /\ scan.end = ScannedRegion.end)'
             /\ PreHeader' = PreHeader /\ Pointers' = Pointers
    <2>1. PreHeader' = PreHeader /\ Pointers' = Pointers
        BY <1>1, <1>5, <1>6, KernelKept DEF PreHeader, Pointers, PointersIn
    <2> QED
        BY <1>4, <1>5, <1>6, <2>1, KernelKept
<1>7. CASE FindKernelRegion
    <2>1. /\ spc = "region" /\ spc' = "zone" /\ KernelRegion(env) # NULL
          /\ scan' = [NoScan EXCEPT !.start = ScannedRegion.start, !.end = ScannedRegion.end]
        BY <1>7 DEF FindKernelRegion, Goto, Searching_, ScannedRegion
    <2>2. ScannedRegion.start \in Int /\ ScannedRegion.end \in Int
        BY <1>2, <2>1, KernelFacts DEF ScannedRegion
    <2>3. /\ scan' \in ScanType
          /\ scan'.start = ScannedRegion.start /\ scan'.end = ScannedRegion.end
        <3>1. scan' = [start |-> ScannedRegion.start, end |-> ScannedRegion.end,
                       zone |-> 1, next |-> 0]
            BY <2>1 DEF NoScan
        <3> QED
            BY <2>2, <3>1 DEF ScanType
    <2>4. probed = {}
        BY <1>2, <2>1 DEF Scans
    <2> QED
        BY <1>1, <1>5, <2>1, <2>3, <2>4, KernelKept DEF Scans, ScanType
<1>8. CASE NotZoneArray \/ NotBackwards
    <2>1. spc # "region" /\ spc' = "zone" /\ scan' = [scan EXCEPT !.zone = scan.zone + 1]
        BY <1>8 DEF NotZoneArray, NotBackwards, Goto, Searching_
    <2>2. Kept
        BY <1>2, <2>1 DEF ScanType
    <2> QED
        BY <1>1, <1>6, <2>1, <2>2 DEF Scans, ScanType
<1>9. CASE ZoneArray
    <2> DEFINE r == env.heap[scan.zone]
               pointer == Read(r.start)
    <2>1. /\ spc = "zone" /\ spc' = "backwards" /\ scan.zone \in DOMAIN env.heap
          /\ IsZone(r) /\ PointsBackIn(env, scan, r)
          /\ scan' = [scan EXCEPT !.next = round_down(pointer, page_size)]
        BY <1>9 DEF ZoneArray, Goto, Searching_, PointsBack
    <2>2. PointsBackIn(env, ScannedRegion, r)
        BY <1>4, <2>1 DEF PointsBackIn
    <2>3. pointer \in Int /\ pointer < scan.end
        BY <1>2, <2>1, SearchFacts DEF PointsBackIn, Read
    <2>4. env.pointers_good => pointer < StaticEnd + env.slide
        BY <1>2, <1>4, <2>1, <2>2, GoodPointers
    <2> HIDE DEF r, pointer
    <2>5. round_down(pointer, page_size) \in Int /\ round_down(pointer, page_size) <= pointer
        BY <1>3, <2>3, Rounded
    <2>6. Kept /\ scan'.next = round_down(pointer, page_size)
        BY <1>2, <2>1, <2>5 DEF ScanType
    <2>7. scan.end \in Int
        BY <1>4, <2>1
    <2>8. /\ scan'.next \in Int /\ scan'.next < scan.end
          /\ env.pointers_good => scan'.next < StaticEnd + env.slide
        BY <1>3, <2>3, <2>4, <2>5, <2>6, <2>7
    <2> QED
        BY <1>1, <1>5, <1>6, <2>1, <2>6, <2>8, KernelKept DEF Scans, ScanType
<1>10. CASE HeapScan
    <2>1. /\ spc = "zone" /\ spc' = "slides" /\ PreHeader # {} /\ Pointers # {}
          /\ scan' = [scan EXCEPT !.next = 0]
        BY <1>10 DEF HeapScan, Goto, Searching_
    <2>2. Kept /\ scan'.next = 0
        BY <1>2, <2>1 DEF ScanType
    <2>3. 0 % slide_increment = 0 /\ 0 <= env.slide
        BY <1>3
    <2> QED
        BY <1>1, <1>5, <1>6, <2>1, <2>2, <2>3, KernelKept DEF Scans, ScanType
<1>11. CASE NothingInHeap \/ NoSlideFits
    <2>1. spc # "region" /\ spc' = "unsafe" /\ scan' = [scan EXCEPT !.next = UnsafeScanStart]
        BY <1>11 DEF NothingInHeap, NoSlideFits, Goto, Searching_
    <2>2. Kept /\ scan'.next = UnsafeScanStart
        BY <1>2, <2>1 DEF ScanType, UnsafeScanStart
    <2> QED
        BY <1>1, <1>6, <2>1, <2>2 DEF Scans, ScanType
<1>12. CASE SkipSlide
    <2> DEFINE next == scan.next
    <2>1. /\ spc = "slides" /\ spc' = "slides" /\ ~ Consistent(next)
          /\ scan' = [scan EXCEPT !.next = next + slide_increment]
        BY <1>12 DEF SkipSlide, Goto, Searching_
    <2>2. /\ next \in Nat /\ next % slide_increment = 0 /\ Before # {}
          /\ kernel_ptr \in Int /\ preheader_start \in Int /\ preheader_end \in Int
          /\ env.pointers_good => /\ preheader_start + env.slide <= kernel_ptr
                                  /\ kernel_ptr < preheader_end + env.slide
        BY <2>1, Lowest
    <2>3. PreHeader # {} /\ Pointers # {}
        BY <1>2, <2>1 DEF Scans
    <2>4. Kept /\ scan'.next = next + slide_increment
        BY <1>2, <1>3, <2>1, <2>2 DEF ScanType
    <2> HIDE DEF next
    <2>5. next + slide_increment \in Nat /\ (next + slide_increment) % slide_increment = 0
        <3>1. (next + slide_increment) % slide_increment = 0
            BY <1>3, <2>2, NextOfMultiple, Zenon
        <3> QED
            BY <1>3, <2>2, <3>1
    <2>6. ASSUME env.pointers_good, Read(HeaderAt) = KernelHeader
          PROVE  next + slide_increment <= env.slide
        <3>1. next # env.slide
            BY <2>1, <2>2, <2>6 DEF Consistent
        <3>2. next <= env.slide
            BY <1>2, <2>1, <2>6 DEF Scans, next
        <3> QED
            BY <1>3, <2>2, <3>1, <3>2, NextSlide
    <2> QED
        BY <1>1, <1>5, <1>6, <2>1, <2>3, <2>4, <2>5, <2>6, KernelKept DEF Scans, ScanType
<1>13. CASE StartUnsafeScan
    <2> DEFINE d == slide_increment
               low == scan.start - StaticBase
    <2>1. /\ spc = "unsafe" /\ spc' = "unsafe" /\ env.before_16_3
          /\ scan' = [scan EXCEPT !.next = min_slide]
        BY <1>13 DEF StartUnsafeScan, Goto, Searching_
    <2>2. min_slide = IF scan.start > StaticBase THEN round2_up(low, d) ELSE 0
        BY <1>2 DEF min_slide
    <2>3. low \in Int /\ scan.start \in Int
        BY <1>3, <1>4, <2>1
    <2>4. env.pointers_good => scan.start <= StaticBase + env.slide
        BY <1>2, <1>4, <2>1, GoodPointers DEF HeaderAt
    <2>5. /\ min_slide \in Nat /\ min_slide % d = 0 /\ scan.start <= StaticBase + min_slide
          /\ env.pointers_good => min_slide <= env.slide
        <3>1. CASE ~ (scan.start > StaticBase)
            <4>1. min_slide = 0 /\ 0 % d = 0
                BY <1>3, <2>2, <3>1
            <4> QED
                BY <1>3, <2>3, <3>1, <4>1
        <3>2. CASE scan.start > StaticBase
            <4> DEFINE up == round2_up(low, d)
            <4>1. up \in Int /\ low <= up /\ up < low + d /\ up % d = 0
                BY <1>3, <2>3, Rounded
            <4>2. min_slide = up
                BY <2>2, <3>2
            <4> HIDE DEF up
            <4>3. up \in Nat /\ scan.start <= StaticBase + up
                BY <1>3, <2>3, <3>2, <4>1
            <4>4. ASSUME env.pointers_good, ~ (up <= env.slide) PROVE FALSE
                <5>1. env.slide % d = 0 /\ env.slide < up
                    BY <1>3, <4>3, <4>4 DEF is_kernel_slide
                <5>2. env.slide + d <= up
                    BY <1>3, <4>1, <4>3, <5>1, NextMultiple, Zenon
                <5> QED
                    BY <1>3, <2>3, <2>4, <4>1, <4>4, <5>2
            <4> QED
                BY <4>1, <4>2, <4>3, <4>4
        <3> QED
            BY <3>1, <3>2
    <2>6. Kept /\ scan'.next = min_slide
        BY <1>2, <2>1, <2>5 DEF ScanType
    <2> QED
        BY <1>1, <1>5, <1>6, <2>1, <2>5, <2>6, KernelKept DEF Scans, ScanType
<1>14. Scans'
    BY <1>7, <1>8, <1>9, <1>10, <1>11, <1>12, <1>13
<1>15. probed = {} \/ (scan'.start = scan.start /\ scan'.end = scan.end /\ spc # "region")
    <2>1. CASE spc = "region"
        BY <1>2, <2>1 DEF Scans
    <2>2. CASE spc # "region"
        BY <1>2, <2>2 DEF FindKernelRegion, NotZoneArray, ZoneArray, NotBackwards, HeapScan,
           NothingInHeap, SkipSlide, NoSlideFits, StartUnsafeScan, Goto, Searching_, ScanType
    <2> QED
        BY <2>1, <2>2
<1> QED
    BY <1>1, <1>14, <1>15

-----------------------------------------------------------------------------
(* The steps of the search, as what it has found sees them. *)

Looks == spc \in Searches \ {"region"} /\ (\E b : LooksAt(b))

Moves ==
    /\ spc \in Searches /\ spc' \in Searches
    /\ Quiet /\ UNCHANGED <<env, kernel, kernel_slide, probed, inits, slide_result, was_invalid>>
    /\ probed = {} \/ (scan'.start = scan.start /\ scan'.end = scan.end /\ spc # "region")

Fails ==
    /\ kernel_slide = 0 /\ spc' = "idle" /\ scan' = NoScan /\ slide_result' = "failed"
    /\ Quiet /\ UNCHANGED <<env, kernel, kernel_slide, probed, inits, was_invalid>>

LEMMA Classified ==
    ASSUME TableInv, SlideInv, [SlideNext]_allVars
    PROVE  \/ Looks /\ Scans'
           \/ Moves /\ Scans'
           \/ Fails \/ Validate \/ MacosRegion
           \/ KernelInit \/ ResetBase \/ KernelSlideInit \/ AskLastSymbol
           \/ UseTable \/ UNCHANGED allVars
<1>1. CASE Backwards \/ TrySlide \/ TryUnsafe
    <2>1. spc \in Searches \ {"region"}
        BY <1>1 DEF Backwards, TrySlide, TryUnsafe, Searches
    <2> QED
        BY <1>1, <2>1, BackwardsStep, TrySlideStep, TryUnsafeStep DEF Looks
<1>2. CASE \/ FindKernelRegion \/ NotZoneArray \/ ZoneArray \/ NotBackwards
           \/ HeapScan \/ NothingInHeap \/ SkipSlide \/ NoSlideFits \/ StartUnsafeScan
    BY <1>2, MoveScans DEF Moves
<1>3. CASE NoLastSymbol \/ NoMacosRegion \/ NoKernelRegion \/ SlideNotFound
    <2>1. /\ spc \in {"macos_symbol", "region", "unsafe"} /\ SlideReturns("failed")
          /\ UNCHANGED <<kernel_slide, probed>> /\ UnchangedTable
        BY <1>3 DEF NoLastSymbol, NoMacosRegion, NoKernelRegion, SlideNotFound
    <2>2. kernel_slide = 0 /\ was_invalid \in BOOLEAN
        BY <2>1 DEF SlideInv, Slide
    <2> QED
        BY <2>1, <2>2 DEF Fails, SlideReturns, Searching_, UnchangedTable, Quiet
<1> QED
    BY <1>1, <1>2, <1>3 DEF SlideNext

(* The end of the region and the last symbol tell the slide, or no valid one. *)
LEMMA MacosStep ==
    ASSUME TableInv, SlideInv, MacosRegion
    PROVE  /\ kernel_slide' \in Int
           /\ is_kernel_slide(kernel_slide') => kernel_slide' = env.slide
           /\ spc = "macos_symbol" /\ pc = "ready" /\ spc' = "validate" /\ scan' = scan
           /\ Quiet /\ UNCHANGED <<env, kernel, probed, inits, slide_result, was_invalid>>
<1>1. /\ spc = "macos_symbol" /\ pc = "ready" /\ answer.result = "ok"
      /\ RegionOf(kernel.base) # NULL
      /\ kernel_slide' = env.regions[RegionOf(kernel.base)].end
                         - round2_up(answer.address + kernel.slide, page_size)
      /\ spc' = "validate" /\ scan' = scan
      /\ Quiet /\ UNCHANGED <<env, kernel, probed, inits, slide_result, was_invalid>>
    BY DEF MacosRegion, Goto, Searching_, UnchangedTable, Quiet
<1>2. Kernel /\ Slide /\ Last
    BY DEF SlideInv
<1>3. kernel_slide = 0 /\ kernel.slide = 0 /\ kernel.base = StaticBase /\ ~ env.kernelcache
    <2>1. kernel_slide = 0 /\ ~ env.kernelcache
        BY <1>1, <1>2 DEF Slide
    <2>2. kernel.slide = 0 /\ kernel.base = StaticBase + 0
        BY <1>1, <1>2, <2>1 DEF Kernel
    <2> QED
        BY <1>2, <2>1, <2>2, KernelFacts
<1>4. PICK e \in Entries(table) : e.symbol = LastSymbol /\ answer.address = e.address
    BY <1>1, <1>2 DEF Last, NotFound
<1>5. e \in ImageContents(image).entries
    BY <1>1, <1>2, <1>4 DEF Last, Built
<1>6. e.address \in Int
    <2>1. PICK i \in 1 .. table.count : e.address = table.address[i]
        BY <1>4 DEF Entries
    <2>2. table.address \in Seq(Int) /\ table.count \in Nat /\ Len(table.address) = table.count
        <3>1. table.address \in Seq(Int) /\ table.count \in Nat
            BY DEF TableInv, Types, TableType
        <3> QED
            BY <1>1, <3>1 DEF TableInv, Lengths
    <2> QED
        BY <2>1, <2>2
<1> DEFINE i == RegionIn(env, macho_find_base(env.image))
           distance == env.regions[i].end - round2_up(e.address, page_size)
<1>7. RegionOf(kernel.base) = i
    BY <1>2, <1>3, KernelFacts DEF RegionOf
<1>8. kernel_slide' = distance
    <2>1. answer.address + kernel.slide = e.address
        BY <1>3, <1>4, <1>6
    <2> QED
        BY <1>1, <1>7, <2>1
<1>9. is_kernel_slide(distance) => distance = env.slide
    <2>1. env \in Environments /\ image = env.image
        BY <1>2 DEF Kernel
    <2>2. RegionEndsKernel(env)
        BY <1>3, <2>1, EnvironmentsAssumption
    <2> QED
        BY <1>1, <1>4, <1>5, <1>7, <2>1, <2>2, Zenon DEF RegionEndsKernel
<1>10. distance \in Int
    <2>1. i \in DOMAIN env.regions
        BY <1>1, <1>2, <1>7, KernelFacts
    <2>2. env.regions[i].end \in Int
        BY <1>2, <2>1, KernelFacts
    <2>3. page_size \in Nat \ {0}
        BY SlideAssumption
    <2>4. round2_up(e.address, page_size) \in Int
        BY <1>6, <2>3, Rounded
    <2> QED
        BY <2>2, <2>4
<1> QED
    BY <1>1, <1>8, <1>9, <1>10

(* What the kernel tells, if it tells a slide. *)
LEMMA Told ==
    ASSUME TableInv, SlideInv, KernelSlideInit
    PROVE  /\ \/ kernel_slide' = kernel_slide /\ (kernel_slide # 0 <=> slide_result' = "ok")
              \/ kernel_slide = 0 /\ kernel_slide' = env.slide /\ env.slide # 0
                 /\ slide_result' = "ok"
           /\ slide_result' \in {"ok", "none"}
           /\ spc' = IF slide_result' = "ok" THEN "idle"
                     ELSE IF env.kernelcache THEN "region" ELSE "macos"
           /\ pc = "ready" /\ spc = "idle" /\ answer # Aborted
           /\ probed' = {} /\ Quiet /\ UNCHANGED <<env, kernel, scan, was_invalid>>
<1>1. env \in Environments
    BY DEF SlideInv, Kernel
<1>2. env.dyld_info # 0 /\ is_kernel_slide(env.dyld_info) => env.dyld_info = env.slide
    BY <1>1, EnvironmentsAssumption
<1>3. env.kernelcache \/ ~ env.kernelcache
    OBVIOUS
<1> QED
    BY <1>2, <1>3 DEF KernelSlideInit, UnchangedTable, Quiet

(* The table is used only when there is one, or one is being built. *)
LEMMA TableUsed ==
    ASSUME UseTable
    PROVE  pc # "none" /\ UNCHANGED slideVars /\ (pc = "ready" => spc = "idle")
BY DEF UseTable, TableNext, AllocateArrays, collect_symbol, SortSymbols, OutOfMemory,
   symbol_table_deinit, Ask, FindSymbol, SearchStep, SymbolFound, SymbolNotFound,
   NoSizeWanted, SizeAborts, FindSymbolEnd, NotInSegment, FindAddress, BeforeAllSymbols,
   FindEnd, EndFound, AlreadyPresent, AddOutOfMemory, InsertName, InsertAddress

LEMMA StepKernel ==
    ASSUME TableInv, SlideInv, [SlideNext]_allVars
    PROVE  Kernel'
<1>1. Kernel /\ env' = env /\ image' = image /\ StaticBase' = StaticBase
    BY KernelKept DEF SlideInv
<1>2. StaticBase \in Int /\ env.slide \in Int /\ StaticBase = macho_find_base(image)
    BY <1>1, KernelFacts DEF StaticBase
<1>3. /\ env \in Environments /\ image = env.image
      /\ kernel \in [base : Int, slide : Int] /\ kernel_slide \in Int
      /\ pc # "none" => kernel.base = StaticBase + kernel.slide
      /\ kernel_slide = 0 => kernel.slide = 0
    BY <1>1 DEF Kernel
<1>4. CASE Looks
    <2>1. kernel_slide = 0
        BY <1>4, Unmoved DEF Looks
    <2>2. kernel' = kernel /\ pc' = pc /\ kernel_slide' \in {kernel_slide, env.slide}
        BY <1>4 DEF Looks, LooksAt, Quiet, tableVars
    <2> QED
        BY <1>1, <1>2, <1>3, <2>1, <2>2 DEF Kernel
<1>5. CASE Moves \/ Fails \/ Validate \/ AskLastSymbol \/ UseTable \/ UNCHANGED allVars
    <2>1. kernel' = kernel /\ kernel_slide' = kernel_slide
        BY <1>5 DEF Moves, Fails, Validate, AskLastSymbol, UseTable, allVars, slideVars,
           SlideReturns, Goto, Searching_
    <2>2. pc' # "none" => pc # "none"
        BY <1>5, TableUsed DEF Moves, Fails, Validate, AskLastSymbol, allVars, UnchangedTable,
           Quiet, tableVars
    <2> QED
        BY <1>1, <1>3, <2>1, <2>2 DEF Kernel
<1>6. CASE MacosRegion
    <2>1. kernel_slide = 0
        BY <1>6, MacosStep DEF SlideInv, Slide
    <2>2. kernel' = kernel /\ pc' = pc /\ kernel_slide' \in Int
        BY <1>6, MacosStep DEF Quiet, tableVars
    <2> QED
        BY <1>1, <1>3, <2>1, <2>2 DEF Kernel
<1>7. CASE KernelInit
    <2>1. kernel' = [base |-> StaticBase + kernel_slide, slide |-> kernel_slide]
          /\ kernel_slide' = kernel_slide
        BY <1>2, <1>7 DEF KernelInit, UnchangedSearch
    <2> QED
        BY <1>1, <1>2, <1>3, <2>1 DEF Kernel
<1>8. CASE ResetBase
    <2>1. /\ kernel' = [base |-> (kernel.base - kernel.slide) + kernel_slide, slide |-> kernel_slide]
          /\ kernel_slide' = kernel_slide /\ pc = "ready"
        BY <1>8 DEF ResetBase, NewBase, UnchangedSearch
    <2>2. kernel.base = StaticBase + kernel.slide /\ kernel.slide \in Int
        BY <1>3, <2>1
    <2>3. (kernel.base - kernel.slide) + kernel_slide = StaticBase + kernel_slide
        BY <1>2, <1>3, <2>2
    <2> QED
        BY <1>1, <1>2, <1>3, <2>1, <2>3 DEF Kernel
<1>9. CASE KernelSlideInit
    <2>1. /\ \/ kernel_slide' = kernel_slide
             \/ kernel_slide = 0 /\ kernel_slide' = env.slide
          /\ kernel' = kernel /\ pc' = pc
        BY <1>9, Told DEF Quiet, tableVars
    <2> QED
        BY <1>1, <1>2, <1>3, <2>1 DEF Kernel
<1> QED
    BY <1>4, <1>5, <1>6, <1>7, <1>8, <1>9, Classified

LEMMA StepSlide ==
    ASSUME TableInv, SlideInv, [SlideNext]_allVars
    PROVE  Slide'
<1>1. Slide /\ env' = env
    BY KernelKept DEF SlideInv
<1>2. CASE Looks
    <2>1. /\ spc \in Searches /\ kernel_slide = 0 /\ env.kernelcache
          /\ slide_result = "none" /\ was_invalid \in BOOLEAN
        BY <1>1, <1>2, Unmoved DEF Looks, Slide, Searches
    <2>2. /\ UNCHANGED <<slide_result, was_invalid>>
          /\ \/ spc' = "validate" /\ kernel_slide' = env.slide
             \/ spc' = spc /\ kernel_slide' = kernel_slide
        BY <1>2 DEF Looks, LooksAt
    <2> QED
        BY <1>1, <2>1, <2>2 DEF Slide, Searches
<1>3. CASE Moves
    <2>1. /\ spc \in Searches /\ kernel_slide = 0 /\ env.kernelcache
          /\ slide_result = "none" /\ was_invalid \in BOOLEAN
        BY <1>1, <1>3, Unmoved DEF Moves, Slide, Searches
    <2>2. spc' \in Searches /\ UNCHANGED <<kernel_slide, slide_result, was_invalid>>
        BY <1>3 DEF Moves
    <2> QED
        BY <1>1, <2>1, <2>2 DEF Slide, Searches
<1>4. CASE Fails
    BY <1>1, <1>4 DEF Fails, Slide, Searches
<1>5. CASE Validate
    <2>1. /\ spc = "validate" /\ spc' = "idle" /\ kernel_slide' = kernel_slide
          /\ slide_result' = IF is_kernel_slide(kernel_slide) THEN "ok" ELSE "invalid"
          /\ was_invalid' = (was_invalid \/ (slide_result' = "invalid"))
        BY <1>5 DEF Validate, SlideReturns, Searching_
    <2>2. was_invalid' \in BOOLEAN
        BY <1>1, <2>1 DEF Slide
    <2>3. is_kernel_slide(kernel_slide) => kernel_slide = env.slide
        BY <1>1, <2>1 DEF Slide
    <2> QED
        BY <1>1, <2>1, <2>2, <2>3 DEF Slide, Searches
<1>6. CASE MacosRegion
    <2>1. /\ spc = "macos_symbol" /\ spc' = "validate" /\ UNCHANGED <<slide_result, was_invalid>>
          /\ is_kernel_slide(kernel_slide') => kernel_slide' = env.slide
        BY <1>6, MacosStep
    <2>2. slide_result = "none" /\ was_invalid \in BOOLEAN
        BY <1>1, <2>1 DEF Slide
    <2> QED
        BY <1>1, <2>1, <2>2 DEF Slide, Searches
<1>7. CASE AskLastSymbol
    <2>1. /\ spc = "macos" /\ spc' = "macos_symbol"
          /\ UNCHANGED <<kernel_slide, probed, slide_result, was_invalid>>
        BY <1>7 DEF AskLastSymbol, Goto, Searching_
    <2> QED
        BY <1>1, <2>1 DEF Slide, Searches
<1>8. CASE KernelInit \/ ResetBase \/ UseTable \/ UNCHANGED allVars
    <2>1. UNCHANGED <<kernel_slide, spc, probed, slide_result, was_invalid>>
        BY <1>8 DEF KernelInit, ResetBase, UseTable, UnchangedSearch, allVars, slideVars
    <2> QED
        BY <1>1, <2>1 DEF Slide
<1>9. CASE KernelSlideInit
    <2>1. /\ \/ kernel_slide' = kernel_slide /\ (kernel_slide # 0 <=> slide_result' = "ok")
             \/ kernel_slide = 0 /\ kernel_slide' = env.slide /\ slide_result' = "ok"
          /\ slide_result' \in {"ok", "none"}
          /\ spc' = IF slide_result' = "ok" THEN "idle"
                    ELSE IF env.kernelcache THEN "region" ELSE "macos"
          /\ spc = "idle" /\ probed' = {} /\ was_invalid' = was_invalid
        BY <1>9, Told
    <2>2. /\ was_invalid \in BOOLEAN /\ (~ was_invalid => kernel_slide \in {0, env.slide})
        BY <1>1, <2>1 DEF Slide
    <2>3. CASE slide_result' = "ok"
        BY <1>1, <2>1, <2>2, <2>3 DEF Slide, Searches
    <2>4. CASE slide_result' = "none"
        <3>1. kernel_slide' = 0 /\ spc' = IF env.kernelcache THEN "region" ELSE "macos"
            BY <2>1, <2>4
        <3> QED
            BY <1>1, <2>1, <2>2, <2>4, <3>1 DEF Slide, Searches
    <2> QED
        BY <2>1, <2>3, <2>4
<1> QED
    BY <1>2, <1>3, <1>4, <1>5, <1>6, <1>7, <1>8, <1>9, Classified

(* The finders never add the last symbol: it is where the image says, or nowhere. *)
LastOfImage ==
    Built => \A e \in Entries(table) :
                e.symbol = LastSymbol => e \in ImageContents(image).entries

LEMMA StepLastOfImage ==
    ASSUME TableInv, LastOfImage, TableStep
    PROVE  LastOfImage'
<1>0. image' = image
    BY ImageKept
<1>1. CASE SortSymbols \/ CollectSegments
    <2>1. CASE pc' = "ready"
        <3>1. Entries(table)' = ImageContents(image).entries
            BY <1>1, <2>1, LoadedEntries
        <3> QED
            BY <1>0, <3>1 DEF LastOfImage
    <2>2. CASE pc' # "ready"
        BY <1>1, <2>2 DEF SortSymbols, CollectSegments, Built, LastOfImage
    <2> QED
        BY <2>1, <2>2
<1>2. CASE collect_symbol \/ OutOfMemory \/ symbol_table_deinit \/ AllocateArrays
    BY <1>2 DEF collect_symbol, OutOfMemory, symbol_table_deinit, AllocateArrays, Built, LastOfImage
<1>3. CASE InsertName
    <2>1. Built /\ Entries(table)' = Entries(table)
        BY <1>3, HalfInserted DEF InsertName, Built
    <2> QED
        BY <1>0, <2>1 DEF LastOfImage
<1>4. CASE InsertAddress
    <2> DEFINE new == [symbol |-> request.symbol, address |-> request.address]
    <2>1. Entries(table)' = Entries(table) \cup {new}
        BY <1>4, EntryAdded
    <2>2. Built /\ request \in Requests /\ request.what = "add"
        <3>1. pc = "add_address"
            BY <1>4 DEF InsertAddress
        <3> QED
            BY <3>1 DEF TableInv, Types, Served, NoRequest, Built
    <2>3. new.symbol # LastSymbol
        BY <2>2, SlideAssumption
    <2> QED
        BY <1>0, <2>1, <2>2, <2>3 DEF LastOfImage
<1>5. CASE ~ Changes /\ ~ AllocateArrays
    <2>1. Entries(table)' = Entries(table) /\ (Quiet \/ Built)
        BY <1>5, TableKept
    <2>2. Built' => Built
        BY <2>1 DEF Quiet, tableVars, Built
    <2> QED
        BY <1>0, <2>1, <2>2 DEF LastOfImage
<1> QED
    BY <1>1, <1>2, <1>3, <1>4, <1>5 DEF Changes

(* Asked for the last symbol, the table answers with an entry or with none. *)
Asked ==
    spc = "macos_symbol" =>
        \/ pc \in {"symbol", "by_name", "size"} /\ request = LastSymbolRequest
        \/ /\ pc = "ready"
           /\ \/ answer = NotFound
              \/ \E e \in Entries(table) :
                    /\ e.symbol = LastSymbol
                    /\ answer = [result |-> "ok", address |-> e.address, size |-> 0]

LEMMA StepAsked ==
    ASSUME TableInv, SlideInv, [SlideNext]_allVars
    PROVE  Asked'
<1>0. Asked /\ (spc \notin {"idle", "macos_symbol"} => pc = "ready")
    BY DEF SlideInv, Last, Asked
<1>1. CASE Looks
    BY <1>1 DEF Looks, LooksAt, Searches, Asked
<1>2. CASE Moves
    BY <1>2 DEF Moves, Searches, Asked
<1>3. CASE Fails
    BY <1>3 DEF Fails, Asked
<1>4. CASE Validate
    BY <1>4 DEF Validate, SlideReturns, Searching_, Asked
<1>5. CASE MacosRegion
    BY <1>5, MacosStep DEF Asked
<1>6. CASE KernelInit \/ ResetBase
    <2>1. spc' = spc /\ pc \in {"none", "ready"} /\ (pc = "ready" => spc = "idle")
        BY <1>6 DEF KernelInit, ResetBase, UnchangedSearch, CollectSegments
    <2> QED
        BY <1>0, <2>1 DEF Asked
<1>7. CASE KernelSlideInit
    BY <1>7, Told DEF Asked
<1>8. CASE AskLastSymbol
    BY <1>8 DEF AskLastSymbol, Asked
<1>9. CASE UseTable /\ spc' = "macos_symbol"
    <2>1. TableNext /\ spc = "macos_symbol" /\ pc # "ready"
        BY <1>9 DEF UseTable, slideVars
    <2>2. /\ pc \in {"symbol", "by_name", "size"} /\ request = LastSymbolRequest
          /\ ~ request.size
        BY <1>0, <2>1 DEF Asked, LastSymbolRequest
    <2>3. \/ FindSymbol \/ SearchStep \/ SymbolFound \/ SymbolNotFound \/ NoSizeWanted
        BY <2>1, <2>2 DEF TableNext, AllocateArrays, collect_symbol, SortSymbols, OutOfMemory,
           symbol_table_deinit, Ask, SizeAborts, FindSymbolEnd, NotInSegment, FindAddress,
           BeforeAllSymbols, FindEnd, EndFound, AlreadyPresent, AddOutOfMemory, InsertName,
           InsertAddress
    <2>4. CASE FindSymbol \/ SearchStep \/ SymbolFound
        BY <2>2, <2>4 DEF FindSymbol, SearchStep, SymbolFound, StartSearch, tableVars, Asked
    <2>5. CASE SymbolNotFound
        BY <2>5 DEF SymbolNotFound, Return, Asked
    <2>6. CASE NoSizeWanted
        <3>1. /\ pc = "size" /\ pc' = "ready" /\ table' = table
              /\ answer' = [result |-> "ok", address |-> AddressFound, size |-> 0]
            BY <2>6 DEF NoSizeWanted, Return
        <3>2. Noted \in Entries(table) /\ Noted.address = AddressFound
              /\ Noted.symbol = table.symbol[noted.symbol + 1]
            BY <3>1, NotedEntry DEF Noted
        <3>3. table.symbol[noted.symbol + 1] = LastSymbol
            BY <2>2, <3>1 DEF TableInv, Located, LastSymbolRequest
        <3>4. Entries(table)' = Entries(table)
            BY <3>1 DEF Entries
        <3> QED
            BY <3>1, <3>2, <3>3, <3>4 DEF Asked
    <2> QED
        BY <2>3, <2>4, <2>5, <2>6
<1>10. CASE UNCHANGED allVars
    BY <1>0, <1>10 DEF allVars, slideVars, tableVars, Entries, Asked
<1>11. CASE spc' # "macos_symbol"
    BY <1>11 DEF Asked
<1> QED
    BY <1>1, <1>2, <1>3, <1>4, <1>5, <1>6, <1>7, <1>8, <1>9, <1>10, <1>11, Classified

LEMMA StepLast ==
    ASSUME TableInv, SlideInv, [SlideNext]_allVars
    PROVE  Last'
<1>1. LastOfImage'
    BY KernelKept, StepLastOfImage DEF SlideInv, Last, LastOfImage
<1>2. Asked'
    BY StepAsked
<1>3. (spc \notin {"idle", "macos_symbol"} => pc = "ready")'
    <2>0. spc \notin {"idle", "macos_symbol"} => pc = "ready"
        BY DEF SlideInv, Last
    <2>1. CASE Looks
        BY <2>0, <2>1 DEF Looks, LooksAt, Searches, Quiet, tableVars
    <2>2. CASE Moves
        BY <2>0, <2>2 DEF Moves, Searches, Quiet, tableVars
    <2>3. CASE Fails \/ Validate
        BY <2>3 DEF Fails, Validate, SlideReturns, Searching_
    <2>4. CASE MacosRegion
        BY <2>4, MacosStep DEF Quiet, tableVars
    <2>5. CASE KernelInit \/ ResetBase \/ UNCHANGED allVars
        BY <2>0, <2>5 DEF KernelInit, ResetBase, UnchangedSearch, CollectSegments, UnchangedTable,
           allVars, slideVars, tableVars
    <2>6. CASE KernelSlideInit
        BY <2>6, Told DEF Quiet, tableVars
    <2>7. CASE AskLastSymbol
        BY <2>7 DEF AskLastSymbol, Goto, Searching_
    <2>8. CASE UseTable
        BY <2>0, <2>8, TableUsed DEF slideVars
    <2> QED
        BY <2>1, <2>2, <2>3, <2>4, <2>5, <2>6, <2>7, <2>8, Classified
<1> QED
    BY <1>1, <1>2, <1>3 DEF Last, LastOfImage, Asked

LEMMA StepScans ==
    ASSUME TableInv, SlideInv, [SlideNext]_allVars
    PROVE  Scans'
<1>1. Scans /\ scan \in ScanType
    BY DEF SlideInv, Scans, ScanType
<1>2. CASE \/ Fails \/ Validate
    BY <1>2 DEF Fails, Validate, SlideReturns, Searching_, NoScan, Scans, Searches
<1>3. CASE MacosRegion
    BY <1>1, <1>3, MacosStep DEF Scans, Searches
<1>4. CASE KernelSlideInit
    <2>1. scan' = scan /\ probed' = {} /\ spc' \in {"idle", "region", "macos"}
        BY <1>4, Told
    <2> QED
        BY <1>1, <2>1 DEF Scans, Searches, ScanType
<1>5. CASE AskLastSymbol
    <2>1. scan' = scan /\ spc' = "macos_symbol"
        BY <1>5 DEF AskLastSymbol, Goto, Searching_
    <2> QED
        BY <1>1, <2>1 DEF Scans, Searches, ScanType
<1>6. CASE KernelInit \/ ResetBase \/ UseTable
    <2>1. /\ scan' = scan /\ spc' = spc /\ spc \in {"idle", "macos_symbol"}
        <3>1. scan' = scan /\ spc' = spc
            BY <1>6, TableUsed DEF KernelInit, ResetBase, UnchangedSearch, slideVars
        <3>2. (pc = "none" \/ (pc = "ready" => spc = "idle"))
            BY <1>6, TableUsed DEF KernelInit, ResetBase, CollectSegments
        <3>3. spc \notin {"idle", "macos_symbol"} => pc = "ready"
            BY DEF SlideInv, Last
        <3> QED
            BY <3>1, <3>2, <3>3
    <2> QED
        BY <1>1, <2>1 DEF Scans, Searches, ScanType
<1>7. CASE UNCHANGED allVars
    <2>1. UNCHANGED <<scan, spc, probed, kernel, env, image>>
        BY <1>7 DEF allVars, slideVars, tableVars
    <2>2. PreHeader' = PreHeader /\ Pointers' = Pointers
        BY <2>1 DEF PreHeader, Pointers
    <2> QED
        BY <1>1, <2>1, <2>2, KernelKept DEF Scans
<1> QED
    BY <1>2, <1>3, <1>4, <1>5, <1>6, <1>7, Classified

LEMMA StepProbes ==
    ASSUME TableInv, SlideInv, [SlideNext]_allVars
    PROVE  ProbesSafe'
<1>1. ProbesSafe /\ env' = env /\ StaticEnd' = StaticEnd
    BY KernelKept DEF SlideInv
<1>2. CASE Looks
    <2>1. PICK b : LooksAt(b)
        BY <1>2 DEF Looks
    <2>2. /\ spc # "idle" /\ probed' = probed \cup {b} /\ scan.start <= b
          /\ env.pointers_good => b < scan.end /\ b < StaticEnd + env.slide
          /\ scan'.start = scan.start /\ scan'.end = scan.end
        BY <1>2, <2>1 DEF Looks, LooksAt, Searches
    <2> QED
        BY <1>1, <2>2 DEF ProbesSafe
<1>3. CASE Moves
    <2>1. /\ spc # "idle" /\ probed' = probed
          /\ probed = {} \/ (scan'.start = scan.start /\ scan'.end = scan.end)
        BY <1>3 DEF Moves, Searches
    <2> QED
        BY <1>1, <2>1 DEF ProbesSafe
<1>4. CASE Fails \/ Validate
    BY <1>4 DEF Fails, Validate, SlideReturns, Searching_, ProbesSafe
<1>5. CASE MacosRegion
    <2>1. /\ spc = "macos_symbol" /\ probed' = probed
        BY <1>5, MacosStep
    <2>2. probed = {}
        BY <2>1 DEF SlideInv, Slide
    <2> QED
        BY <2>1, <2>2 DEF ProbesSafe
<1>6. CASE KernelSlideInit
    BY <1>6, Told DEF ProbesSafe
<1>7. CASE AskLastSymbol \/ KernelInit \/ ResetBase \/ UseTable \/ UNCHANGED allVars
    <2>1. UNCHANGED <<scan, probed>> /\ (spc' # "idle" => spc # "idle")
        BY <1>7, TableUsed DEF AskLastSymbol, KernelInit, ResetBase, UnchangedSearch, allVars,
           slideVars, Goto, Searching_
    <2> QED
        BY <1>1, <2>1 DEF ProbesSafe
<1> QED
    BY <1>2, <1>3, <1>4, <1>5, <1>6, <1>7, Classified

LEMMA InitSlide == SlideInit => SlideInv
<1> SUFFICES ASSUME SlideInit PROVE SlideInv
    OBVIOUS
<1> USE DEF SlideInit, TableInit
<1>1. Kernel
    BY DEF Kernel
<1>2. Slide /\ ProbesSafe
    BY DEF Slide, ProbesSafe, Searches
<1>3. Last
    BY DEF Last, Built
<1>4. Scans
    BY DEF Scans, NoScan, Searches
<1> QED
    BY <1>1, <1>2, <1>3, <1>4 DEF SlideInv

LEMMA SlideInvariant == SlideSpec => [](TableInv /\ SlideInv)
<1>1. TableInv /\ SlideInv /\ TableInv' /\ [SlideNext]_allVars => SlideInv'
    BY StepKernel, StepSlide, StepLast, StepScans, StepProbes DEF SlideInv
<1> QED
    BY <1>1, InitSlide, TableInvariant, PTL DEF SlideSpec

(***************************************************************************)
(* kernel_slide.c reports the slide of the running kernel, whichever way   *)
(* it was found, unless an invalid one was left behind; and kernel_init    *)
(* moves the base of the image once.                                       *)
(***************************************************************************)
THEOREM SlideIsTrue == SlideSpec => []SlideTrue
<1>1. TableInv /\ SlideInv => SlideTrue
    BY DEF SlideInv, Slide, Kernel, SlideTrue
<1> QED
    BY <1>1, SlideInvariant, PTL

(***************************************************************************)
(* The search for the header reads nothing before the kernel's region and, *)
(* with pointers that are good, nothing after the kernel that runs.        *)
(***************************************************************************)
THEOREM ProbesAreSafe == SlideSpec => []ProbesSafe
<1>1. TableInv /\ SlideInv => ProbesSafe
    BY DEF SlideInv
<1> QED
    BY <1>1, SlideInvariant, PTL

===============================================================================
