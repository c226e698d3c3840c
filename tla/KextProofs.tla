------------------------------ MODULE KextProofs ------------------------------
(***************************************************************************)
(* What holds of the kext cache and of the operations on it for any number *)
(* of bundle IDs, loads, slides and structs: the array stays sorted, every *)
(* struct is counted, and what is handed out is what was asked for.        *)
(***************************************************************************)
EXTENDS Kexts, FiniteSetTheorems, SequenceTheorems, TLAPS

-----------------------------------------------------------------------------
(* The array. *)

(* array_insert: what comes after the place moves up. *)
LEMMA InsertAtProperties ==
    ASSUME NEW S, NEW s \in Seq(S), NEW e \in S, NEW i \in 1 .. Len(s) + 1
    PROVE  /\ InsertAt(s, i, e) \in Seq(S)
           /\ Len(InsertAt(s, i, e)) = Len(s) + 1
           /\ \A j \in 1 .. Len(s) + 1 :
                 InsertAt(s, i, e)[j] = IF j < i THEN s[j] ELSE IF j = i THEN e ELSE s[j - 1]
<1> DEFINE a == SubSeq(s, 1, i - 1)
           b == a \o <<e>>
           c == SubSeq(s, i, Len(s))
<1>1. /\ a \in Seq(S) /\ Len(a) = i - 1
      /\ \A j \in 1 .. i - 1 : a[j] = s[j]
    <2>1. \A j \in 1 .. i - 1 : s[j] \in S
        OBVIOUS
    <2> QED
        BY <2>1, SubSeqProperties
<1>2. /\ b \in Seq(S) /\ Len(b) = i
      /\ \A j \in 1 .. i : b[j] = IF j < i THEN s[j] ELSE e
    <2>1. <<e>> \in Seq(S) /\ Len(<<e>>) = 1 /\ <<e>>[1] = e
        OBVIOUS
    <2> HIDE DEF a
    <2> QED
        BY <1>1, <2>1, ConcatProperties
<1>3. /\ c \in Seq(S) /\ Len(c) = Len(s) - i + 1
      /\ \A j \in 1 .. Len(s) - i + 1 : c[j] = s[i + j - 1]
    <2>1. \A j \in i .. Len(s) : s[j] \in S
        OBVIOUS
    <2> QED
        BY <2>1, SubSeqProperties
<1>4. InsertAt(s, i, e) = b \o c
    BY DEF InsertAt
<1> HIDE DEF b, c
<1>5. /\ b \o c \in Seq(S) /\ Len(b \o c) = Len(s) + 1
      /\ \A j \in 1 .. Len(s) + 1 : (b \o c)[j] = IF j <= i THEN b[j] ELSE c[j - i]
    <2>1. /\ b \o c \in Seq(S) /\ Len(b \o c) = Len(b) + Len(c)
          /\ \A j \in 1 .. Len(b) + Len(c) :
                (b \o c)[j] = IF j <= Len(b) THEN b[j] ELSE c[j - Len(b)]
        BY <1>2, <1>3, ConcatProperties, Zenon
    <2>2. Len(b) = i /\ Len(b) + Len(c) = Len(s) + 1
        BY <1>2, <1>3
    <2> QED
        BY <2>1, <2>2
<1>6. ASSUME NEW j \in 1 .. Len(s) + 1
      PROVE  (b \o c)[j] = IF j < i THEN s[j] ELSE IF j = i THEN e ELSE s[j - 1]
    <2>1. Len(s) \in Nat /\ i \in Nat /\ j \in Nat
        BY LenProperties
    <2>2. CASE j <= i
        <3>1. j \in 1 .. i
            BY <2>1, <2>2
        <3> QED
            BY <1>2, <1>5, <2>1, <2>2, <3>1
    <2>3. CASE ~(j <= i)
        <3>1. j - i \in 1 .. Len(s) - i + 1 /\ i + (j - i) - 1 = j - 1
            BY <2>1, <2>3
        <3> QED
            BY <1>3, <1>5, <2>1, <2>3, <3>1
    <2> QED
        BY <2>1, <2>2, <2>3
<1> QED
    BY <1>4, <1>5, <1>6

(* array_remove: what comes after the place moves down. *)
LEMMA RemoveAtProperties ==
    ASSUME NEW S, NEW s \in Seq(S), NEW i \in 1 .. Len(s)
    PROVE  /\ RemoveAt(s, i) \in Seq(S)
           /\ Len(RemoveAt(s, i)) = Len(s) - 1
           /\ \A j \in 1 .. Len(s) - 1 :
                 RemoveAt(s, i)[j] = IF j < i THEN s[j] ELSE s[j + 1]
<1> DEFINE a == SubSeq(s, 1, i - 1)
           c == SubSeq(s, i + 1, Len(s))
<1>1. /\ a \in Seq(S) /\ Len(a) = i - 1
      /\ \A j \in 1 .. i - 1 : a[j] = s[j]
    <2>1. \A j \in 1 .. i - 1 : s[j] \in S
        OBVIOUS
    <2> QED
        BY <2>1, SubSeqProperties
<1>2. /\ c \in Seq(S) /\ Len(c) = Len(s) - i
      /\ \A j \in 1 .. Len(s) - i : c[j] = s[i + j]
    <2>1. \A j \in i + 1 .. Len(s) : s[j] \in S
        OBVIOUS
    <2> QED
        BY <2>1, SubSeqProperties
<1>3. RemoveAt(s, i) = a \o c
    BY DEF RemoveAt
<1> HIDE DEF a, c
<1>4. Len(s) \in Nat /\ i \in Nat
    BY LenProperties
<1>5. /\ a \o c \in Seq(S) /\ Len(a \o c) = Len(s) - 1
      /\ \A j \in 1 .. Len(s) - 1 : (a \o c)[j] = IF j <= i - 1 THEN a[j] ELSE c[j - (i - 1)]
    <2>1. /\ a \o c \in Seq(S) /\ Len(a \o c) = Len(a) + Len(c)
          /\ \A j \in 1 .. Len(a) + Len(c) :
                (a \o c)[j] = IF j <= Len(a) THEN a[j] ELSE c[j - Len(a)]
        BY <1>1, <1>2, ConcatProperties, Zenon
    <2>2. Len(a) = i - 1 /\ Len(a) + Len(c) = Len(s) - 1
        BY <1>1, <1>2, <1>4
    <2> QED
        BY <2>1, <2>2
<1>6. ASSUME NEW j \in 1 .. Len(s) - 1
      PROVE  (a \o c)[j] = IF j < i THEN s[j] ELSE s[j + 1]
    <2>1. CASE j < i
        <3>1. j \in 1 .. i - 1 /\ j <= i - 1
            BY <1>4, <2>1
        <3> QED
            BY <1>1, <1>5, <2>1, <3>1
    <2>2. CASE ~(j < i)
        <3>1. /\ j - (i - 1) \in 1 .. Len(s) - i /\ i + (j - (i - 1)) = j + 1
              /\ ~(j <= i - 1)
            BY <1>4, <2>2
        <3> QED
            BY <1>2, <1>5, <2>2, <3>1
    <2> QED
        BY <2>1, <2>2
<1> QED
    BY <1>3, <1>5, <1>6

(* The elements that stay when one is removed. *)
LEMMA RemovedRange ==
    ASSUME NEW S, NEW s \in Seq(S), NEW i \in 1 .. Len(s)
    PROVE  Range(s) \ {s[i]} \subseteq Range(RemoveAt(s, i))
<1> SUFFICES ASSUME NEW j \in DOMAIN s, s[j] # s[i]
             PROVE  s[j] \in Range(RemoveAt(s, i))
    BY DEF Range
<1> DEFINE r == RemoveAt(s, i)
<1>1. /\ r \in Seq(S) /\ Len(r) = Len(s) - 1 /\ Len(s) \in Nat
      /\ \A k \in 1 .. Len(s) - 1 : r[k] = IF k < i THEN s[k] ELSE s[k + 1]
      /\ DOMAIN r = 1 .. Len(r) /\ DOMAIN s = 1 .. Len(s)
    BY RemoveAtProperties, LenProperties
<1> HIDE DEF r
<1>2. CASE j < i
    <2>1. j \in DOMAIN r /\ r[j] = s[j]
        BY <1>1, <1>2
    <2> QED
        BY <2>1 DEF Range, r
<1>3. CASE j > i
    <2>1. j - 1 \in DOMAIN r /\ r[j - 1] = s[j]
        BY <1>1, <1>3
    <2> QED
        BY <2>1 DEF Range, r
<1> QED
    BY <1>1, <1>2, <1>3

(* The elements of a sequence that got one more. *)
LEMMA InsertedRange ==
    ASSUME NEW S, NEW s \in Seq(S), NEW e \in S, NEW i \in 1 .. Len(s) + 1
    PROVE  Range(s) \cup {e} \subseteq Range(InsertAt(s, i, e))
<1> DEFINE r == InsertAt(s, i, e)
<1>1. /\ r \in Seq(S) /\ Len(r) = Len(s) + 1 /\ Len(s) \in Nat
      /\ \A k \in 1 .. Len(s) + 1 : r[k] = IF k < i THEN s[k] ELSE IF k = i THEN e ELSE s[k - 1]
      /\ DOMAIN r = 1 .. Len(r) /\ DOMAIN s = 1 .. Len(s)
    BY InsertAtProperties, LenProperties
<1> HIDE DEF r
<1>2. e \in Range(r)
    <2>1. i \in DOMAIN r /\ r[i] = e
        BY <1>1
    <2> QED
        BY <2>1 DEF Range
<1>3. ASSUME NEW j \in DOMAIN s PROVE s[j] \in Range(r)
    <2>1. CASE j < i
        <3>1. j \in DOMAIN r /\ r[j] = s[j]
            BY <1>1, <2>1
        <3> QED
            BY <3>1 DEF Range
    <2>2. CASE ~(j < i)
        <3>1. j + 1 \in DOMAIN r /\ r[j + 1] = s[j]
            BY <1>1, <2>2
        <3> QED
            BY <3>1 DEF Range
    <2> QED
        BY <2>1, <2>2
<1> QED
    BY <1>2, <1>3 DEF Range, r

(* What is counted up to the first place that does not belong. *)
LEMMA DownwardClosed ==
    ASSUME NEW n \in Nat, NEW S \in SUBSET (1 .. n),
           \A i \in S, j \in 1 .. n : j < i => j \in S
    PROVE  Cardinality(S) \in 0 .. n /\ S = 1 .. Cardinality(S)
<1>1. /\ IsFiniteSet(1 .. n) /\ Cardinality(1 .. n) = n
    BY FS_Interval
<1>2. /\ IsFiniteSet(S) /\ Cardinality(S) <= n /\ Cardinality(S) \in Nat
    BY <1>1, FS_Subset, FS_CardinalityType
<1>3. S \subseteq 1 .. Cardinality(S)
    <2> SUFFICES ASSUME NEW i \in S PROVE i \in 1 .. Cardinality(S)
        OBVIOUS
    <2>1. 1 .. i \in SUBSET S
        OBVIOUS
    <2>2. Cardinality(1 .. i) = i
        BY FS_Interval
    <2> QED
        BY <1>2, <2>1, <2>2, FS_Subset
<1>4. /\ IsFiniteSet(1 .. Cardinality(S))
      /\ Cardinality(1 .. Cardinality(S)) = Cardinality(S)
    BY <1>2, FS_Interval
<1>5. S = 1 .. Cardinality(S)
    BY <1>3, <1>4, FS_Subset
<1> QED
    BY <1>2, <1>5

-----------------------------------------------------------------------------
(* The inductive invariant. *)

Calls == {"load_info", "search", "create", "insert", "returned"}
Live(s) == heap[s] # Unused

(* What the variables hold, and which locals of kernel_kext are in use. *)
Types ==
    /\ build \in Builds
    /\ running \in [Ids -> Loads \cup {NotLoaded}]
    /\ kernelSlide \in Slides
    /\ kexts \in Seq(Slots)
    /\ heap \in [Slots -> KextInfo \cup {Unused}]
    /\ held \in [Slots -> Nat]
    /\ pc \in Calls \cup {"idle", "init", "each", "undefined"}
    /\ id \in Ids \cup {0}
    /\ li \in [load : Loads \cup {NotLoaded}, slide : Slides]
    /\ index \in Nat
    /\ ki \in Slots \cup {Wild}
    /\ got \in Slots \cup {NoKext}
    /\ lost \subseteq Slots

Locals ==
    /\ pc \in Calls => id \in Ids
    /\ pc # "insert" => ki = Wild
    /\ pc # "returned" => got = NoKext
    /\ pc \in {"search", "create", "insert"} /\ ~KernelCache => li.load \in Loads

(* The symbol finders are there with the kernel image, or just before it. *)
Finders ==
    /\ pc = "init" => ~initialized
    /\ finders = IF initialized \/ pc = "init" THEN 1 ELSE 0

(* The error stack is stopped while the callback of a walk runs. *)
Stops ==
    /\ pc \in {"idle", "init"} => op = "none"
    /\ pc = "each" => op = "search"
    /\ pc # "undefined" => stopped = IF op = "search" /\ pc # "each" THEN 1 ELSE 0

(***************************************************************************)
(* A struct outside the array is outdated and held: what would be freed at *)
(* its last release; or it was lost, or it is about to be inserted.        *)
(***************************************************************************)
Outside ==
    \A s \in Slots : Live(s) =>
        /\ heap[s].outdated => ~KernelCache /\ heap[s].refcount > 0
        /\ s \in InArray \/ s \in lost \/ s = ki \/ heap[s].outdated

(* The array, and the place that was found for a new struct. *)
Current == \A i \in DOMAIN kexts : Live(kexts[i]) /\ ~heap[kexts[i]].outdated
Ordered == \A i, j \in DOMAIN kexts : i < j => heap[kexts[i]].id < heap[kexts[j]].id
Placed ==
    pc \in {"create", "insert"} =>
        /\ index \in 1 .. Len(kexts) + 1
        /\ \A i \in DOMAIN kexts :
              IF i < index THEN heap[kexts[i]].id < id ELSE id < heap[kexts[i]].id

(* A struct that fits the question: of this kext, and in this load of it. *)
Fits(s) ==
    /\ s \in Slots /\ Live(s)
    /\ heap[s].id = id
    /\ ~heap[s].outdated
    /\ ~KernelCache => heap[s].load = li.load /\ heap[s].slide = li.slide

Fitting ==
    /\ pc = "insert" /\ ki # Wild => Fits(ki) /\ ki \notin InArray
    /\ pc = "returned" /\ got # NoKext => Fits(got)

(* The kernelcache, which does not change, is where the loads are from. *)
FromCache == KernelCache => \A s \in Slots : Live(s) => heap[s].load = running[heap[s].id]

(* The address asked for is in the kext as it was seen last. *)
Aim ==
    op = "containing" /\ ~reloaded =>
        /\ pc \in Calls /\ (KernelCache \/ pc = "load_info") =>
              Within(asked, running[id], kernelSlide)
        /\ ~KernelCache /\ (pc \in {"search", "create", "insert"}
                               \/ (pc = "returned" /\ got # NoKext)) =>
              Within(asked, li.load, li.slide)

Counts == RefcountExact /\ Outside
Array == Current /\ Ordered /\ Placed

KextInv ==
    /\ Types /\ Locals /\ Finders /\ Stops
    /\ Counts /\ Array /\ Fitting
    /\ FromCache /\ Aim

(* The constants, as every step below may use them. *)
LEMMA Constants ==
    /\ Builds \subseteq {"macos", "kernelcache"}
    /\ Ids \subseteq Nat \ {0}
    /\ Slides \subseteq Nat /\ 0 \in Slides
    /\ NotLoaded \notin Loads
    /\ Wild \notin Slots /\ NoKext \notin Slots /\ Unused \notin KextInfo
    BY BuildsAssumption, IdsAssumption, SlidesAssumption, MarkersAssumption

(* A struct in use has the fields of a kext_info. *)
LEMMA LiveStruct ==
    ASSUME Types, NEW s \in Slots
    PROVE  /\ Live(s) <=> heap[s] \in KextInfo
           /\ Live(s) => /\ heap[s].id \in Ids /\ heap[s].load \in Loads
                         /\ heap[s].slide \in Slides /\ heap[s].refcount \in Nat
                         /\ heap[s].outdated \in BOOLEAN
<1>1. heap[s] \in KextInfo \cup {Unused}
    BY DEF Types
<1>2. Live(s) <=> heap[s] \in KextInfo
    BY <1>1, Constants DEF Live
<1> QED
    BY <1>2 DEF KextInfo

(* What handle_kext_release does to the structs. *)
LEMMA ReleasedStruct ==
    ASSUME Types, NEW s \in Slots, NEW info \in KextInfo
    PROVE  /\ Released(s, info) \in [Slots -> KextInfo \cup {Unused}]
           /\ \A t \in Slots \ {s} : Released(s, info)[t] = heap[t]
           /\ Released(s, info)[s] =
                 IF ~KernelCache /\ info.refcount = 0 /\ info.outdated THEN Unused ELSE info
    BY DEF Types, Released

(* One reference less, given back by kext_release. *)
LEMMA OneLess ==
    ASSUME Types, NEW s \in Slots, Live(s), heap[s].refcount > 0
    PROVE  LET info == [heap[s] EXCEPT !.refcount = @ - 1] IN
           /\ info \in KextInfo
           /\ info.id = heap[s].id /\ info.load = heap[s].load
           /\ info.slide = heap[s].slide /\ info.outdated = heap[s].outdated
           /\ info.refcount = heap[s].refcount - 1
<1>1. heap[s] \in KextInfo /\ heap[s].refcount \in Nat
    BY LiveStruct
<1> QED
    BY <1>1 DEF KextInfo

(***************************************************************************)
(* The reference that kernel_kext handed out to the function that gives it *)
(* back: that struct is not outdated, so it is not freed here.             *)
(***************************************************************************)
LEMMA GivenBack ==
    ASSUME KextInv, pc = "returned", ReleaseGot
    PROVE  /\ heap' \in [Slots -> KextInfo \cup {Unused}]
           /\ \A s \in Slots \ {got} : heap'[s] = heap[s]
           /\ got # NoKext =>
                 /\ Live(got) /\ heap'[got] = [heap[got] EXCEPT !.refcount = @ - 1]
                 /\ heap[got].refcount = held[got] + 1
                 /\ heap'[got] \in KextInfo /\ ~heap[got].outdated
<1>1. CASE got = NoKext
    BY <1>1, Constants DEF ReleaseGot, KextInv, Types
<1>2. CASE got # NoKext
    <2>1. Types /\ RefcountExact /\ got \in Slots /\ Live(got) /\ ~heap[got].outdated
        BY <1>2 DEF KextInv, Types, Counts, Fitting, Fits
    <2>2. held[got] \in Nat /\ heap[got].refcount = held[got] + 1
        BY <2>1 DEF Types, RefcountExact, Live, OnItsWay
    <2>3. heap' = Released(got, [heap[got] EXCEPT !.refcount = @ - 1])
        BY <1>2 DEF ReleaseGot
    <2> DEFINE info == [heap[got] EXCEPT !.refcount = @ - 1]
    <2>4. info \in KextInfo /\ info.outdated = heap[got].outdated
        BY <2>1, <2>2, OneLess
    <2> HIDE DEF info
    <2>5. /\ Released(got, info) \in [Slots -> KextInfo \cup {Unused}]
          /\ \A t \in Slots \ {got} : Released(got, info)[t] = heap[t]
          /\ Released(got, info)[got] = info
        BY <2>1, <2>4, ReleasedStruct
    <2>6. heap' = Released(got, info)
        BY <2>3 DEF info
    <2> QED
        BY <2>1, <2>2, <2>4, <2>5, <2>6 DEF info
<1> QED
    BY <1>1, <1>2

(* A reference given back by a client; the last one to an outdated struct frees it. *)
LEMMA ClientGivesBack ==
    ASSUME KextInv, NEW s \in Slots, KextRelease(s)
    PROVE  /\ heap' \in [Slots -> KextInfo \cup {Unused}]
           /\ held' \in [Slots -> Nat] /\ held'[s] = held[s] - 1
           /\ \A t \in Slots \ {s} : heap'[t] = heap[t] /\ held'[t] = held[t]
           /\ Live(s) /\ heap[s].refcount = held[s] /\ held[s] > 0
           /\ heap'[s] # Unused =>
                 /\ heap'[s] = [heap[s] EXCEPT !.refcount = @ - 1] /\ heap'[s] \in KextInfo
                 /\ heap[s].outdated => KernelCache \/ heap'[s].refcount > 0
           /\ heap'[s] = Unused => heap[s].outdated /\ held'[s] = 0
<1>1. Types /\ Locals /\ RefcountExact /\ pc = "idle" /\ held[s] > 0 /\ held[s] \in Nat
    BY DEF KextInv, Types, Counts, KextRelease
<1>2. Live(s) /\ heap[s].refcount = held[s]
    BY <1>1, Constants DEF RefcountExact, Live, OnItsWay, Locals
<1> DEFINE info == [heap[s] EXCEPT !.refcount = @ - 1]
<1>3. /\ info \in KextInfo /\ info.outdated = heap[s].outdated
      /\ info.refcount = held[s] - 1
    BY <1>1, <1>2, OneLess
<1>4. heap' = Released(s, info)
    BY DEF KextRelease
<1> HIDE DEF info
<1>5. /\ Released(s, info) \in [Slots -> KextInfo \cup {Unused}]
      /\ \A t \in Slots \ {s} : Released(s, info)[t] = heap[t]
      /\ Released(s, info)[s] =
            IF ~KernelCache /\ info.refcount = 0 /\ info.outdated THEN Unused ELSE info
    BY <1>1, <1>3, ReleasedStruct
<1>6. /\ held' \in [Slots -> Nat] /\ held'[s] = held[s] - 1
      /\ \A t \in Slots \ {s} : held'[t] = held[t]
    BY <1>1 DEF KextRelease, Types
<1>7. /\ heap'[s] # Unused => heap'[s] = info /\ (heap[s].outdated => KernelCache \/ info.refcount > 0)
      /\ heap'[s] = Unused => heap[s].outdated /\ held'[s] = 0
    BY <1>1, <1>3, <1>4, <1>5, <1>6, Constants
<1> QED
    BY <1>1, <1>2, <1>3, <1>4, <1>5, <1>6, <1>7 DEF info

(* clear_kexts frees the structs of the array, with the references to them. *)
LEMMA Cleared ==
    ASSUME KextInv, ClearKexts
    PROVE  /\ heap' \in [Slots -> KextInfo \cup {Unused}] /\ held' \in [Slots -> Nat]
           /\ kexts' = <<>>
           /\ \A s \in Slots : IF s \in InArray THEN heap'[s] = Unused /\ held'[s] = 0
                               ELSE heap'[s] = heap[s] /\ held'[s] = held[s]
    BY DEF KextInv, Types, ClearKexts, Destroy

(***************************************************************************)
(* binary_search: the place comes after the elements with smaller IDs, and *)
(* when no element is found there, no element has the ID.                  *)
(***************************************************************************)
LEMMA PlaceRange ==
    ASSUME KextInv
    PROVE  /\ Place \in 1 .. Len(kexts) + 1
           /\ \A i \in DOMAIN kexts : i < Place <=> heap[kexts[i]].id < id
           /\ ~Found => \A i \in DOMAIN kexts : heap[kexts[i]].id # id
<1> DEFINE S == {i \in DOMAIN kexts : heap[kexts[i]].id < id}
<1>1. /\ Types /\ Current /\ Ordered
      /\ Len(kexts) \in Nat /\ DOMAIN kexts = 1 .. Len(kexts) /\ id \in Nat
    BY Constants DEF KextInv, Types, Array
<1>2. \A i \in DOMAIN kexts : heap[kexts[i]].id \in Nat
    <2> SUFFICES ASSUME NEW i \in DOMAIN kexts PROVE heap[kexts[i]].id \in Nat
        OBVIOUS
    <2>1. kexts[i] \in Slots /\ Live(kexts[i])
        BY <1>1 DEF Types, Current
    <2> QED
        BY <1>1, <2>1, LiveStruct, Constants
<1>3. \A i \in S, j \in 1 .. Len(kexts) : j < i => j \in S
    BY <1>1, <1>2 DEF Ordered
<1>4. S \in SUBSET (1 .. Len(kexts))
    BY <1>1
<1>5. Cardinality(S) \in 0 .. Len(kexts) /\ S = 1 .. Cardinality(S)
    BY <1>1, <1>3, <1>4, DownwardClosed
<1>6. Place = 1 + Cardinality(S)
    BY DEF Place
<1>7. \A i \in DOMAIN kexts : i \in S <=> heap[kexts[i]].id < id
    OBVIOUS
<1> HIDE DEF S, Place
<1>8. /\ Place \in 1 .. Len(kexts) + 1
      /\ \A i \in DOMAIN kexts : i < Place <=> heap[kexts[i]].id < id
    BY <1>1, <1>5, <1>6, <1>7
<1>9. ASSUME NEW i \in DOMAIN kexts, heap[kexts[i]].id = id
      PROVE  Found
    <2>1. i \in 1 .. Len(kexts) /\ ~(i < Place)
        BY <1>1, <1>8, <1>9
    <2>2. Place \in DOMAIN kexts /\ Place <= i
        BY <1>1, <1>8, <2>1
    <2>3. ~(heap[kexts[Place]].id < id) /\ heap[kexts[Place]].id \in Nat
        BY <1>2, <1>8, <2>2
    <2>4. Place = i
        <3>1. Place < i => heap[kexts[Place]].id < heap[kexts[i]].id
            BY <1>1, <2>2 DEF Ordered
        <3> QED
            BY <1>9, <2>1, <2>2, <2>3, <3>1
    <2> QED
        BY <1>9, <2>2, <2>4 DEF Found
<1> QED
    BY <1>8, <1>9

(* A hit, and the removal of a struct: the place is one of the array. *)
LEMMA FoundStruct ==
    ASSUME KextInv, Found
    PROVE  /\ Place \in 1 .. Len(kexts) /\ kexts[Place] \in Slots
           /\ Live(kexts[Place]) /\ heap[kexts[Place]] \in KextInfo
           /\ heap[kexts[Place]].id = id /\ ~heap[kexts[Place]].outdated
<1>1. kexts \in Seq(Slots) /\ Types /\ Current
    BY DEF KextInv, Types, Array
<1>2. Place \in DOMAIN kexts /\ heap[kexts[Place]].id = id
    BY DEF Found
<1> HIDE DEF Place
<1>3. Place \in 1 .. Len(kexts) /\ kexts[Place] \in Slots
    BY <1>1, <1>2
<1> QED
    BY <1>1, <1>2, <1>3, LiveStruct DEF Current

(* A struct that is found and shared. *)
LEMMA Shared ==
    ASSUME KextInv, Hit
    PROVE  LET s == kexts[Place] IN
           /\ heap' \in [Slots -> KextInfo \cup {Unused}]
           /\ \A t \in Slots \ {s} : heap'[t] = heap[t]
           /\ heap'[s] = [heap[s] EXCEPT !.refcount = @ + 1] /\ heap'[s] \in KextInfo
<1> DEFINE s == kexts[Place]
           info == [heap[s] EXCEPT !.refcount = @ + 1]
<1>1. s \in Slots /\ heap[s] \in KextInfo
    BY FoundStruct DEF Hit
<1>2. heap' = [heap EXCEPT ![s] = info]
    BY DEF Hit
<1> HIDE DEF s
<1>3. info \in KextInfo
    BY <1>1 DEF KextInfo
<1>4. heap \in [Slots -> KextInfo \cup {Unused}]
    BY DEF KextInv, Types
<1> HIDE DEF info
<1>5. /\ heap' \in [Slots -> KextInfo \cup {Unused}] /\ heap'[s] = info
      /\ \A t \in Slots \ {s} : heap'[t] = heap[t]
    BY <1>1, <1>2, <1>3, <1>4
<1> QED
    BY <1>3, <1>5 DEF info, s

(* What becomes of an outdated struct when it is found. *)
LEMMA Removed ==
    ASSUME KextInv, RemoveOutdated
    PROVE  LET s == kexts[Place] IN
           /\ ~KernelCache
           /\ heap' \in [Slots -> KextInfo \cup {Unused}]
           /\ \A t \in Slots \ {s} : heap'[t] = heap[t]
           /\ heap[s].refcount = held[s]
           /\ heap'[s] # Unused =>
                 /\ heap'[s] = [heap[s] EXCEPT !.outdated = TRUE] /\ heap'[s] \in KextInfo
                 /\ heap[s].refcount > 0
           /\ heap'[s] = Unused => held[s] = 0
<1> DEFINE s == kexts[Place]
           info == [heap[s] EXCEPT !.outdated = TRUE]
<1>1. Found /\ Outdated(s) /\ heap' = Released(s, info) /\ pc = "search"
    BY DEF RemoveOutdated
<1>2. s \in Slots /\ Live(s) /\ heap[s] \in KextInfo
    BY <1>1, FoundStruct
<1> HIDE DEF s
<1>3. info \in KextInfo /\ info.outdated /\ info.refcount = heap[s].refcount
    BY <1>2 DEF KextInfo
<1>4. ~KernelCache
    BY <1>1 DEF Outdated
<1>5. Types /\ Locals /\ RefcountExact
    BY DEF KextInv, Counts
<1>6. heap[s].refcount = held[s] /\ held[s] \in Nat
    <2>1. ki = Wild /\ got = NoKext
        BY <1>1, <1>5 DEF Locals
    <2>2. OnItsWay(s) = 0 /\ held[s] \in Nat
        BY <1>2, <1>5, <2>1, Constants DEF OnItsWay, Types
    <2>3. heap[s].refcount = held[s] + OnItsWay(s)
        BY <1>2, <1>5 DEF RefcountExact, Live
    <2> QED
        BY <2>2, <2>3
<1> HIDE DEF info
<1>7. /\ heap' \in [Slots -> KextInfo \cup {Unused}]
      /\ \A t \in Slots \ {s} : heap'[t] = heap[t]
      /\ heap'[s] = IF info.refcount = 0 THEN Unused ELSE info
    BY <1>1, <1>2, <1>3, <1>4, <1>5, ReleasedStruct
<1>8. /\ heap'[s] # Unused => heap'[s] = info /\ heap[s].refcount > 0
      /\ heap'[s] = Unused => held[s] = 0
    BY <1>3, <1>6, <1>7, Constants
<1> QED
    BY <1>3, <1>4, <1>6, <1>7, <1>8 DEF info, s

(* create_kext_info: a new struct, no memory for one, or a failure. *)
NewStruct(s) ==
    /\ heap[s] = Unused /\ (KernelCache => running[id] # NotLoaded)
    /\ heap' = [heap EXCEPT ![s] =
           [id |-> id, load |-> IF KernelCache THEN running[id] ELSE li.load,
            slide |-> IF KernelCache THEN kernelSlide ELSE li.slide,
            refcount |-> 1, outdated |-> FALSE]]
    /\ ki' = s /\ pc' = "insert" /\ UNCHANGED <<id, li, index, got>>

LEMMA CreateCases ==
    ASSUME Create
    PROVE  \/ \E s \in Slots : NewStruct(s)
           \/ pc' = "insert" /\ UNCHANGED <<locals, heap>>
           \/ Return(NoKext) /\ UNCHANGED heap
    BY DEF Create, NewStruct

(* create_kext_info, when it gets memory. *)
LEMMA Created ==
    ASSUME KextInv, pc = "create", NEW s \in Slots, heap[s] = Unused,
           KernelCache => running[id] # NotLoaded
    PROVE  LET info == [id |-> id, load |-> IF KernelCache THEN running[id] ELSE li.load,
                        slide |-> IF KernelCache THEN kernelSlide ELSE li.slide,
                        refcount |-> 1, outdated |-> FALSE]
           IN  info \in KextInfo /\ [heap EXCEPT ![s] = info] \in [Slots -> KextInfo \cup {Unused}]
    BY DEF KextInv, Types, Locals, Calls, KextInfo

(* A new struct that found no room: released, but not freed. *)
LEMMA Lost ==
    ASSUME KextInv, InsertFails
    PROVE  /\ ki \in Slots /\ Live(ki) /\ heap[ki] \in KextInfo /\ ~heap[ki].outdated
           /\ heap[ki].refcount = held[ki] + 1
           /\ heap' \in [Slots -> KextInfo \cup {Unused}]
           /\ \A t \in Slots \ {ki} : heap'[t] = heap[t]
           /\ heap'[ki] = [heap[ki] EXCEPT !.refcount = @ - 1] /\ heap'[ki] \in KextInfo
<1> DEFINE info == [heap[ki] EXCEPT !.refcount = @ - 1]
<1>1. /\ Types /\ RefcountExact /\ ki \in Slots /\ Live(ki) /\ ~heap[ki].outdated
      /\ heap' = Released(ki, info)
    BY DEF KextInv, Types, Counts, Fitting, Fits, InsertFails
<1>2. held[ki] \in Nat /\ heap[ki].refcount = held[ki] + 1
    BY <1>1 DEF Types, RefcountExact, Live, OnItsWay
<1>3. heap[ki] \in KextInfo /\ info \in KextInfo /\ info.outdated = heap[ki].outdated
    BY <1>1, <1>2, OneLess, LiveStruct
<1> HIDE DEF info
<1>4. /\ Released(ki, info) \in [Slots -> KextInfo \cup {Unused}]
      /\ \A t \in Slots \ {ki} : Released(ki, info)[t] = heap[t]
      /\ Released(ki, info)[ki] = info
    BY <1>1, <1>3, ReleasedStruct
<1> QED
    BY <1>1, <1>2, <1>3, <1>4 DEF info

-----------------------------------------------------------------------------
(* The variables, the locals of a call, the finders and the error stack. *)

LEMMA StepControl ==
    ASSUME KextInv, [Next]_vars
    PROVE  Types' /\ Locals' /\ Finders' /\ Stops'
<1> USE DEF Types, Locals, Finders, Stops, Calls, KernelCache
<1>0. Types /\ Locals /\ Finders /\ Stops
    BY DEF KextInv
<1> USE DEF kernelState, cache, locals, walk, question
<1>1. CASE ReloadMeanwhile
    BY <1>0, <1>1 DEF ReloadMeanwhile, Reload
<1>2. CASE Step /\ FindSlide
    BY <1>0, <1>2 DEF Step, FindSlide
<1>3. CASE Step /\ RegisterFinders
    BY <1>0, <1>3 DEF Step, RegisterFinders
<1>4. CASE Step /\ KernelInit
    <2>1. CASE ClearKexts
        <3>1. /\ heap' \in [Slots -> KextInfo \cup {Unused}] /\ held' \in [Slots -> Nat]
              /\ kexts' \in Seq(Slots)
            BY <2>1, Cleared
        <3> QED
            BY <1>0, <1>4, <2>1, <3>1 DEF Step, KernelInit, Deinitialized
    <2>2. CASE UNCHANGED <<cache, held>>
        BY <1>0, <1>4, <2>2 DEF Step, KernelInit, Deinitialized
    <2> QED
        BY <1>0, <1>4, <2>1, <2>2 DEF KernelInit, Deinitialized
<1>5. CASE Step /\ KernelDeinit
    <2>1. ClearKexts
        BY <1>0, <1>5 DEF KernelDeinit, Deinitialized
    <2>2. /\ heap' \in [Slots -> KextInfo \cup {Unused}] /\ held' \in [Slots -> Nat]
          /\ kexts' \in Seq(Slots)
        BY <2>1, Cleared
    <2> QED
        BY <1>0, <1>5, <2>2 DEF Step, KernelDeinit, Deinitialized
<1>6. CASE Step /\ LoadInfo
    BY <1>0, <1>6, Constants DEF Step, LoadInfo, Return
<1>7. CASE Step /\ Hit
    <2>1. kexts[Place] \in Slots /\ heap' \in [Slots -> KextInfo \cup {Unused}]
        BY <1>7, Shared, FoundStruct DEF Hit
    <2> QED
        BY <1>0, <1>7, <2>1 DEF Step, Hit, Return
<1>8. CASE Step /\ RemoveOutdated
    <2>1. Place \in 1 .. Len(kexts)
        BY <1>8, FoundStruct DEF RemoveOutdated
    <2>2. kexts' \in Seq(Slots)
        BY <1>0, <1>8, <2>1, RemoveAtProperties DEF RemoveOutdated
    <2>3. heap' \in [Slots -> KextInfo \cup {Unused}]
        BY <1>8, Removed
    <2>4. Place \in Nat
        BY <1>0, <2>1
    <2> QED
        BY <1>0, <1>8, <2>2, <2>3, <2>4 DEF Step, RemoveOutdated
<1>9. CASE Step /\ Miss
    BY <1>0, <1>9, PlaceRange DEF Step, Miss
<1>10. CASE Step /\ Create
    <2>1. CASE Return(NoKext)
        BY <1>0, <1>10, <2>1 DEF Step, Create, Return
    <2>2. CASE pc' = "insert" /\ UNCHANGED <<locals, heap>>
        BY <1>0, <1>10, <2>2 DEF Step, Create
    <2>3. ASSUME NEW s \in Slots, NewStruct(s)
          PROVE  Types' /\ Locals' /\ Finders' /\ Stops'
        <3>1. heap' \in [Slots -> KextInfo \cup {Unused}]
            BY <1>10, <2>3, Created DEF Create, NewStruct
        <3> QED
            BY <1>0, <1>10, <2>3, <3>1 DEF Step, Create, NewStruct
    <2> QED
        BY <1>10, <2>1, <2>2, <2>3, CreateCases
<1>11. CASE Step /\ Insert
    <2>1. index \in 1 .. Len(kexts) + 1 /\ ki \in Slots
        BY <1>0, <1>11 DEF KextInv, Insert, Array, Placed
    <2>2. kexts' \in Seq(Slots)
        BY <1>0, <1>11, <2>1, InsertAtProperties DEF Insert
    <2> QED
        BY <1>0, <1>11, <2>1, <2>2 DEF Step, Insert, Return
<1>12. CASE Step /\ InsertFails
    BY <1>0, <1>12, Lost DEF Step, InsertFails, Return
<1>13. CASE Step /\ InsertWild
    BY <1>0, <1>13 DEF Step, InsertWild
<1>14. CASE Step /\ \E s \in Slots : KextRelease(s)
    <2> PICK s \in Slots : KextRelease(s)
        BY <1>14
    <2>1. heap' \in [Slots -> KextInfo \cup {Unused}] /\ held' \in [Slots -> Nat]
        BY ClientGivesBack
    <2> QED
        BY <1>0, <1>14, <2>1 DEF Step, KextRelease
<1>15. CASE \E i \in Ids : CallKernelKext(i)
    BY <1>0, <1>15 DEF CallKernelKext, KernelKext, Idle
<1>16. CASE \E i \in Ids : KextIdFindSymbol(i)
    BY <1>0, <1>16 DEF KextIdFindSymbol, KernelKext, Idle
<1>17. CASE \E i \in Ids : SearchKext(i)
    BY <1>0, <1>17 DEF SearchKext, KernelKext
<1>18. CASE \E a \in Addresses : KernelKextContainingAddress(a)
    BY <1>0, <1>18 DEF KernelKextContainingAddress, KernelKext, Idle, LoadedIds
<1>19. CASE TakeKext
    BY <1>0, <1>19, Constants DEF TakeKext, Resume, NoLoad
<1>20. CASE FindSymbol
    BY <1>0, <1>20, GivenBack, Constants DEF FindSymbol, Resume, NoLoad
<1>21. CASE Searched
    BY <1>0, <1>21, GivenBack, Constants DEF Searched, Resume, NoLoad
<1>22. CASE KextForEach
    BY <1>0, <1>22 DEF KextForEach, Idle
<1>23. CASE SearchKernel
    BY <1>0, <1>23 DEF SearchKernel, cacheVars
<1>24. CASE SearchEnds
    BY <1>0, <1>24 DEF SearchEnds
<1>25. CASE UNCHANGED vars
    BY <1>0, <1>25 DEF vars, cacheVars
<1> QED
    BY <1>1, <1>2, <1>3, <1>4, <1>5, <1>6, <1>7, <1>8, <1>9, <1>10, <1>11, <1>12, <1>13,
       <1>14, <1>15, <1>16, <1>17, <1>18, <1>19, <1>20, <1>21, <1>22, <1>23, <1>24, <1>25
    DEF Next, CacheStep, Step

-----------------------------------------------------------------------------
(* The references. *)

(* Counts, for one struct. *)
Counted(s) ==
    /\ IF heap[s] = Unused THEN held[s] + OnItsWay(s) = 0
       ELSE heap[s].refcount = held[s] + OnItsWay(s)
    /\ Live(s) =>
        /\ heap[s].outdated => ~KernelCache /\ heap[s].refcount > 0
        /\ s \in InArray \/ s \in lost \/ s = ki \/ heap[s].outdated

LEMMA CountedEach ==
    /\ Counts <=> \A s \in Slots : Counted(s)
    /\ Counts' <=> \A s \in Slots : Counted(s)'
    BY DEF Counts, RefcountExact, Outside, Counted

(* A struct that a step leaves alone, with the references to it. *)
LEMMA CountedStill ==
    ASSUME NEW s \in Slots, Counted(s), build' = build,
           heap'[s] = heap[s], held'[s] = held[s], OnItsWay(s)' = OnItsWay(s),
           s \in InArray \/ s = ki => s \in InArray' \/ s \in lost' \/ s = ki',
           lost \subseteq lost'
    PROVE  Counted(s)'
    BY DEF Counted, Live, KernelCache

(* A step that moves no reference. *)
LEMMA CountsStill ==
    ASSUME KextInv, UNCHANGED <<build, heap, held, kexts, lost, ki, got>>
    PROVE  Counts'
<1>1. \A s \in Slots : Counted(s)
    BY CountedEach DEF KextInv
<1>2. ASSUME NEW s \in Slots PROVE Counted(s)'
    BY <1>1 DEF Counted, OnItsWay, Live, KernelCache, InArray
<1> QED
    BY <1>2, CountedEach

LEMMA StepCounts ==
    ASSUME KextInv, [Next]_vars
    PROVE  Counts'
<1> USE DEF kernelState, cache, locals, walk, question, Calls
<1>0. Types /\ Locals /\ Counts /\ Array /\ Fitting /\ \A s \in Slots : Counted(s)
    BY CountedEach DEF KextInv
<1>1. CASE ReloadMeanwhile
    BY <1>1, CountsStill DEF ReloadMeanwhile, Reload
<1>2. CASE Step /\ FindSlide
    BY <1>2, CountsStill DEF FindSlide
<1>3. CASE Step /\ RegisterFinders
    BY <1>3, CountsStill DEF RegisterFinders
<1>4. CASE ClearKexts /\ pc \in {"idle", "init"} /\ UNCHANGED <<build, locals, lost>>
    <2>1. ki = Wild /\ got = NoKext
        BY <1>0, <1>4 DEF Locals
    <2>2. ASSUME NEW s \in Slots PROVE Counted(s)'
        <3>1. OnItsWay(s) = 0 /\ OnItsWay(s)' = 0
            BY <1>4, <2>1, Constants DEF OnItsWay
        <3>2. CASE s \in InArray
            BY <1>4, <3>1, <3>2, Cleared DEF Counted, Live
        <3>3. CASE s \notin InArray
            <4>1. heap'[s] = heap[s] /\ held'[s] = held[s] /\ s # ki
                BY <1>4, <2>1, <3>3, Cleared, Constants
            <4> QED
                BY <1>0, <1>4, <3>1, <3>3, <4>1, CountedStill
        <3> QED
            BY <3>2, <3>3
    <2> QED
        BY <2>2, CountedEach
<1>5. CASE Step /\ KernelInit
    BY <1>4, <1>5, CountsStill DEF KernelInit, Deinitialized
<1>6. CASE Step /\ KernelDeinit
    BY <1>4, <1>6 DEF KernelDeinit, Deinitialized
<1>7. CASE Step /\ LoadInfo
    <2>1. ki = Wild /\ got = NoKext
        BY <1>0, <1>7 DEF Locals, LoadInfo
    <2> QED
        BY <1>7, <2>1, CountsStill DEF LoadInfo, Return
<1>8. CASE Step /\ Hit
    <2> PICK t \in Slots : t = kexts[Place]
        BY <1>8, FoundStruct DEF Hit
    <2>1. ki = Wild /\ got = NoKext /\ ki' = Wild /\ got' = t
        BY <1>0, <1>8 DEF Locals, Hit, Return
    <2>2. t \in Slots /\ Live(t) /\ heap[t] \in KextInfo /\ t \in InArray
        BY <1>0, <1>8, FoundStruct DEF Hit, InArray, Range, Types
    <2>3. /\ \A s \in Slots \ {t} : heap'[s] = heap[s]
          /\ heap'[t] = [heap[t] EXCEPT !.refcount = @ + 1] /\ heap'[t] \in KextInfo
        BY <1>8, Shared
    <2>4. UNCHANGED <<build, kexts, held, lost>>
        BY <1>8 DEF Hit
    <2>5. ASSUME NEW s \in Slots, s # t PROVE Counted(s)'
        <3>1. OnItsWay(s) = 0 /\ OnItsWay(s)' = 0 /\ s # ki
            BY <2>1, <2>5, Constants DEF OnItsWay
        <3> QED
            BY <1>0, <2>3, <2>4, <2>5, <3>1, CountedStill DEF InArray
    <2>6. Counted(t)'
        <3>1. OnItsWay(t) = 0 /\ OnItsWay(t)' = 1
            BY <2>1, <2>2, Constants DEF OnItsWay
        <3>2. held[t] \in Nat /\ heap[t].refcount = held[t] /\ ~heap[t].outdated
            <4>1. ~heap[t].outdated
                BY <1>8, FoundStruct DEF Hit
            <4> QED
                BY <1>0, <2>2, <3>1, <4>1 DEF Counted, Live, Types
        <3>3. heap'[t].refcount = held[t] + 1 /\ heap'[t].outdated = heap[t].outdated
            BY <2>2, <2>3, <3>2 DEF KextInfo
        <3> QED
            BY <2>2, <2>3, <2>4, <3>1, <3>2, <3>3, Constants DEF Counted, Live, InArray
    <2> QED
        BY <2>5, <2>6, CountedEach
<1>9. CASE Step /\ RemoveOutdated
    <2> PICK t \in Slots : t = kexts[Place]
        BY <1>9, FoundStruct DEF RemoveOutdated
    <2>1. ki = Wild /\ got = NoKext /\ ki' = Wild /\ got' = NoKext
        BY <1>0, <1>9 DEF Locals, RemoveOutdated
    <2>2. /\ t \in Slots /\ Live(t) /\ heap[t] \in KextInfo /\ ~heap[t].outdated
          /\ Place \in 1 .. Len(kexts)
        BY <1>9, FoundStruct DEF RemoveOutdated
    <2>3. /\ ~KernelCache
          /\ \A s \in Slots \ {t} : heap'[s] = heap[s]
          /\ heap[t].refcount = held[t]
          /\ heap'[t] # Unused =>
                /\ heap'[t] = [heap[t] EXCEPT !.outdated = TRUE] /\ heap'[t] \in KextInfo
                /\ heap[t].refcount > 0
          /\ heap'[t] = Unused => held[t] = 0
        BY <1>9, Removed
    <2>4. UNCHANGED <<build, held, lost>> /\ kexts' = RemoveAt(kexts, Place)
        BY <1>9 DEF RemoveOutdated
    <2>5. InArray \ {t} \subseteq InArray'
        BY <1>0, <2>2, <2>4, RemovedRange DEF InArray, Types
    <2>6. ASSUME NEW s \in Slots, s # t PROVE Counted(s)'
        <3>1. OnItsWay(s) = 0 /\ OnItsWay(s)' = 0 /\ s # ki
            BY <2>1, Constants DEF OnItsWay
        <3> QED
            BY <1>0, <2>3, <2>4, <2>5, <2>6, <3>1, CountedStill
    <2>7. Counted(t)'
        <3>1. OnItsWay(t)' = 0 /\ held[t] \in Nat
            BY <1>0, <2>1, <2>2, Constants DEF OnItsWay, Types
        <3>2. CASE heap'[t] = Unused
            BY <2>3, <2>4, <3>1, <3>2 DEF Counted, Live
        <3>3. CASE heap'[t] # Unused
            <4>1. heap'[t].refcount = heap[t].refcount /\ heap'[t].outdated = TRUE
                BY <2>2, <2>3, <3>3 DEF KextInfo
            <4> QED
                BY <2>3, <2>4, <3>1, <3>3, <4>1 DEF Counted, Live, KernelCache
        <3> QED
            BY <3>2, <3>3
    <2> QED
        BY <2>6, <2>7, CountedEach
<1>10. CASE Step /\ Miss
    BY <1>10, CountsStill DEF Miss
<1>11. CASE Step /\ Create
    <2>0. ki = Wild /\ got = NoKext /\ UNCHANGED <<build, held, kexts, lost>>
        BY <1>0, <1>11 DEF Locals, Create
    <2>1. CASE Return(NoKext) /\ UNCHANGED heap
        BY <2>0, <2>1, CountsStill DEF Return
    <2>2. CASE pc' = "insert" /\ UNCHANGED <<locals, heap>>
        BY <2>0, <2>2, CountsStill
    <2>3. ASSUME NEW t \in Slots, NewStruct(t) PROVE Counts'
        <3> DEFINE info == [id |-> id, load |-> IF KernelCache THEN running[id] ELSE li.load,
                            slide |-> IF KernelCache THEN kernelSlide ELSE li.slide,
                            refcount |-> 1, outdated |-> FALSE]
        <3>1. /\ info \in KextInfo /\ heap[t] = Unused /\ ki' = t /\ got' = NoKext
              /\ heap' = [heap EXCEPT ![t] = info]
            BY <1>11, <2>0, <2>3, Created DEF Create, NewStruct
        <3>2. info.refcount = 1 /\ info.outdated = FALSE
            OBVIOUS
        <3> HIDE DEF info
        <3>3. heap'[t] = info /\ \A s \in Slots \ {t} : heap'[s] = heap[s]
            BY <1>0, <3>1 DEF Types
        <3>4. ASSUME NEW s \in Slots, s # t PROVE Counted(s)'
            <4>1. OnItsWay(s) = 0 /\ OnItsWay(s)' = 0 /\ s # ki
                BY <2>0, <3>1, <3>4, Constants DEF OnItsWay
            <4> QED
                BY <1>0, <2>0, <3>3, <3>4, <4>1, CountedStill DEF InArray
        <3>5. Counted(t)'
            <4>1. held[t] = 0 /\ OnItsWay(t)' = 1
                <5>1. OnItsWay(t) = 0 /\ OnItsWay(t)' = 1
                    BY <2>0, <3>1, Constants DEF OnItsWay
                <5> QED
                    BY <1>0, <3>1, <5>1 DEF Counted, Types
            <4> QED
                BY <2>0, <3>1, <3>2, <3>3, <4>1, Constants DEF Counted, Live
        <3> QED
            BY <3>4, <3>5, CountedEach
    <2> QED
        BY <1>11, <2>1, <2>2, <2>3, CreateCases
<1>12. CASE Step /\ Insert
    <2>1. /\ ki \in Slots /\ got = NoKext /\ ki' = Wild /\ got' = ki
          /\ index \in 1 .. Len(kexts) + 1
        BY <1>0, <1>12 DEF Locals, Types, Array, Placed, Insert, Return
    <2>2. UNCHANGED <<build, heap, held, lost>> /\ kexts' = InsertAt(kexts, index, ki)
        BY <1>12 DEF Insert
    <2>3. InArray \cup {ki} \subseteq InArray'
        BY <1>0, <2>1, <2>2, InsertedRange DEF InArray, Types
    <2>4. ASSUME NEW s \in Slots PROVE Counted(s)'
        <3>1. OnItsWay(s)' = OnItsWay(s)
            BY <2>1, Constants DEF OnItsWay
        <3> QED
            BY <1>0, <2>2, <2>3, <3>1, CountedStill
    <2> QED
        BY <2>4, CountedEach
<1>13. CASE Step /\ InsertFails
    <2> PICK t \in Slots : t = ki
        BY <1>13, Lost
    <2>1. /\ got = NoKext /\ ki' = Wild /\ got' = NoKext
          /\ UNCHANGED <<build, kexts, held>> /\ lost' = lost \cup {t}
        BY <1>0, <1>13 DEF Locals, InsertFails, Return
    <2>2. /\ heap[t] \in KextInfo /\ ~heap[t].outdated /\ heap[t].refcount = held[t] + 1
          /\ \A s \in Slots \ {t} : heap'[s] = heap[s]
          /\ heap'[t] = [heap[t] EXCEPT !.refcount = @ - 1] /\ heap'[t] \in KextInfo
        BY <1>13, Lost
    <2>3. ASSUME NEW s \in Slots, s # t PROVE Counted(s)'
        <3>1. OnItsWay(s) = 0 /\ OnItsWay(s)' = 0 /\ s # ki
            BY <2>1, <2>3, Constants DEF OnItsWay
        <3> QED
            BY <1>0, <2>1, <2>2, <2>3, <3>1, CountedStill DEF InArray
    <2>4. Counted(t)'
        <3>1. OnItsWay(t)' = 0 /\ held[t] \in Nat
            BY <1>0, <2>1, Constants DEF OnItsWay, Types
        <3>2. heap'[t].refcount = held[t] /\ heap'[t].outdated = FALSE
            BY <2>2, <3>1 DEF KextInfo
        <3> QED
            BY <2>1, <2>2, <3>1, <3>2, Constants DEF Counted, Live
    <2> QED
        BY <2>3, <2>4, CountedEach
<1>14. CASE Step /\ InsertWild
    BY <1>14, CountsStill DEF InsertWild
<1>15. CASE Step /\ \E s \in Slots : KextRelease(s)
    <2> PICK t \in Slots : KextRelease(t)
        BY <1>15
    <2>1. ki = Wild /\ got = NoKext /\ UNCHANGED <<build, kexts, lost, ki, got>>
        BY <1>0 DEF Locals, KextRelease
    <2>2. ASSUME NEW s \in Slots PROVE OnItsWay(s) = 0 /\ OnItsWay(s)' = 0 /\ s # ki
        BY <2>1, Constants DEF OnItsWay
    <2>3. /\ held'[t] = held[t] - 1 /\ held[t] \in Nat
          /\ \A s \in Slots \ {t} : heap'[s] = heap[s] /\ held'[s] = held[s]
          /\ Live(t) /\ heap[t].refcount = held[t] /\ held[t] > 0
          /\ heap'[t] # Unused =>
                /\ heap'[t] = [heap[t] EXCEPT !.refcount = @ - 1] /\ heap'[t] \in KextInfo
                /\ heap[t].outdated => KernelCache \/ heap'[t].refcount > 0
          /\ heap'[t] = Unused => heap[t].outdated /\ held'[t] = 0
        BY <1>0, ClientGivesBack DEF Types
    <2>4. ASSUME NEW s \in Slots, s # t PROVE Counted(s)'
        BY <1>0, <2>1, <2>2, <2>3, <2>4, CountedStill DEF InArray
    <2>5. Counted(t)'
        <3>1. CASE heap'[t] = Unused
            BY <2>2, <2>3, <3>1 DEF Counted, Live
        <3>2. CASE heap'[t] # Unused
            <4>1. heap[t] \in KextInfo
                BY <1>0, <2>3, LiveStruct
            <4>2. /\ heap'[t].refcount = held[t] - 1 /\ heap'[t].outdated = heap[t].outdated
                BY <2>3, <3>2, <4>1 DEF KextInfo
            <4>3. /\ heap[t].outdated => ~KernelCache
                  /\ t \in InArray \/ t \in lost \/ heap[t].outdated
                BY <1>0, <2>2, <2>3 DEF Counted, Live
            <4> QED
                BY <2>1, <2>2, <2>3, <3>2, <4>2, <4>3 DEF Counted, Live, InArray, KernelCache
        <3> QED
            BY <3>1, <3>2
    <2> QED
        BY <2>4, <2>5, CountedEach
<1>16. CASE \E i \in Ids : CallKernelKext(i) \/ KextIdFindSymbol(i) \/ SearchKext(i)
    BY <1>16, CountsStill DEF CallKernelKext, KextIdFindSymbol, SearchKext, KernelKext
<1>17. CASE \E a \in Addresses : KernelKextContainingAddress(a)
    BY <1>17, CountsStill DEF KernelKextContainingAddress, KernelKext
<1>18. CASE TakeKext
    <2>1. ki = Wild /\ ki' = Wild /\ got' = NoKext /\ UNCHANGED <<build, heap, kexts, lost>>
        BY <1>0, <1>18 DEF Locals, TakeKext, Resume
    <2>2. ASSUME NEW s \in Slots PROVE Counted(s)'
        <3>1. OnItsWay(s)' = 0 /\ s # ki /\ held[s] \in Nat
            BY <1>0, <2>1, Constants DEF OnItsWay, Types
        <3>2. held'[s] = held[s] + OnItsWay(s)
            BY <1>18, <2>1, <3>1, Constants DEF TakeKext, OnItsWay
        <3>3. OnItsWay(s) \in Nat
            BY DEF OnItsWay
        <3> QED
            BY <1>0, <2>1, <3>1, <3>2, <3>3 DEF Counted, Live, InArray, KernelCache
    <2> QED
        BY <2>2, CountedEach
<1>19. CASE pc = "returned" /\ ReleaseGot /\ got' = NoKext /\ UNCHANGED <<build, held, kexts, lost, ki>>
    <2>1. ki = Wild /\ ki' = Wild
        BY <1>0, <1>19 DEF Locals
    <2>2. /\ \A s \in Slots \ {got} : heap'[s] = heap[s]
          /\ got # NoKext =>
                /\ Live(got) /\ heap'[got] = [heap[got] EXCEPT !.refcount = @ - 1]
                /\ heap[got].refcount = held[got] + 1
                /\ heap'[got] \in KextInfo /\ ~heap[got].outdated
        BY <1>19, GivenBack
    <2>3. ASSUME NEW s \in Slots, s # got PROVE Counted(s)'
        <3>1. OnItsWay(s) = 0 /\ OnItsWay(s)' = 0 /\ s # ki
            BY <1>19, <2>1, <2>3, Constants DEF OnItsWay
        <3> QED
            BY <1>0, <1>19, <2>2, <2>3, <3>1, CountedStill DEF InArray
    <2>4. ASSUME NEW s \in Slots, s = got PROVE Counted(s)'
        <3>1. OnItsWay(s)' = 0 /\ held[s] \in Nat
            BY <1>0, <1>19, <2>1, Constants DEF OnItsWay, Types
        <3>2. got # NoKext
            BY <2>4, Constants
        <3>3. heap[s] \in KextInfo
            BY <1>0, <2>2, <2>4, <3>2, LiveStruct
        <3>4. heap'[s].refcount = held[s] /\ heap'[s].outdated = FALSE
            BY <2>2, <2>4, <3>1, <3>2, <3>3 DEF KextInfo
        <3>5. s \in InArray \/ s \in lost
            BY <1>0, <2>1, <2>2, <2>4, <3>2, Constants DEF Counted
        <3> QED
            BY <1>19, <2>2, <2>4, <3>1, <3>2, <3>4, <3>5, Constants DEF Counted, Live, InArray
    <2> QED
        BY <2>3, <2>4, CountedEach
<1>20. CASE FindSymbol
    BY <1>19, <1>20 DEF FindSymbol, Resume
<1>21. CASE Searched
    BY <1>19, <1>21 DEF Searched, Resume
<1>22. CASE KextForEach
    BY <1>22, CountsStill DEF KextForEach
<1>23. CASE SearchKernel
    BY <1>23, CountsStill DEF SearchKernel, cacheVars
<1>24. CASE SearchEnds
    BY <1>24, CountsStill DEF SearchEnds
<1>25. CASE UNCHANGED vars
    BY <1>25, CountsStill DEF vars, cacheVars
<1> QED
    BY <1>1, <1>2, <1>3, <1>5, <1>6, <1>7, <1>8, <1>9, <1>10, <1>11, <1>12, <1>13,
       <1>14, <1>15, <1>16, <1>17, <1>18, <1>20, <1>21, <1>22, <1>23, <1>24, <1>25
    DEF Next, CacheStep, Step

-----------------------------------------------------------------------------
(* The array. *)

(* A step that leaves the array alone, and the IDs of its structs. *)
LEMMA ArrayStill ==
    ASSUME KextInv, kexts' = kexts,
           \A s \in InArray : heap'[s] # Unused /\ heap'[s].id = heap[s].id
                                 /\ heap'[s].outdated = heap[s].outdated
    PROVE  /\ Current' /\ Ordered'
           /\ pc \in {"create", "insert"} /\ UNCHANGED <<index, id>> => Placed'
<1>1. Current /\ Ordered /\ Placed /\ \A i \in DOMAIN kexts : kexts[i] \in InArray
    BY DEF KextInv, Array, InArray, Range
<1>2. Current'
    BY <1>1 DEF Current, Live
<1>3. Ordered'
    BY <1>1 DEF Ordered
<1>4. ASSUME pc \in {"create", "insert"}, UNCHANGED <<index, id>> PROVE Placed'
    BY <1>1, <1>4 DEF Placed
<1> QED
    BY <1>2, <1>3, <1>4

(* Structs that the array does not name. *)
LEMMA ArrayApart ==
    ASSUME KextInv, kexts' = kexts, NEW t, t \notin InArray,
           \A s \in Slots \ {t} : heap'[s] = heap[s]
    PROVE  /\ Current' /\ Ordered'
           /\ pc \in {"create", "insert"} /\ UNCHANGED <<index, id>> => Placed'
<1>1. ASSUME NEW s \in InArray
      PROVE  heap'[s] # Unused /\ heap'[s].id = heap[s].id /\ heap'[s].outdated = heap[s].outdated
    <2>1. s \in Slots /\ Live(s)
        BY DEF KextInv, Types, Array, Current, InArray, Range
    <2> QED
        BY <2>1 DEF Live
<1> QED
    BY <1>1, ArrayStill

LEMMA StepArray ==
    ASSUME KextInv, [Next]_vars
    PROVE  Array'
<1> USE DEF kernelState, cache, locals, walk, question
<1>0. Types /\ Locals /\ Current /\ Ordered /\ Placed /\ Fitting
      /\ Len(kexts) \in Nat /\ DOMAIN kexts = 1 .. Len(kexts)
    BY DEF KextInv, Array, Types
<1>1. CASE UNCHANGED <<heap, kexts>> /\ (pc' \notin {"create", "insert"} \/ UNCHANGED <<pc, index, id>>)
    <2>1. Current' /\ Ordered'
        BY <1>0, <1>1 DEF Current, Ordered, Live
    <2>2. Placed'
        BY <1>0, <1>1 DEF Placed
    <2> QED
        BY <2>1, <2>2 DEF Array
<1>2. CASE ReloadMeanwhile
    BY <1>1, <1>2 DEF ReloadMeanwhile, Reload
<1>3. CASE Step /\ FindSlide
    BY <1>1, <1>3 DEF FindSlide
<1>4. CASE Step /\ RegisterFinders
    BY <1>1, <1>4 DEF RegisterFinders
<1>5. CASE ClearKexts /\ pc' \notin {"create", "insert"}
    BY <1>5 DEF ClearKexts, Array, Current, Ordered, Placed
<1>6. CASE Step /\ KernelInit
    BY <1>1, <1>5, <1>6 DEF KernelInit, Deinitialized
<1>7. CASE Step /\ KernelDeinit
    BY <1>5, <1>7 DEF KernelDeinit, Deinitialized
<1>8. CASE Step /\ LoadInfo
    BY <1>1, <1>8 DEF LoadInfo, Return
<1>9. CASE Step /\ Hit
    <2>1. /\ kexts[Place] \in Slots /\ heap[kexts[Place]] \in KextInfo
          /\ \A s \in Slots \ {kexts[Place]} : heap'[s] = heap[s]
          /\ heap'[kexts[Place]] = [heap[kexts[Place]] EXCEPT !.refcount = @ + 1]
          /\ heap'[kexts[Place]] \in KextInfo
        BY <1>9, Shared, FoundStruct DEF Hit
    <2>2. heap'[kexts[Place]].id = heap[kexts[Place]].id
          /\ heap'[kexts[Place]].outdated = heap[kexts[Place]].outdated
        BY <2>1 DEF KextInfo
    <2>3. ASSUME NEW s \in InArray
          PROVE  heap'[s] # Unused /\ heap'[s].id = heap[s].id
                    /\ heap'[s].outdated = heap[s].outdated
        <3>1. s \in Slots /\ heap[s] # Unused
            BY <1>0 DEF Types, Current, Live, InArray, Range
        <3> QED
            BY <2>1, <2>2, <3>1, Constants
    <2>4. kexts' = kexts /\ pc' = "returned"
        BY <1>9 DEF Hit, Return
    <2> QED
        BY <2>3, <2>4, ArrayStill DEF Array, Placed
<1>10. CASE Step /\ RemoveOutdated
    <2>1. /\ Place \in 1 .. Len(kexts) /\ heap[kexts[Place]].id = id
          /\ kexts[Place] \in Slots
        BY <1>10, FoundStruct DEF RemoveOutdated
    <2>2. /\ kexts' = RemoveAt(kexts, Place) /\ index' = Place /\ id' = id
        BY <1>10 DEF RemoveOutdated
    <2>3. /\ kexts' \in Seq(Slots) /\ Len(kexts') = Len(kexts) - 1
          /\ \A i \in 1 .. Len(kexts) - 1 :
                kexts'[i] = IF i < Place THEN kexts[i] ELSE kexts[i + 1]
        BY <1>0, <2>1, <2>2, RemoveAtProperties DEF Types
    <2>4. \A s \in Slots \ {kexts[Place]} : heap'[s] = heap[s]
        BY <1>10, Removed
    <2> DEFINE old(i) == IF i < Place THEN i ELSE i + 1
    <2>5. ASSUME NEW i \in 1 .. Len(kexts) - 1
          PROVE  /\ old(i) \in 1 .. Len(kexts) /\ old(i) # Place
                 /\ kexts'[i] = kexts[old(i)] /\ kexts[old(i)] \in Slots
                 /\ Live(kexts[old(i)]) /\ heap[kexts[old(i)]].id \in Nat
        <3>0. kexts \in Seq(Slots) /\ Len(kexts) \in Nat
            BY <1>0 DEF Types
        <3>3. old(i) \in 1 .. Len(kexts) /\ old(i) # Place
            BY <2>1, <3>0
        <3>4. kexts'[i] = kexts[old(i)]
            BY <2>3
        <3>1. /\ old(i) \in 1 .. Len(kexts) /\ old(i) # Place
              /\ kexts'[i] = kexts[old(i)] /\ kexts[old(i)] \in Slots
            BY <3>0, <3>3, <3>4
        <3>2. Live(kexts[old(i)])
            BY <1>0, <3>1 DEF Current
        <3> QED
            BY <1>0, <3>1, <3>2, LiveStruct, Constants
    <2>6. ASSUME NEW i \in 1 .. Len(kexts) - 1
          PROVE  /\ heap'[kexts'[i]] = heap[kexts[old(i)]]
                 /\ heap[kexts[old(i)]].id # id
        <3>1. old(i) \in DOMAIN kexts /\ Place \in DOMAIN kexts
            BY <1>0, <2>1, <2>5
        <3>2. old(i) < Place \/ Place < old(i)
            BY <2>1, <2>5
        <3>3. heap[kexts[old(i)]].id < id \/ id < heap[kexts[old(i)]].id
            BY <1>0, <2>1, <3>1, <3>2 DEF Ordered
        <3>4. heap[kexts[old(i)]].id # id
            <4>1. id \in Nat /\ heap[kexts[old(i)]].id \in Nat
                BY <1>0, <2>5, Constants DEF Types
            <4> HIDE DEF old
            <4> QED
                BY <3>3, <4>1
        <3>5. kexts[old(i)] # kexts[Place]
            BY <2>1, <3>4
        <3> QED
            BY <2>4, <2>5, <3>4, <3>5
    <2>7. DOMAIN kexts' = 1 .. Len(kexts) - 1
        BY <2>3
    <2>8. Current'
        <3> SUFFICES ASSUME NEW i \in DOMAIN kexts'
                     PROVE  heap'[kexts'[i]] # Unused /\ ~heap'[kexts'[i]].outdated
            BY DEF Current, Live
        <3>1. old(i) \in DOMAIN kexts /\ heap'[kexts'[i]] = heap[kexts[old(i)]]
            BY <1>0, <2>5, <2>6, <2>7
        <3> QED
            BY <1>0, <3>1 DEF Current, Live
    <2>9. Ordered'
        <3> SUFFICES ASSUME NEW i \in DOMAIN kexts', NEW k \in DOMAIN kexts', i < k
                     PROVE  heap'[kexts'[i]].id < heap'[kexts'[k]].id
            BY DEF Ordered
        <3>1. /\ old(i) \in DOMAIN kexts /\ heap'[kexts'[i]] = heap[kexts[old(i)]]
              /\ old(k) \in DOMAIN kexts /\ heap'[kexts'[k]] = heap[kexts[old(k)]]
            BY <1>0, <2>5, <2>6, <2>7
        <3>2. old(i) < old(k)
            BY <1>0, <2>1, <2>7
        <3> QED
            BY <1>0, <3>1, <3>2 DEF Ordered
    <2>10. Placed'
        <3>1. index' \in 1 .. Len(kexts') + 1
            BY <1>0, <2>1, <2>2, <2>3
        <3>2. ASSUME NEW i \in DOMAIN kexts'
              PROVE  IF i < index' THEN heap'[kexts'[i]].id < id' ELSE id' < heap'[kexts'[i]].id
            <4>1. old(i) \in DOMAIN kexts /\ heap'[kexts'[i]] = heap[kexts[old(i)]]
                  /\ Place \in DOMAIN kexts
                BY <1>0, <2>1, <2>5, <2>6, <2>7
            <4>2. IF i < Place THEN old(i) < Place ELSE Place < old(i)
                BY <1>0, <2>1, <2>7
            <4> QED
                BY <1>0, <2>1, <2>2, <4>1, <4>2 DEF Ordered
        <3> QED
            BY <3>1, <3>2 DEF Placed
    <2> QED
        BY <2>8, <2>9, <2>10 DEF Array
<1>11. CASE Step /\ Miss
    <2>1. /\ UNCHANGED <<heap, kexts, id>> /\ index' = Place /\ ~Found
        BY <1>11 DEF Miss
    <2>2. Current' /\ Ordered'
        BY <1>0, <2>1 DEF Current, Ordered, Live
    <2>3. Placed'
        <3>1. /\ Place \in 1 .. Len(kexts) + 1
              /\ \A i \in DOMAIN kexts : i < Place <=> heap[kexts[i]].id < id
              /\ \A i \in DOMAIN kexts : heap[kexts[i]].id # id
            BY <2>1, PlaceRange
        <3>2. ASSUME NEW i \in DOMAIN kexts
              PROVE  heap[kexts[i]].id \in Nat /\ id \in Nat
            <4>1. kexts[i] \in Slots /\ Live(kexts[i])
                BY <1>0 DEF Types, Current
            <4> QED
                BY <1>0, <4>1, LiveStruct, Constants DEF Types
        <3>3. \A i \in DOMAIN kexts : IF i < Place THEN heap[kexts[i]].id < id
                                       ELSE id < heap[kexts[i]].id
            BY <3>1, <3>2
        <3> QED
            BY <2>1, <3>1, <3>3 DEF Placed
    <2> QED
        BY <2>2, <2>3 DEF Array
<1>12. CASE Step /\ Create
    <2>1. CASE Return(NoKext) /\ UNCHANGED heap
        BY <1>1, <1>12, <2>1 DEF Create, Return
    <2>2. CASE pc' = "insert" /\ UNCHANGED <<locals, heap>>
        BY <1>12, <2>2, ArrayStill DEF Create, Array, KextInv, Current, Live, InArray, Range
    <2>3. ASSUME NEW t \in Slots, NewStruct(t) PROVE Array'
        <3>1. t \notin InArray /\ \A s \in Slots \ {t} : heap'[s] = heap[s]
            BY <1>0, <2>3 DEF NewStruct, Types, Current, Live, InArray, Range
        <3> QED
            BY <1>12, <2>3, <3>1, ArrayApart DEF Create, NewStruct, Array
    <2> QED
        BY <1>12, <2>1, <2>2, <2>3, CreateCases
<1>13. CASE Step /\ Insert
    <2>1. /\ ki \in Slots /\ Live(ki) /\ heap[ki].id = id /\ ~heap[ki].outdated
          /\ index \in 1 .. Len(kexts) + 1 /\ pc = "insert"
        BY <1>0, <1>13 DEF Fitting, Fits, Placed, Insert
    <2>2. /\ kexts' = InsertAt(kexts, index, ki) /\ heap' = heap /\ pc' = "returned"
        BY <1>13 DEF Insert, Return
    <2>3. /\ kexts' \in Seq(Slots) /\ Len(kexts') = Len(kexts) + 1
          /\ \A i \in 1 .. Len(kexts) + 1 :
                kexts'[i] = IF i < index THEN kexts[i]
                            ELSE IF i = index THEN ki ELSE kexts[i - 1]
        <3>1. kexts \in Seq(Slots) /\ ki \in Slots /\ index \in 1 .. Len(kexts) + 1
            BY <1>0, <2>1 DEF Types
        <3>2. /\ InsertAt(kexts, index, ki) \in Seq(Slots)
              /\ Len(InsertAt(kexts, index, ki)) = Len(kexts) + 1
              /\ \A j \in 1 .. Len(kexts) + 1 :
                    InsertAt(kexts, index, ki)[j]
                       = IF j < index THEN kexts[j] ELSE IF j = index THEN ki ELSE kexts[j - 1]
            BY <3>1, InsertAtProperties
        <3> QED
            BY <2>2, <3>2
    <2>4. DOMAIN kexts' = 1 .. Len(kexts) + 1
        BY <2>3
    <2>5. \A i \in DOMAIN kexts' :
             \/ i < index /\ i \in DOMAIN kexts /\ kexts'[i] = kexts[i]
             \/ i = index /\ kexts'[i] = ki
             \/ i > index /\ i - 1 \in DOMAIN kexts /\ kexts'[i] = kexts[i - 1]
        BY <1>0, <2>1, <2>3, <2>4
    <2>6. Current'
        BY <1>0, <2>1, <2>2, <2>5 DEF Current, Live
    <2>7. Ordered'
        <3> SUFFICES ASSUME NEW i \in DOMAIN kexts', NEW k \in DOMAIN kexts', i < k
                     PROVE  heap[kexts'[i]].id < heap[kexts'[k]].id
            BY <2>2 DEF Ordered
        <3>1. /\ \A n \in DOMAIN kexts : n < index => heap[kexts[n]].id < id
              /\ \A n \in DOMAIN kexts : ~(n < index) => id < heap[kexts[n]].id
            BY <1>0, <2>1 DEF Placed
        <3>2. \A n, m \in DOMAIN kexts : n < m => heap[kexts[n]].id < heap[kexts[m]].id
            BY <1>0 DEF Ordered
        <3>3. i \in Nat /\ k \in Nat /\ index \in Nat
            BY <1>0, <2>1, <2>4
        <3>4. CASE k < index
            BY <2>5, <3>2, <3>3, <3>4
        <3>5. CASE k = index
            BY <2>1, <2>5, <3>1, <3>3, <3>5
        <3>6. CASE k > index /\ i = index
            <4>1. k - 1 \in DOMAIN kexts /\ kexts'[k] = kexts[k - 1] /\ ~(k - 1 < index)
                BY <2>5, <3>3, <3>6
            <4> QED
                BY <2>1, <2>5, <3>1, <3>3, <3>6, <4>1
        <3>7. CASE k > index /\ i < index
            <4>1. k - 1 \in DOMAIN kexts /\ kexts'[k] = kexts[k - 1] /\ i < k - 1
                BY <2>5, <3>3, <3>7
            <4>2. i \in DOMAIN kexts /\ kexts'[i] = kexts[i]
                BY <2>5, <3>3, <3>7
            <4> QED
                BY <3>2, <4>1, <4>2
        <3>8. CASE k > index /\ i > index
            <4>1. k - 1 \in DOMAIN kexts /\ kexts'[k] = kexts[k - 1]
                BY <2>5, <3>3, <3>8
            <4>2. i - 1 \in DOMAIN kexts /\ kexts'[i] = kexts[i - 1] /\ i - 1 < k - 1
                BY <2>5, <3>3, <3>8
            <4> QED
                BY <3>2, <4>1, <4>2
        <3> QED
            BY <3>3, <3>4, <3>5, <3>6, <3>7, <3>8
    <2> QED
        BY <2>2, <2>6, <2>7 DEF Array, Placed
<1>14. CASE Step /\ InsertFails
    <2>1. ki \notin InArray /\ \A s \in Slots \ {ki} : heap'[s] = heap[s]
        BY <1>0, <1>14, Lost DEF InsertFails, Fitting
    <2> QED
        BY <1>14, <2>1, ArrayApart DEF InsertFails, Return, Array, Placed
<1>15. CASE Step /\ InsertWild
    BY <1>1, <1>15 DEF InsertWild
<1>16. CASE Step /\ \E s \in Slots : KextRelease(s)
    <2> PICK t \in Slots : KextRelease(t)
        BY <1>16
    <2>1. pc' = "idle" /\ kexts' = kexts
        BY DEF KextRelease
    <2>2. /\ \A s \in Slots \ {t} : heap'[s] = heap[s]
          /\ Live(t)
          /\ heap'[t] # Unused => heap'[t] = [heap[t] EXCEPT !.refcount = @ - 1]
          /\ heap'[t] = Unused => heap[t].outdated
        BY ClientGivesBack
    <2>3. ASSUME NEW s \in InArray
          PROVE  heap'[s] # Unused /\ heap'[s].id = heap[s].id
                    /\ heap'[s].outdated = heap[s].outdated
        <3>1. s \in Slots /\ Live(s) /\ ~heap[s].outdated
            BY <1>0 DEF Types, Current, InArray, Range
        <3>2. heap[s] \in KextInfo
            BY <1>0, <3>1, LiveStruct
        <3> QED
            BY <2>2, <3>1, <3>2 DEF Live, KextInfo
    <2> QED
        BY <2>1, <2>3, ArrayStill DEF Array, Placed
<1>17. CASE \E i \in Ids : CallKernelKext(i) \/ KextIdFindSymbol(i) \/ SearchKext(i)
    BY <1>1, <1>17 DEF CallKernelKext, KextIdFindSymbol, SearchKext, KernelKext
<1>18. CASE \E a \in Addresses : KernelKextContainingAddress(a)
    BY <1>1, <1>18 DEF KernelKextContainingAddress, KernelKext
<1>19. CASE TakeKext
    BY <1>1, <1>19 DEF TakeKext, Resume
<1>20. CASE pc = "returned" /\ ReleaseGot /\ UNCHANGED kexts /\ pc' \in {"idle", "each"}
    <2>1. /\ \A s \in Slots \ {got} : heap'[s] = heap[s]
          /\ got # NoKext =>
                /\ Live(got) /\ heap'[got] = [heap[got] EXCEPT !.refcount = @ - 1]
                /\ heap'[got] \in KextInfo
        BY <1>20, GivenBack
    <2>2. ASSUME NEW s \in InArray
          PROVE  heap'[s] # Unused /\ heap'[s].id = heap[s].id
                    /\ heap'[s].outdated = heap[s].outdated
        <3>1. s \in Slots /\ Live(s) /\ heap[s] \in KextInfo
            BY <1>0, LiveStruct DEF Types, Current, InArray, Range
        <3> QED
            BY <2>1, <3>1, Constants DEF Live, KextInfo
    <2> QED
        BY <1>20, <2>2, ArrayStill DEF Array, Placed
<1>21. CASE FindSymbol
    BY <1>20, <1>21 DEF FindSymbol, Resume
<1>22. CASE Searched
    BY <1>20, <1>22 DEF Searched, Resume
<1>23. CASE KextForEach
    BY <1>1, <1>23 DEF KextForEach
<1>24. CASE SearchKernel
    BY <1>1, <1>24 DEF SearchKernel, cacheVars
<1>25. CASE SearchEnds
    BY <1>1, <1>25 DEF SearchEnds
<1>26. CASE UNCHANGED vars
    BY <1>1, <1>26 DEF vars, cacheVars
<1> QED
    BY <1>2, <1>3, <1>4, <1>6, <1>7, <1>8, <1>9, <1>10, <1>11, <1>12, <1>13, <1>14, <1>15,
       <1>16, <1>17, <1>18, <1>19, <1>21, <1>22, <1>23, <1>24, <1>25, <1>26
    DEF Next, CacheStep, Step

-----------------------------------------------------------------------------
(* What is on its way, the kernelcache, and the address that was asked for. *)

(***************************************************************************)
(* What a struct says of its kext never changes while it lives; only the   *)
(* removal from the array makes it outdated.                               *)
(***************************************************************************)
LEMMA StructsKept ==
    ASSUME KextInv, [Next]_vars, NEW s \in Slots, Live(s), heap'[s] # Unused
    PROVE  /\ heap'[s].id = heap[s].id
           /\ heap'[s].load = heap[s].load
           /\ heap'[s].slide = heap[s].slide
<1> USE DEF kernelState, cache, locals, walk, question
<1>0. Types /\ heap[s] \in KextInfo
    BY LiveStruct DEF KextInv
<1>1. CASE heap'[s] = heap[s]
    BY <1>1
<1>2. CASE Step /\ Hit
    BY <1>0, <1>2, Shared DEF KextInfo
<1>3. CASE Step /\ RemoveOutdated
    <2>1. heap'[s] = heap[s] \/ heap'[s] = [heap[s] EXCEPT !.outdated = TRUE]
        BY <1>3, Removed
    <2> QED
        BY <1>0, <2>1 DEF KextInfo
<1>4. CASE Step /\ InsertFails
    <2>1. heap'[s] = heap[s] \/ heap'[s] = [heap[s] EXCEPT !.refcount = @ - 1]
        BY <1>4, Lost
    <2> QED
        BY <1>0, <2>1 DEF KextInfo
<1>5. CASE Step /\ \E t \in Slots : KextRelease(t)
    <2> PICK t \in Slots : KextRelease(t)
        BY <1>5
    <2>1. heap'[s] = heap[s] \/ heap'[s] = [heap[s] EXCEPT !.refcount = @ - 1]
        BY ClientGivesBack
    <2> QED
        BY <1>0, <2>1 DEF KextInfo
<1>6. CASE FindSymbol \/ Searched
    <2>1. heap'[s] = heap[s] \/ heap'[s] = [heap[s] EXCEPT !.refcount = @ - 1]
        BY <1>6, GivenBack, Constants DEF FindSymbol, Searched
    <2> QED
        BY <1>0, <2>1 DEF KextInfo
<1>7. CASE Step /\ Create
    <2>1. \A t \in Slots : NewStruct(t) => t # s /\ heap'[s] = heap[s]
        BY <1>0 DEF NewStruct, Live, Types
    <2> QED
        BY <1>1, <1>7, <2>1, CreateCases
<1>8. CASE Step /\ KernelDeinit
    BY <1>1, <1>8, Cleared DEF KernelDeinit, Deinitialized
<1>9. CASE Step /\ KernelInit
    BY <1>1, <1>9, Cleared DEF KernelInit, Deinitialized
<1>10. CASE Step /\ (FindSlide \/ RegisterFinders \/ LoadInfo \/ Miss \/ Insert \/ InsertWild)
    BY <1>1, <1>10 DEF FindSlide, RegisterFinders, LoadInfo, Miss, Insert, InsertWild
<1>11. CASE \E i \in Ids : CallKernelKext(i) \/ KextIdFindSymbol(i) \/ SearchKext(i)
    BY <1>1, <1>11 DEF CallKernelKext, KextIdFindSymbol, SearchKext, KernelKext
<1>12. CASE \E a \in Addresses : KernelKextContainingAddress(a)
    BY <1>1, <1>12 DEF KernelKextContainingAddress, KernelKext
<1>13. CASE ReloadMeanwhile \/ TakeKext \/ KextForEach \/ SearchKernel \/ SearchEnds \/ UNCHANGED vars
    BY <1>1, <1>13 DEF ReloadMeanwhile, Reload, TakeKext, KextForEach, SearchKernel, SearchEnds,
                       vars, cacheVars
<1> QED
    BY <1>2, <1>3, <1>4, <1>5, <1>6, <1>7, <1>8, <1>9, <1>10, <1>11, <1>12, <1>13
    DEF Next, CacheStep, Step

LEMMA StepFitting ==
    ASSUME KextInv, [Next]_vars
    PROVE  Fitting'
<1> USE DEF kernelState, cache, locals, walk, question
<1>0. Types /\ Locals /\ Fitting
    BY DEF KextInv
<1>1. CASE pc' \notin {"insert", "returned"} \/ (pc' = "returned" /\ got' = NoKext)
    BY <1>1 DEF Fitting
<1>2. CASE UNCHANGED <<build, heap, kexts, pc, id, li, ki, got>>
    BY <1>0, <1>2 DEF Fitting, Fits, Live, InArray, KernelCache
<1>3. CASE Step /\ LoadInfo
    BY <1>1, <1>3 DEF LoadInfo, Return
<1>4. CASE Step /\ Hit
    <2> DEFINE t == kexts[Place]
    <2>1. /\ t \in Slots /\ heap[t] \in KextInfo /\ heap[t].id = id /\ ~heap[t].outdated
          /\ heap'[t] = [heap[t] EXCEPT !.refcount = @ + 1] /\ heap'[t] \in KextInfo
        BY <1>4, Shared, FoundStruct DEF Hit
    <2>2. /\ pc' = "returned" /\ got' = t /\ UNCHANGED <<build, id, li>>
          /\ ~Outdated(t)
        BY <1>4 DEF Hit, Return
    <2> HIDE DEF t
    <2>3. /\ heap'[t].id = id /\ ~heap'[t].outdated
          /\ heap'[t].load = heap[t].load /\ heap'[t].slide = heap[t].slide
        BY <2>1 DEF KextInfo
    <2>4. ~KernelCache => heap'[t].load = li.load /\ heap'[t].slide = li.slide
        BY <2>2, <2>3 DEF Outdated
    <2>5. heap'[t] # Unused
        BY <2>1, Constants
    <2> QED
        BY <2>1, <2>2, <2>3, <2>4, <2>5 DEF Fitting, Fits, Live, KernelCache
<1>5. CASE Step /\ Create
    <2>1. CASE Return(NoKext) /\ UNCHANGED heap
        BY <1>1, <2>1 DEF Return
    <2>2. CASE pc' = "insert" /\ UNCHANGED <<locals, heap>>
        BY <1>0, <1>5, <2>2 DEF Create, Locals, Fitting
    <2>3. ASSUME NEW t \in Slots, NewStruct(t) PROVE Fitting'
        <3> DEFINE info == [id |-> id, load |-> IF KernelCache THEN running[id] ELSE li.load,
                            slide |-> IF KernelCache THEN kernelSlide ELSE li.slide,
                            refcount |-> 1, outdated |-> FALSE]
        <3>1. /\ info \in KextInfo /\ heap[t] = Unused /\ ki' = t /\ pc' = "insert"
              /\ heap' = [heap EXCEPT ![t] = info] /\ UNCHANGED <<id, li, build, kexts>>
            BY <1>5, <2>3, Created DEF Create, NewStruct
        <3>2. /\ info.id = id /\ info.outdated = FALSE
              /\ ~KernelCache => info.load = li.load /\ info.slide = li.slide
            OBVIOUS
        <3> HIDE DEF info
        <3>3. heap'[t] = info
            BY <1>0, <3>1 DEF Types
        <3>4. t \notin InArray
            BY <3>1 DEF KextInv, Array, Current, Live, InArray, Range
        <3>5. heap'[t] # Unused
            BY <3>1, <3>3, Constants
        <3> QED
            BY <3>1, <3>2, <3>3, <3>4, <3>5 DEF Fitting, Fits, Live, KernelCache, InArray
    <2> QED
        BY <1>5, <2>1, <2>2, <2>3, CreateCases
<1>6. CASE Step /\ Insert
    BY <1>0, <1>6 DEF Insert, Return, Fitting, Fits, Live, KernelCache
<1>7. CASE Step /\ InsertFails
    BY <1>1, <1>7 DEF InsertFails, Return
<1>8. CASE Step /\ (FindSlide \/ RegisterFinders \/ KernelInit \/ KernelDeinit)
    BY <1>1, <1>8 DEF FindSlide, RegisterFinders, KernelInit, KernelDeinit
<1>9. CASE Step /\ (RemoveOutdated \/ Miss \/ InsertWild \/ \E s \in Slots : KextRelease(s))
    BY <1>1, <1>9 DEF RemoveOutdated, Miss, InsertWild, KextRelease
<1>10. CASE \E i \in Ids : CallKernelKext(i) \/ KextIdFindSymbol(i) \/ SearchKext(i)
    BY <1>1, <1>10 DEF CallKernelKext, KextIdFindSymbol, SearchKext, KernelKext
<1>11. CASE \E a \in Addresses : KernelKextContainingAddress(a)
    BY <1>1, <1>11 DEF KernelKextContainingAddress, KernelKext
<1>12. CASE ReloadMeanwhile \/ SearchKernel \/ UNCHANGED vars
    BY <1>2, <1>12 DEF ReloadMeanwhile, Reload, SearchKernel, vars, cacheVars
<1>13. CASE TakeKext \/ FindSymbol \/ Searched \/ KextForEach \/ SearchEnds
    BY <1>1, <1>13 DEF TakeKext, FindSymbol, Searched, KextForEach, SearchEnds, Resume
<1> QED
    BY <1>3, <1>4, <1>5, <1>6, <1>7, <1>8, <1>9, <1>10, <1>11, <1>12, <1>13
    DEF Next, CacheStep, Step

(* A struct comes from create_kext_info. *)
LEMMA StructsMade ==
    ASSUME KextInv, [Next]_vars, NEW s \in Slots, heap[s] = Unused, heap'[s] # Unused
    PROVE  pc = "create" /\ NewStruct(s) /\ UNCHANGED running
<1> USE DEF kernelState, cache, locals, walk, question
<1>0. Types
    BY DEF KextInv
<1>1. CASE heap'[s] = heap[s]
    BY <1>1
<1>2. CASE Step /\ Hit
    <2>1. Live(kexts[Place])
        BY <1>2, FoundStruct DEF Hit
    <2> QED
        BY <1>2, <2>1, Shared DEF Live
<1>3. CASE Step /\ RemoveOutdated
    <2>1. Live(kexts[Place])
        BY <1>3, FoundStruct DEF RemoveOutdated
    <2> QED
        BY <1>3, <2>1, Removed DEF Live
<1>4. CASE Step /\ InsertFails
    BY <1>4, Lost DEF Live
<1>5. CASE Step /\ \E t \in Slots : KextRelease(t)
    BY <1>5, ClientGivesBack DEF Live
<1>6. CASE FindSymbol \/ Searched
    BY <1>6, GivenBack, Constants DEF FindSymbol, Searched, Live
<1>7. CASE Step /\ Create
    <2>1. \A t \in Slots : NewStruct(t) => t = s
        BY <1>0 DEF NewStruct, Types
    <2> QED
        BY <1>1, <1>7, <2>1, CreateCases DEF Create
<1>8. CASE Step /\ KernelDeinit
    BY <1>1, <1>8, Cleared DEF KernelDeinit, Deinitialized
<1>9. CASE Step /\ KernelInit
    BY <1>1, <1>9, Cleared DEF KernelInit, Deinitialized
<1>10. CASE Step /\ (FindSlide \/ RegisterFinders \/ LoadInfo \/ Miss \/ Insert \/ InsertWild)
    BY <1>1, <1>10 DEF FindSlide, RegisterFinders, LoadInfo, Miss, Insert, InsertWild
<1>11. CASE \E i \in Ids : CallKernelKext(i) \/ KextIdFindSymbol(i) \/ SearchKext(i)
    BY <1>1, <1>11 DEF CallKernelKext, KextIdFindSymbol, SearchKext, KernelKext
<1>12. CASE \E a \in Addresses : KernelKextContainingAddress(a)
    BY <1>1, <1>12 DEF KernelKextContainingAddress, KernelKext
<1>13. CASE ReloadMeanwhile \/ TakeKext \/ KextForEach \/ SearchKernel \/ SearchEnds \/ UNCHANGED vars
    BY <1>1, <1>13 DEF ReloadMeanwhile, Reload, TakeKext, KextForEach, SearchKernel, SearchEnds,
                       vars, cacheVars
<1> QED
    BY <1>2, <1>3, <1>4, <1>5, <1>6, <1>7, <1>8, <1>9, <1>10, <1>11, <1>12, <1>13
    DEF Next, CacheStep, Step

(* Only macOS loads kexts at run time, and the build never changes. *)
LEMMA BuildKept ==
    ASSUME KextInv, [Next]_vars
    PROVE  /\ build' = build
           /\ KernelCache => running' = running
<1> USE DEF kernelState, cache, locals, walk, question
<1>1. CASE ReloadMeanwhile
    BY <1>1 DEF ReloadMeanwhile, Reload
<1>2. CASE Step
    BY <1>2 DEF Step, CacheStep, FindSlide, RegisterFinders, KernelInit, KernelDeinit, LoadInfo,
                Hit, RemoveOutdated, Miss, Create, Insert, InsertFails, InsertWild, KextRelease
<1>3. CASE \E i \in Ids : CallKernelKext(i) \/ KextIdFindSymbol(i) \/ SearchKext(i)
    BY <1>3 DEF CallKernelKext, KextIdFindSymbol, SearchKext, KernelKext
<1>4. CASE \E a \in Addresses : KernelKextContainingAddress(a)
    BY <1>4 DEF KernelKextContainingAddress, KernelKext
<1>5. CASE TakeKext \/ FindSymbol \/ Searched \/ KextForEach \/ SearchKernel \/ SearchEnds \/ UNCHANGED vars
    BY <1>5 DEF TakeKext, FindSymbol, Searched, KextForEach, SearchKernel, SearchEnds, vars, cacheVars
<1> QED
    BY <1>1, <1>2, <1>3, <1>4, <1>5 DEF Next

LEMMA StepFromCache ==
    ASSUME KextInv, [Next]_vars
    PROVE  FromCache'
<1>1. build' = build /\ (KernelCache => running' = running)
    BY BuildKept
<1> SUFFICES ASSUME KernelCache, NEW s \in Slots, heap'[s] # Unused
             PROVE  heap'[s].load = running[heap'[s].id]
    BY <1>1 DEF FromCache, Live, KernelCache
<1>2. CASE Live(s)
    <2>1. heap[s].load = running[heap[s].id]
        BY <1>2 DEF KextInv, FromCache
    <2> QED
        BY <1>2, <2>1, StructsKept
<1>3. CASE ~Live(s)
    <2>1. pc = "create" /\ NewStruct(s)
        BY <1>3, StructsMade DEF Live
    <2> DEFINE info == [id |-> id, load |-> running[id], slide |-> kernelSlide,
                        refcount |-> 1, outdated |-> FALSE]
    <2>2. heap' = [heap EXCEPT ![s] = info]
        BY <2>1 DEF NewStruct
    <2>3. info.id = id /\ info.load = running[id]
        OBVIOUS
    <2> HIDE DEF info
    <2>4. heap'[s] = info
        BY <2>2 DEF KextInv, Types
    <2> QED
        BY <2>3, <2>4
<1> QED
    BY <1>2, <1>3

LEMMA StepAim ==
    ASSUME KextInv, [Next]_vars
    PROVE  Aim'
<1> USE DEF kernelState, cache, locals, walk, question, Calls, KernelCache
<1>0. Locals /\ Stops /\ Aim
    BY DEF KextInv
<1>1. CASE ReloadMeanwhile
    <2>1. /\ UNCHANGED <<build, kernelSlide, pc, op, id, li, got, asked>>
          /\ ~KernelCache
          /\ op = "containing" /\ ~reloaded' => ~reloaded /\ running'[id] = running[id]
        BY <1>1 DEF ReloadMeanwhile, Reload
    <2> QED
        BY <1>0, <2>1 DEF Aim, Within
<1>2. CASE Step /\ (FindSlide \/ RegisterFinders \/ KernelInit \/ KernelDeinit)
    BY <1>0, <1>2 DEF Step, FindSlide, RegisterFinders, KernelInit, KernelDeinit, Aim, Stops
<1>3. CASE Step /\ LoadInfo
    <2>1. CASE Return(NoKext)
        BY <1>0, <1>3, <2>1 DEF Step, LoadInfo, Return, Aim, Within
    <2>2. CASE li' = [load |-> running[id], slide |-> kernelSlide] /\ pc' = "search"
        <3>1. li'.load = running[id] /\ li'.slide = kernelSlide
            BY <2>2
        <3>2. UNCHANGED <<build, running, kernelSlide, id, op, asked, reloaded>> /\ pc = "load_info"
            BY <1>3, <2>2 DEF Step, LoadInfo, Return
        <3> QED
            BY <1>0, <2>2, <3>1, <3>2 DEF Aim, Within
    <2> QED
        BY <1>3, <2>1, <2>2 DEF LoadInfo
<1>4. CASE Step /\ (Hit \/ RemoveOutdated \/ Miss \/ Create \/ Insert \/ InsertFails \/ InsertWild)
    <2>1. /\ UNCHANGED <<build, running, kernelSlide, id, li, op, asked, reloaded>>
          /\ pc \in {"search", "create", "insert"} /\ pc' # "load_info"
        BY <1>4, CreateCases
        DEF Step, Hit, RemoveOutdated, Miss, Create, Insert, InsertFails, InsertWild, Return, NewStruct
    <2> QED
        BY <1>0, <2>1 DEF Aim, Within
<1>5. CASE Step /\ \E s \in Slots : KextRelease(s)
    BY <1>0, <1>5 DEF Step, KextRelease, Aim, Stops
<1>6. CASE \E i \in Ids : CallKernelKext(i) \/ KextIdFindSymbol(i) \/ SearchKext(i)
    BY <1>0, <1>6 DEF CallKernelKext, KextIdFindSymbol, SearchKext, Aim, Stops
<1>7. CASE \E a \in Addresses : KernelKextContainingAddress(a)
    <2>1. PICK a \in Addresses : KernelKextContainingAddress(a)
        BY <1>7
    <2>2. /\ Within(a, running[id'], kernelSlide) /\ asked' = a
          /\ UNCHANGED <<build, running, kernelSlide>>
          /\ pc' = IF KernelCache THEN "search" ELSE "load_info"
        BY <2>1 DEF KernelKextContainingAddress, KernelKext, InKext
    <2> QED
        BY <2>2 DEF Aim, Within
<1>8. CASE TakeKext \/ FindSymbol \/ Searched \/ KextForEach \/ SearchKernel \/ SearchEnds
    <2>1. op' # "containing"
        BY <1>0, <1>8 DEF TakeKext, FindSymbol, Searched, KextForEach, SearchKernel, SearchEnds, Stops
    <2> QED
        BY <2>1 DEF Aim
<1>9. CASE UNCHANGED vars
    BY <1>0, <1>9 DEF vars, cacheVars, Aim, Within
<1> QED
    BY <1>1, <1>2, <1>3, <1>4, <1>5, <1>6, <1>7, <1>8, <1>9 DEF Next, CacheStep, Step

-----------------------------------------------------------------------------
(* The invariant, and what follows from it. *)

LEMMA InitialKexts ==
    ASSUME Init
    PROVE  KextInv
<1> USE DEF Init, CacheInit
<1>1. Types /\ Locals
    BY Constants DEF Types, Locals, Calls, NoLoad
<1>2. Counts
    BY Constants DEF Counts, RefcountExact, Outside, Live, OnItsWay
<1>3. Finders /\ Stops /\ Array /\ Fitting /\ FromCache /\ Aim
    BY DEF Finders, Stops, Array, Current, Ordered, Placed, Fitting, FromCache, Live, Aim
<1> QED
    BY <1>1, <1>2, <1>3 DEF KextInv

LEMMA KextInvariant == Spec => []KextInv
<1>1. Init => KextInv
    BY InitialKexts
<1>2. KextInv /\ [Next]_vars => KextInv'
    BY StepControl, StepCounts, StepArray, StepFitting, StepFromCache, StepAim DEF KextInv
<1> QED
    BY <1>1, <1>2, PTL DEF Spec

(***************************************************************************)
(* kext_release: refcounts are exact and nothing leaks, whatever fails and *)
(* whatever the system loads meanwhile; and no operation on kexts leaves   *)
(* the error stack stopped.                                                *)
(***************************************************************************)
THEOREM KextsBalanced == Spec => []Balanced
<1>1. KextInv => Balanced
    <2> SUFFICES ASSUME KextInv PROVE Balanced
        OBVIOUS
    <2>1. NoLeak
        <3> SUFFICES ASSUME NEW s \in Slots, heap[s] # Unused, s \notin InArray, s \notin lost
                     PROVE  held[s] + OnItsWay(s) > 0
            BY DEF NoLeak
        <3>1. /\ heap[s].refcount = held[s] + OnItsWay(s) /\ held[s] \in Nat
              /\ s = ki \/ heap[s].refcount > 0
            BY DEF KextInv, Types, Counts, RefcountExact, Outside, Live
        <3>2. s = ki => OnItsWay(s) = 1
            BY DEF OnItsWay
        <3> QED
            BY <3>1, <3>2
    <2> QED
        BY <2>1 DEF Balanced, KextInv, Counts, Stops
<1> QED
    BY <1>1, KextInvariant, PTL

(***************************************************************************)
(* The array of kexts is sorted by bundle ID, without repetitions, and     *)
(* holds no struct that is freed or outdated: what binary_search needs.    *)
(***************************************************************************)
THEOREM KextsSorted == Spec => []Sorted
<1>1. KextInv => Sorted
    <2> SUFFICES ASSUME KextInv PROVE Sorted
        OBVIOUS
    <2>1. pc = "insert" =>
             /\ \A i \in DOMAIN kexts : heap[kexts[i]].id # id
             /\ \A i \in DOMAIN kexts : i < index <=> heap[kexts[i]].id < id
        <3> SUFFICES ASSUME pc = "insert", NEW i \in DOMAIN kexts
                     PROVE  /\ heap[kexts[i]].id # id
                            /\ i < index <=> heap[kexts[i]].id < id
            OBVIOUS
        <3>1. kexts[i] \in Slots /\ Live(kexts[i]) /\ Types /\ id \in Nat
            BY Constants DEF KextInv, Types, Array, Current
        <3>2. heap[kexts[i]].id \in Nat
            BY <3>1, LiveStruct, Constants
        <3>3. IF i < index THEN heap[kexts[i]].id < id ELSE id < heap[kexts[i]].id
            BY DEF KextInv, Array, Placed
        <3> QED
            BY <3>1, <3>2, <3>3
    <2> QED
        BY <2>1 DEF Sorted, KextInv, Array, Current, Ordered, Live
<1> QED
    BY <1>1, KextInvariant, PTL

(***************************************************************************)
(* kernel_kext answers with the kext it was asked for, in the load that    *)
(* the system reported during the call.                                    *)
(***************************************************************************)
THEOREM KextsAnswered == Spec => []Answered
<1>1. KextInv => Answered
    BY DEF KextInv, Fitting, Fits, Answered
<1> QED
    BY <1>1, KextInvariant, PTL

(***************************************************************************)
(* A kernel image has its symbol finders exactly once, however many        *)
(* initializations of it failed.                                           *)
(***************************************************************************)
THEOREM FindersRegistered == Spec => []FindersReady
<1>1. KextInv => FindersReady
    BY DEF KextInv, Finders, FindersReady
<1> QED
    BY <1>1, KextInvariant, PTL

(***************************************************************************)
(* kernel_kext_containing_address finds the kext that has the address, or  *)
(* the kext was loaded anew meanwhile, or it is in a kernelcache and its   *)
(* struct is older than the kernel slide.                                  *)
(***************************************************************************)
THEOREM AddressFoundRight == Spec => []FoundRight
<1>1. KextInv => FoundRight
    <2> SUFFICES ASSUME KextInv, pc = "returned", op = "containing", got # NoKext, ~reloaded,
                        ~(KernelCache /\ heap[got].slide # kernelSlide)
                 PROVE  Within(asked, heap[got].load, heap[got].slide)
        BY DEF FoundRight
    <2>1. Fits(got) /\ got \in Slots
        BY DEF KextInv, Fitting, Fits
    <2>2. CASE KernelCache
        <3>1. Within(asked, running[id], kernelSlide)
            BY <2>2 DEF KextInv, Aim, Calls
        <3>2. heap[got].load = running[id] /\ heap[got].slide = kernelSlide
            BY <2>1, <2>2 DEF KextInv, FromCache, Fits
        <3> QED
            BY <3>1, <3>2
    <2>3. CASE ~KernelCache
        <3>1. Within(asked, li.load, li.slide)
            BY <2>3 DEF KextInv, Aim
        <3> QED
            BY <2>1, <2>3, <3>1 DEF Fits
    <2> QED
        BY <2>2, <2>3
<1> QED
    BY <1>1, KextInvariant, PTL

(***************************************************************************)
(* While a client holds a kext, kernel_kext and kext_release leave its     *)
(* struct and its addresses alone.                                         *)
(***************************************************************************)
THEOREM HeldKextsStable == Spec => HeldStable
<1> DEFINE Still == \A s \in Slots : held[s] > 0 /\ held'[s] > 0 =>
                       /\ heap'[s].id = heap[s].id
                       /\ heap'[s].load = heap[s].load
                       /\ heap'[s].slide = heap[s].slide
<1>1. KextInv /\ KextInv' /\ [Next]_vars => [Still]_cacheVars
    <2> SUFFICES ASSUME KextInv, KextInv', [Next]_vars, NEW s \in Slots,
                        held[s] > 0, held'[s] > 0
                 PROVE  /\ heap'[s].id = heap[s].id
                        /\ heap'[s].load = heap[s].load
                        /\ heap'[s].slide = heap[s].slide
        OBVIOUS
    <2>1. /\ heap[s] = Unused => held[s] + OnItsWay(s) = 0
          /\ heap'[s] = Unused => held'[s] + OnItsWay(s)' = 0
        BY DEF KextInv, Counts, RefcountExact
    <2>2. OnItsWay(s) \in {0, 1} /\ OnItsWay(s)' \in {0, 1}
        BY DEF OnItsWay
    <2>3. held[s] \in Nat /\ held'[s] \in Nat
        BY DEF KextInv, Types
    <2>4. heap[s] # Unused /\ heap'[s] # Unused
        BY <2>1, <2>2, <2>3
    <2> QED
        BY <2>4, StructsKept DEF Live
<1> QED
    BY <1>1, KextInvariant, PTL DEF Spec, HeldStable

=============================================================================
