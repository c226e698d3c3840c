------------------------- MODULE MemoryCommandsProofs -------------------------
(***************************************************************************)
(* What holds of the commands that read kernel memory for any memory, any  *)
(* page size and word, and any range: the accesses that are made are those *)
(* that the checks allow, and what is printed is what was asked for.       *)
(***************************************************************************)
EXTENDS MemoryCommands, FiniteSetTheorems, SequenceTheorems, WellFoundedInduction, TLAPS

-----------------------------------------------------------------------------
(* The inductive invariant. *)

Transferring == {"perform", "range", "ranged", "transfer"}
Active == {"loop"} \cup Transferring
Results == {"success", "error", "unmapped", "protection", "inaccessible"}

IoType == [start : Nat, address : Nat, left : Nat, next : Nat, result : Results]
RangeType == [address : Nat, left : Nat, size : Nat, access : 0 .. Word]
TxType == [address : Nat, left : Nat, access : 0 .. Word]
DataType == [-Word .. PageSize - 1 -> Int]

(* What the variables hold; there is a memory while a command runs. *)
Types ==
    /\ pc \in {"command", "end"} \cup Active
    /\ outcome \in {"running", "success", "failure", "interrupted"}
    /\ pc # "end" <=> outcome = "running"
    /\ io \in IoType /\ range \in RangeType /\ tx \in TxType /\ data \in DataType
    /\ cursor \in Nat /\ size \in Nat
    /\ pc \in Active => /\ kind \in Kinds /\ access \in 0 .. Word
                        /\ mem \in [0 .. Pages - 1 -> PageType]
                        /\ command.name \in Readers \cup {"f"}
                        /\ command.start \in Nat /\ command.end \in 0 .. Top

(* How many bytes the command has asked for, from its cursor on. *)
Wanted == IF command.name = "f" THEN Least(command.end - cursor, PageSize)
          ELSE Least(size, PageSize)

(* No address is beyond the memory, and no byte beyond the buffer. *)
Placed ==
    /\ pc \in Active => IF command.name = "f" THEN RangeTooSmall \/ cursor < command.end
                        ELSE cursor + size <= command.end
    /\ pc \in Transferring =>
          /\ command.name = "f" => cursor < command.end
          /\ io.start = cursor /\ io.start <= io.address
          /\ io.address + io.left <= cursor + Wanted
    /\ pc \in {"range", "ranged"} => range.address = io.address + range.size
    /\ pc = "range" => range.size + range.left = io.left
    /\ pc = "ranged" => range.size <= io.left
    /\ pc = "transfer" => /\ io.address <= tx.address
                          /\ tx.address + tx.left <= io.address + io.left

(* What a range function has let pass, with the access width it found. *)
Fits(region, width) == region = Ordinary \/ (region = width /\ width # 0)
Passes(page, width) ==
    CASE kind = "heap" -> IsHeap(page)
      [] kind = "safe" -> LooksSafe(page) /\ mem[page].mapped
      [] kind = "all" -> /\ mem[page].mapped
                         /\ access = 0 => /\ Fits(mem[page].virtual, width)
                                          /\ Fits(mem[page].physical, width)
      [] kind = "physical_safe" -> mem[page].cache = "plain"
      [] OTHER -> TRUE
AllPass(from, to, width) == \A a \in from .. to - 1 : Passes(PageOf(a), width)

Passed ==
    /\ pc \in {"range", "ranged"} => AllPass(io.address, range.address, range.access)
    /\ pc = "transfer" =>
          /\ AllPass(tx.address, tx.address + tx.left, tx.access)
          /\ access # 0 => tx.access = access

(* The bytes that have been transferred are in their places, or were in a  *)
(* page whose transfer failed and ended the read.                          *)
Reached == IF pc = "transfer" THEN tx.address ELSE io.address
Filled ==
    pc \in Transferring =>
        \A i \in 0 .. Reached - cursor - 1 : data[i] = cursor + i \/ cursor + i \in Unread

(* What has been printed is all that is behind the cursor, but for rs; and *)
(* no command goes on after a failed read.                                 *)
Printed ==
    /\ pc = "command" => out = <<>> /\ line = <<>> /\ Succeeded
    /\ pc \in Active \cup {"end"} /\ command.name \in Readers \ {"rb"} =>
          /\ out \in Seq(Int) /\ line \in Seq(Int)
          /\ \A i \in DOMAIN (out \o line) : Right((out \o line)[i], command.start + i - 1)
          /\ pc = "loop" => Succeeded
          /\ pc \in Active =>
                /\ cursor = command.start + Len(out \o line)
                /\ size = command.end - cursor
          /\ command.name = "ri" => Len(out) % Instruction = 0
          /\ (command.name # "rd" \/ size = 0) => line = <<>>

MemInv == Types /\ Placed /\ Passed /\ Filled /\ Printed /\ OutputFaithful
-----------------------------------------------------------------------------
(* Addresses, pages and runs of pages. *)

LEMMA Sizes ==
    /\ PageSize \in Nat \ {0} /\ Word \in 1 .. PageSize /\ Word \in Nat /\ Pages \in Nat \ {0}
    /\ Top \in Nat /\ Top = Pages * PageSize
BY PageSizeAssumption, WordAssumption, PagesAssumption DEF Top

LEMMA PageBounds ==
    ASSUME NEW a \in Nat
    PROVE  /\ PageOf(a) \in Nat
           /\ PageSize * PageOf(a) <= a /\ a < PageSize * PageOf(a) + PageSize
           /\ NextPage(a) \in Nat /\ NextPage(a) = PageSize * PageOf(a) + PageSize
           /\ a < NextPage(a)
<1>1. PageSize \in Nat \ {0}
    BY Sizes
<1>2. PageOf(a) \in Nat
    BY <1>1, Z3 DEF PageOf
<1>3. PageSize * PageOf(a) <= a /\ a < PageSize * PageOf(a) + PageSize
    BY <1>1, Z3 DEF PageOf
<1>4. NextPage(a) = PageSize * PageOf(a) + PageSize
    BY <1>1, <1>2, Z3 DEF NextPage
<1> QED
    BY <1>1, <1>2, <1>3, <1>4

(* An address before the end of a page is in it or before it. *)
LEMMA PageBefore ==
    ASSUME NEW a \in Nat, NEW n \in Nat, a < PageSize * n
    PROVE  PageOf(a) < n
<1> DEFINE k == PageOf(a)
<1>1. /\ PageSize \in Nat \ {0} /\ k \in Nat /\ PageSize * k <= a
    BY PageBounds, Sizes
<1> HIDE DEF k
<1> SUFFICES ASSUME ~ (k < n) PROVE FALSE
    BY <1>1 DEF k
<1>2. n <= k
    BY <1>1
<1>3. PageSize * n <= PageSize * k
    BY <1>1, <1>2
<1>4. PageSize * n \in Int /\ PageSize * k \in Int
    BY <1>1
<1> QED
    BY <1>1, <1>3, <1>4

LEMMA PageAfter ==
    ASSUME NEW a \in Nat, NEW n \in Nat, PageSize * n <= a
    PROVE  n <= PageOf(a)
<1> DEFINE k == PageOf(a)
<1>1. /\ PageSize \in Nat \ {0} /\ k \in Nat /\ a < PageSize * k + PageSize
    BY PageBounds, Sizes
<1> HIDE DEF k
<1> SUFFICES ASSUME ~ (n <= k) PROVE FALSE
    BY <1>1 DEF k
<1>2. k + 1 <= n
    BY <1>1
<1>3. PageSize * (k + 1) <= PageSize * n
    BY <1>1, <1>2
<1>4. PageSize * (k + 1) = PageSize * k + PageSize
    BY <1>1
<1>5. PageSize * n \in Int /\ PageSize * k \in Int
    BY <1>1
<1> QED
    BY <1>1, <1>3, <1>4, <1>5

LEMMA PagesInOrder ==
    ASSUME NEW a \in Nat, NEW b \in Nat, a <= b
    PROVE  /\ PageOf(a) <= PageOf(b)
           /\ b < NextPage(a) => PageOf(b) = PageOf(a)
<1>1. PageOf(a) \in Nat /\ PageOf(b) \in Nat /\ PageSize * PageOf(a) <= a
      /\ NextPage(a) = PageSize * (PageOf(a) + 1)
    <2>1. PageSize \in Nat /\ PageOf(a) \in Nat /\ NextPage(a) = PageSize * PageOf(a) + PageSize
        BY PageBounds, Sizes
    <2>2. PageSize * (PageOf(a) + 1) = PageSize * PageOf(a) + PageSize
        BY <2>1
    <2> QED
        BY <2>1, <2>2, PageBounds
<1>2. PageSize * PageOf(a) <= b
    <2>1. PageSize * PageOf(a) \in Int
        BY <1>1, Sizes
    <2> QED
        BY <1>1, <2>1
<1>3. PageOf(a) <= PageOf(b)
    BY <1>1, <1>2, PageAfter
<1>4. ASSUME b < NextPage(a) PROVE PageOf(b) = PageOf(a)
    <2>1. PageOf(b) < PageOf(a) + 1
        BY <1>1, <1>4, PageBefore
    <2> QED
        BY <1>1, <1>3, <2>1
<1> QED
    BY <1>3, <1>4

LEMMA PageInMemory ==
    ASSUME NEW a \in Nat, a < Top
    PROVE  PageOf(a) \in 0 .. Pages - 1
<1>1. a < PageSize * Pages /\ Pages \in Nat
    BY Sizes
<1>2. PageOf(a) < Pages /\ PageOf(a) \in Nat
    BY <1>1, PageBefore, PageBounds
<1> QED
    BY <1>1, <1>2

(* A set of numbers that is not empty has a least one ... *)
LEMMA LeastOf ==
    ASSUME NEW S \in SUBSET Nat, S # {}
    PROVE  Min(S) \in S /\ \A y \in S : Min(S) <= y
<1>1. PICK x \in S : \A y \in S : ~ (<<y, x>> \in OpToRel(<, Nat))
    BY WFMin, NatLessThanWellFounded, Zenon
<1>2. ASSUME NEW y \in S, y < x PROVE <<y, x>> \in OpToRel(<, Nat)
    <2>1. <<y, x>> \in Nat \X Nat
        OBVIOUS
    <2>2. <<y, x>>[1] < <<y, x>>[2]
        BY <1>2
    <2> QED
        BY <2>1, <2>2, Zenon DEF OpToRel
<1>3. \A y \in S : ~ (y < x)
    BY <1>1, <1>2, Zenon
<1>4. \E z \in S : \A y \in S : z <= y
    BY <1>3
<1> QED
    BY <1>4 DEF Min

(* ... and, if it is bounded, a greatest one. *)
LEMMA GreatestOf ==
    ASSUME NEW n \in Nat, NEW S \in SUBSET (0 .. n), S # {}
    PROVE  Max(S) \in S /\ \A y \in S : y <= Max(S)
<1> DEFINE T == {n - x : x \in S}
<1>1. T \in SUBSET Nat /\ T # {}
    <2>1. ASSUME NEW x \in S PROVE n - x \in Nat
        <3>1. x \in 0 .. n
            OBVIOUS
        <3> QED
            BY <3>1
    <2> QED
        BY <2>1
<1>2. Min(T) \in T /\ \A y \in T : Min(T) <= y
    BY <1>1, LeastOf
<1>3. PICK z \in S : Min(T) = n - z
    BY <1>2
<1>4. ASSUME NEW y \in S PROVE y <= z
    <2>1. n - z <= n - y
        BY <1>2, <1>3
    <2>2. y \in 0 .. n /\ z \in 0 .. n
        OBVIOUS
    <2> QED
        BY <2>1, <2>2
<1> QED
    BY <1>4 DEF Max

LEMMA Run ==
    ASSUME NEW p_ \in 0 .. Pages - 1, NEW S \in SUBSET (0 .. Pages - 1)
    PROVE  \E e \in p_ + 1 .. Pages : /\ RunEnd(p_, S) = PageSize * e
                                      /\ \A q \in p_ + 1 .. e - 1 : q \in S
<1> DEFINE out_ == {q \in p_ + 1 .. Pages : q \notin S}
<1>1. Pages \in Nat \ {0}
    BY Sizes
<1>2. out_ \in SUBSET Nat /\ Pages \in out_
    BY <1>1
<1>3. Min(out_) \in out_ /\ \A y \in out_ : Min(out_) <= y
    BY <1>2, LeastOf
<1>4. ASSUME NEW q \in p_ + 1 .. Min(out_) - 1 PROVE q \in S
    <2>1. q \in p_ + 1 .. Pages /\ q < Min(out_)
        BY <1>1, <1>3
    <2>2. q \notin out_
        BY <1>1, <1>3, <2>1
    <2> QED
        BY <2>1, <2>2
<1>5. RunEnd(p_, S) = PageSize * Min(out_)
    BY DEF RunEnd
<1> QED
    BY <1>3, <1>4, <1>5

-----------------------------------------------------------------------------
(* The range functions: each lets some more bytes pass, or none, and goes   *)
(* on or ends, before the end of what was asked for or with the next        *)
(* address that was set when it began.                                      *)

Asks(n, width) ==
    /\ n \in 0 .. range.left /\ width \in 0 .. Word
    /\ range' = [address |-> range.address + n, left |-> range.left - n,
                 size |-> range.size + n, access |-> width]
    /\ AllPass(io.address, range.address + n, width)
    /\ \/ pc' = "range" /\ io' = io
       \/ /\ pc' = "ranged" /\ (range.left > 0 => n < range.left)
          /\ \E next \in Nat, result \in Results :
                /\ io' = [io EXCEPT !.next = next, !.result = result]
                /\ range.left = 0 => next = io.next
    /\ UNCHANGED <<request, tx, data>> /\ UNCHANGED mcVars

RangeAction ==
    \/ RangeComplete \/ RangeWhole \/ RangeOutsideMap \/ RangeHeap \/ RangeSafe
    \/ RangeAllStops \/ RangeAll \/ RangeCache

(* Where the range function looks. *)
LEMMA RangePlace ==
    ASSUME MemInv, At("range")
    PROVE  /\ range.address \in Nat /\ range.left \in Nat /\ range.size \in Nat
           /\ range.access \in 0 .. Word /\ io.address \in Nat /\ io.next \in Nat
           /\ io.address <= range.address /\ range.address + range.left <= Top
           /\ range = [address |-> range.address + 0, left |-> range.left - 0,
                       size |-> range.size + 0, access |-> range.access]
           /\ kind \in Kinds /\ access \in 0 .. Word
           /\ range.left > 0 =>
                 /\ PageOf(range.address) \in 0 .. Pages - 1
                 /\ mem[PageOf(range.address)] \in PageType
           /\ AllPass(io.address, range.address, range.access)
<1>1. /\ pc = "range" /\ Types /\ Placed /\ Passed
    BY DEF MemInv, At
<1>2. /\ range \in [address : Nat, left : Nat, size : Nat, access : 0 .. Word]
      /\ io \in [start : Nat, address : Nat, left : Nat, next : Nat, result : Results]
      /\ cursor \in Nat /\ size \in Nat
    BY <1>1 DEF Types, IoType, RangeType
<1>3. /\ kind \in Kinds /\ access \in 0 .. Word /\ mem \in [0 .. Pages - 1 -> PageType]
      /\ command.end \in 0 .. Top
    BY <1>1 DEF Types, Active, Transferring
<1>4. /\ IF command.name = "f" THEN cursor < command.end ELSE cursor + size <= command.end
      /\ io.address + io.left <= cursor + Wanted
      /\ range.address = io.address + range.size /\ range.size + range.left = io.left
    BY <1>1 DEF Placed, Active, Transferring
<1>5. PageSize \in Nat /\ Top \in Nat
    BY Sizes
<1>6. Wanted \in Int /\ cursor + Wanted <= Top
    <2>1. command.end \in Int /\ command.end <= Top
        BY <1>3, <1>5
    <2>2. CASE command.name = "f"
        <3>1. Wanted = IF command.end - cursor < PageSize THEN command.end - cursor ELSE PageSize
            BY <2>2 DEF Wanted, Least
        <3> QED
            BY <1>2, <1>4, <1>5, <2>1, <2>2, <3>1
    <2>3. CASE command.name # "f"
        <3>1. Wanted = IF size < PageSize THEN size ELSE PageSize
            BY <2>3 DEF Wanted, Least
        <3> QED
            BY <1>2, <1>4, <1>5, <2>1, <2>3, <3>1
    <2> QED
        BY <2>2, <2>3
<1>7. io.address <= range.address /\ range.address + range.left <= Top
    BY <1>2, <1>4, <1>5, <1>6
<1>8. ASSUME range.left > 0
      PROVE  /\ PageOf(range.address) \in 0 .. Pages - 1
             /\ mem[PageOf(range.address)] \in PageType
    <2>1. PageOf(range.address) \in 0 .. Pages - 1
        BY <1>2, <1>5, <1>7, <1>8, PageInMemory
    <2> QED
        BY <1>3, <2>1
<1>9. AllPass(io.address, range.address, range.access)
    BY <1>1 DEF Passed
<1> QED
    BY <1>2, <1>3, <1>7, <1>8, <1>9

(* A range function that ends here has let nothing more pass. *)
LEMMA EndsHere ==
    ASSUME MemInv, At("range"), NEW result \in Results, NEW next \in Nat, RangeEnds(result, next),
           UNCHANGED mcVars, range.left = 0 => next = io.next
    PROVE  Asks(0, range.access)
<1>1. /\ io' = [io EXCEPT !.next = next, !.result = result] /\ pc' = "ranged"
      /\ UNCHANGED <<request, range, tx, data>>
    BY DEF RangeEnds, Goto
<1>2. /\ 0 \in 0 .. range.left /\ range.access \in 0 .. Word
      /\ range' = [address |-> range.address + 0, left |-> range.left - 0,
                   size |-> range.size + 0, access |-> range.access]
      /\ (range.left > 0 => 0 < range.left)
    BY <1>1, RangePlace
<1>3. AllPass(io.address, range.address + 0, range.access)
    <2>1. range.address + 0 = range.address
        BY RangePlace
    <2> QED
        BY <2>1, RangePlace
<1> QED
    BY <1>1, <1>2, <1>3 DEF Asks

(* Two ranges that pass are one. *)
LEMMA Joined ==
    ASSUME NEW from \in Nat, NEW to \in Nat, NEW n \in Nat, NEW width, from <= to,
           AllPass(from, to, width), AllPass(to, to + n, width)
    PROVE  AllPass(from, to + n, width)
<1>1. \A a \in from .. (to + n) - 1 : a \in from .. to - 1 \/ a \in to .. (to + n) - 1
    OBVIOUS
<1>2. \A a : a \in from .. to - 1 => Passes(PageOf(a), width)
    BY DEF AllPass
<1>3. \A a : a \in to .. (to + n) - 1 => Passes(PageOf(a), width)
    BY DEF AllPass
<1>4. \A a \in from .. (to + n) - 1 : Passes(PageOf(a), width)
    BY <1>1, <1>2, <1>3
<1> QED
    BY <1>4 DEF AllPass

(* One that goes on has looked at what it lets pass. *)
LEMMA GoesOn ==
    ASSUME MemInv, At("range"), NEW n \in 0 .. range.left, NEW width \in 0 .. Word,
           RangeGrows(n, width), UNCHANGED mcVars,
           AllPass(io.address, range.address, width),
           AllPass(range.address, range.address + n, width)
    PROVE  Asks(n, width)
<1>1. /\ io' = io /\ pc' = "range" /\ UNCHANGED <<request, tx, data>>
      /\ range' = [address |-> range.address + n, left |-> range.left - n,
                   size |-> range.size + n, access |-> width]
    BY DEF RangeGrows, At
<1>2. AllPass(io.address, range.address + n, width)
    <2>1. io.address \in Nat /\ range.address \in Nat /\ io.address <= range.address
          /\ range.left \in Nat
        BY RangePlace
    <2>2. n \in Nat
        BY <2>1
    <2> QED
        BY <2>1, <2>2, Joined
<1> QED
    BY <1>1, <1>2 DEF Asks

(* What passes whatever the width the access has. *)
LEMMA AnyWidth ==
    ASSUME NEW page, NEW v, NEW w, kind # "all", Passes(page, v)
    PROVE  Passes(page, w)
BY DEF Passes

(* All addresses of a piece are in the page that is looked at. *)
LEMMA PiecePasses ==
    ASSUME MemInv, At("range"), range.left > 0, NEW width, Passes(PageOf(range.address), width)
    PROVE  PieceSize \in 0 .. range.left /\ AllPass(range.address, range.address + PieceSize, width)
<1> DEFINE here == range.address
<1>1. here \in Nat /\ range.left \in Nat /\ NextPage(here) \in Nat /\ here < NextPage(here)
    BY RangePlace, PageBounds
<1>2. PieceSize = IF range.left < NextPage(here) - here THEN range.left ELSE NextPage(here) - here
    BY DEF PieceSize, Least
<1>3. PieceSize \in 0 .. range.left /\ here + PieceSize <= NextPage(here)
    BY <1>1, <1>2
<1>4. ASSUME NEW a \in here .. (here + PieceSize) - 1 PROVE Passes(PageOf(a), width)
    <2>1. a \in Nat /\ here <= a /\ a < NextPage(here)
        BY <1>1, <1>3
    <2>2. PageOf(a) = PageOf(here)
        BY <1>1, <2>1, PagesInOrder
    <2> QED
        BY <2>2
<1> QED
    BY <1>3, <1>4 DEF AllPass

LEMMA RangeWholeAsks ==
    ASSUME MemInv, RangeWhole, UNCHANGED mcVars
    PROVE  \E n, width : Asks(n, width)
<1>1. At("range") /\ kind \in {"unsafe", "physical_unsafe"} /\ RangeGrows(range.left, 0)
    BY DEF RangeWhole
<1>2. range.left \in 0 .. range.left /\ 0 \in 0 .. Word
    BY <1>1, RangePlace, Sizes
<1>3. \A page, w : Passes(page, w)
    BY <1>1 DEF Passes
<1> QED
    BY <1>1, <1>2, <1>3, GoesOn DEF AllPass

LEMMA RangeCompleteAsks ==
    ASSUME MemInv, RangeComplete, UNCHANGED mcVars
    PROVE  \E n, width : Asks(n, width)
<1>1. At("range") /\ RangeEnds("success", io.next)
    BY DEF RangeComplete
<1> QED
    BY <1>1, EndsHere, RangePlace DEF Results

LEMMA RangeCacheAsks ==
    ASSUME MemInv, RangeCache, UNCHANGED mcVars
    PROVE  \E n, width : Asks(n, width)
<1> DEFINE here == range.address
<1>1. At("range") /\ kind = "physical_safe" /\ range.left > 0
    BY DEF RangeCache
<1>2. here \in Nat /\ NextPage(here) \in Nat /\ io.next \in Nat /\ 0 \in 0 .. Word
      /\ AllPass(io.address, here, range.access)
    BY <1>1, RangePlace, PageBounds, Sizes
<1>3. CASE RangeEnds("success", io.next) \/ RangeEnds("protection", NextPage(here))
    BY <1>1, <1>2, <1>3, EndsHere DEF Results
<1>4. CASE mem[PageOf(here)].cache = "plain" /\ RangeGrows(PieceSize, 0)
    <2>1. Passes(PageOf(here), 0)
        BY <1>1, <1>4 DEF Passes
    <2>2. AllPass(io.address, here, 0)
        BY <1>1, <1>2, AnyWidth DEF AllPass
    <2>3. PieceSize \in 0 .. range.left /\ AllPass(here, here + PieceSize, 0)
        BY <1>1, <2>1, PiecePasses
    <2> QED
        BY <1>1, <1>2, <1>4, <2>2, <2>3, GoesOn
<1> QED
    BY <1>3, <1>4 DEF RangeCache

(* The piece has the width of its page, and the bytes before had it or none. *)
LEMMA RangeAllAsks ==
    ASSUME MemInv, RangeAll, UNCHANGED mcVars
    PROVE  \E n, width : Asks(n, width)
<1> DEFINE here == range.address
           page == mem[PageOf(here)]
<1>1. /\ At("range") /\ kind = "all" /\ range.left > 0
      /\ ~ Barred(page.virtual) /\ page.mapped /\ ~ Barred(page.physical)
      /\ page.physical # Ordinary => VirtualAccess \in {0, page.physical}
      /\ IF PhysicalAccess # range.access /\ range.access # 0
         THEN RangeEnds("success", here)
         ELSE RangeGrows(PieceSize, PhysicalAccess)
    BY DEF RangeAll
<1>2. here \in Nat /\ range.access \in 0 .. Word /\ page \in PageType
      /\ AllPass(io.address, here, range.access)
    BY <1>1, RangePlace
<1>3. /\ VirtualAccess = (IF page.virtual # Ordinary THEN page.virtual ELSE 0)
      /\ PhysicalAccess = (IF page.physical = Ordinary THEN VirtualAccess ELSE page.physical)
    BY DEF VirtualAccess, PhysicalAccess, InSpecial
<1>4. page.virtual \in {Ordinary} \cup 0 .. Word /\ page.physical \in {Ordinary} \cup 0 .. Word
    BY <1>2 DEF PageType
<1>5. PhysicalAccess \in 0 .. Word
    BY <1>3, <1>4, Sizes
<1>6. CASE RangeEnds("success", here)
    BY <1>1, <1>2, <1>6, EndsHere DEF Results
<1>7. CASE ~ (PhysicalAccess # range.access /\ range.access # 0)
    <2> DEFINE w == PhysicalAccess
    <2>1. Passes(PageOf(here), w)
        <3>1. ASSUME access = 0 PROVE Fits(page.virtual, w) /\ Fits(page.physical, w)
            <4>1. page.virtual # 0 /\ page.physical # 0
                BY <1>1, <3>1 DEF Barred
            <4> QED
                BY <1>1, <1>3, <1>4, <4>1, OrdinaryAssumption DEF Fits
        <3> QED
            BY <1>1, <3>1 DEF Passes
    <2>2. AllPass(io.address, here, w)
        <3>1. \A v : Fits(v, range.access) => Fits(v, w)
            BY <1>7 DEF Fits
        <3>2. \A q : Passes(q, range.access) => Passes(q, w)
            BY <1>1, <3>1 DEF Passes
        <3> QED
            BY <1>2, <3>2 DEF AllPass
    <2>3. PieceSize \in 0 .. range.left /\ AllPass(here, here + PieceSize, w)
        BY <1>1, <2>1, PiecePasses
    <2> QED
        BY <1>1, <1>5, <1>7, <2>2, <2>3, GoesOn
<1> QED
    BY <1>1, <1>6, <1>7

LEMMA RangeAllStopsAsks ==
    ASSUME MemInv, RangeAllStops, UNCHANGED mcVars
    PROVE  \E n, width : Asks(n, width)
<1> DEFINE here == range.address
<1>1. /\ At("range") /\ range.left > 0
      /\ \/ RangeEnds("inaccessible", SpecialEnd)
         \/ RangeEnds("unmapped", NextPage(here))
         \/ RangeEnds("inaccessible", NextPage(here))
    BY DEF RangeAllStops
<1>2. /\ here \in Nat /\ PageOf(here) \in 0 .. Pages - 1 /\ NextPage(here) \in Nat
    BY <1>1, RangePlace, PageBounds
<1>3. SpecialEnd \in Nat
    <2> DEFINE alike == {q \in 0 .. Pages - 1 : mem[q].virtual = mem[PageOf(here)].virtual}
    <2>1. SpecialEnd = RunEnd(PageOf(here), alike) /\ alike \in SUBSET (0 .. Pages - 1)
        BY DEF SpecialEnd
    <2> HIDE DEF alike
    <2>2. PICK e \in PageOf(here) + 1 .. Pages : RunEnd(PageOf(here), alike) = PageSize * e
        BY <1>2, <2>1, Run
    <2>3. e \in Nat /\ PageSize \in Nat
        BY <1>2, Sizes
    <2> QED
        BY <2>1, <2>2, <2>3
<1> QED
    BY <1>1, <1>2, <1>3, EndsHere DEF Results


(* A region of the map ends with a page. *)
LEMMA RegionRun ==
    ASSUME NEW q \in 0 .. Pages - 1
    PROVE  \E e \in q + 1 .. Pages :
              /\ RegionEnd(q) = PageSize * e /\ RegionEnd(q) \in Nat
              /\ \A r \in q + 1 .. e - 1 : r \in 0 .. Pages - 1 /\ mem[r].vm = mem[q].vm
<1> DEFINE alike == {r \in 0 .. Pages - 1 : mem[r].vm = mem[q].vm}
<1>1. RegionEnd(q) = RunEnd(q, alike) /\ alike \in SUBSET (0 .. Pages - 1)
    BY DEF RegionEnd
<1>2. \A r \in alike : r \in 0 .. Pages - 1 /\ mem[r].vm = mem[q].vm
    OBVIOUS
<1> HIDE DEF alike
<1>3. PICK e \in q + 1 .. Pages : /\ RunEnd(q, alike) = PageSize * e
                                  /\ \A r \in q + 1 .. e - 1 : r \in alike
    BY <1>1, Run
<1>4. PageSize * e \in Nat
    BY Sizes
<1> QED
    BY <1>1, <1>2, <1>3, <1>4

(* What is left of the region here, of which every page looks alike. *)
LEMMA RegionPlace ==
    ASSUME MemInv, At("range"), range.left > 0
    PROVE  /\ ViableSize \in 0 .. range.left /\ ViableSize > 0
           /\ \A a \in range.address .. (range.address + ViableSize) - 1 :
                 /\ a \in Nat /\ PageOf(a) \in 0 .. Pages - 1
                 /\ mem[PageOf(a)].vm = mem[PageOf(range.address)].vm
<1> DEFINE from == range.address
           here == PageOf(from)
<1>1. from \in Nat /\ range.left \in Nat /\ here \in 0 .. Pages - 1 /\ Pages \in Nat
      /\ PageSize \in Nat \ {0}
    BY RangePlace, Sizes
<1>2. PICK e \in here + 1 .. Pages :
              /\ RegionEnd(here) = PageSize * e /\ RegionEnd(here) \in Nat
              /\ \A r \in here + 1 .. e - 1 : r \in 0 .. Pages - 1 /\ mem[r].vm = mem[here].vm
    BY <1>1, RegionRun
<1>3. from < RegionEnd(here)
    <2>1. from < PageSize * here + PageSize
        BY <1>1, PageBounds
    <2>2. PageSize * (here + 1) <= PageSize * e
        BY <1>1
    <2>3. PageSize * (here + 1) = PageSize * here + PageSize
        BY <1>1
    <2>4. PageSize * (here + 1) \in Int /\ PageSize * e \in Int
        BY <1>1
    <2> QED
        BY <1>1, <1>2, <2>1, <2>2, <2>3, <2>4
<1>4. ViableSize = IF range.left < RegionEnd(here) - from THEN range.left
                   ELSE RegionEnd(here) - from
    BY DEF ViableSize, Least
<1>5. ViableSize \in 0 .. range.left /\ ViableSize > 0 /\ from + ViableSize <= RegionEnd(here)
    <2> HIDE DEF here, from
    <2> QED
        BY <1>1, <1>2, <1>3, <1>4
<1>6. ASSUME NEW a \in from .. (from + ViableSize) - 1
      PROVE  a \in Nat /\ PageOf(a) \in 0 .. Pages - 1 /\ mem[PageOf(a)].vm = mem[here].vm
    <2>1. a \in Nat /\ from <= a /\ a < PageSize * e /\ e \in Nat
        BY <1>1, <1>2, <1>5
    <2>2. PageOf(a) < e /\ here <= PageOf(a) /\ PageOf(a) \in Nat
        BY <1>1, <2>1, PageBefore, PagesInOrder, PageBounds
    <2>3. PageOf(a) = here \/ PageOf(a) \in here + 1 .. e - 1
        <3> HIDE DEF here
        <3> QED
            BY <1>1, <2>1, <2>2
    <2> QED
        BY <1>1, <1>2, <2>1, <2>3
<1> QED
    BY <1>5, <1>6

LEMMA RangeHeapAsks ==
    ASSUME MemInv, RangeHeap, UNCHANGED mcVars
    PROVE  \E n, width : Asks(n, width)
<1>1. At("range") /\ kind = "heap" /\ range.left > 0 /\ InViable /\ RangeGrows(ViableSize, 0)
    BY DEF RangeHeap
<1>2. 0 \in 0 .. Word /\ AllPass(io.address, range.address, range.access)
    BY <1>1, RangePlace, Sizes
<1>3. AllPass(io.address, range.address, 0)
    BY <1>1, <1>2, AnyWidth DEF AllPass
<1>4. /\ ViableSize \in 0 .. range.left
      /\ \A a \in range.address .. (range.address + ViableSize) - 1 :
            mem[PageOf(a)].vm = mem[PageOf(range.address)].vm
    BY <1>1, RegionPlace
<1>5. ASSUME NEW a \in range.address .. (range.address + ViableSize) - 1
      PROVE  Passes(PageOf(a), 0)
    BY <1>1, <1>4 DEF InViable, Viable, IsHeap, Passes
<1>6. AllPass(range.address, range.address + ViableSize, 0)
    BY <1>5 DEF AllPass
<1> QED
    BY <1>1, <1>2, <1>3, <1>4, <1>6, GoesOn

(* The range that begins here passes, as far as its pages are mapped. *)
LEMMA RangeSafeAsks ==
    ASSUME MemInv, RangeSafe, UNCHANGED mcVars
    PROVE  \E n, width : Asks(n, width)
<1> DEFINE from == range.address
           here == PageOf(from)
           unmapped == {q \in here .. PageOf((from + ViableSize) - 1) : ~ mem[q].mapped}
           first == Min(unmapped)
           part == IF first * PageSize > from THEN first * PageSize - from ELSE 0
<1>1. At("range") /\ kind = "safe" /\ range.left > 0 /\ InViable
    BY DEF RangeSafe
<1>2. \/ unmapped = {} /\ RangeGrows(ViableSize, 0)
      \/ /\ unmapped # {}
         /\ range' = [range EXCEPT !.address = @ + part, !.left = @ - part, !.size = @ + part]
         /\ io' = [io EXCEPT !.next = (first + 1) * PageSize, !.result = "unmapped"]
         /\ pc' = "ranged"
         /\ UNCHANGED <<request, tx, data>>
    BY DEF RangeSafe, Goto
<1>3. /\ from \in Nat /\ range.left \in Nat /\ range.size \in Nat /\ range.access \in 0 .. Word
      /\ 0 \in 0 .. Word
      /\ here \in 0 .. Pages - 1 /\ PageSize \in Nat \ {0} /\ Pages \in Nat
      /\ range = [address |-> from + 0, left |-> range.left - 0,
                  size |-> range.size + 0, access |-> range.access]
      /\ AllPass(io.address, from, range.access)
      /\ io.address \in Nat /\ io.address <= from
    BY <1>1, RangePlace, Sizes
<1>4. /\ ViableSize \in 0 .. range.left /\ ViableSize > 0
      /\ \A a \in from .. (from + ViableSize) - 1 :
            /\ a \in Nat /\ PageOf(a) \in 0 .. Pages - 1
            /\ mem[PageOf(a)].vm = mem[here].vm
    BY <1>1, RegionPlace
<1>5. (from + ViableSize) - 1 \in Nat /\ from <= (from + ViableSize) - 1
    BY <1>3, <1>4
<1>6. \A w : AllPass(io.address, from, w)
    BY <1>1, <1>3, AnyWidth DEF AllPass
<1>7. ASSUME NEW a \in from .. (from + ViableSize) - 1, NEW w
      PROVE  /\ a \in Nat /\ PageOf(a) \in here .. PageOf((from + ViableSize) - 1)
             /\ mem[PageOf(a)].mapped => Passes(PageOf(a), w)
    <2>1. a \in Nat /\ from <= a /\ a <= (from + ViableSize) - 1
        BY <1>3, <1>4
    <2>2. PageOf(from) <= PageOf(a) /\ PageOf(a) <= PageOf((from + ViableSize) - 1)
        BY <1>3, <1>5, <2>1, PagesInOrder
    <2>3. PageOf(a) \in Int /\ PageOf(from) \in Int /\ PageOf((from + ViableSize) - 1) \in Int
        BY <1>3, <1>5, <2>1, PageBounds
    <2>4. mem[PageOf(a)].mapped => Passes(PageOf(a), w)
        BY <1>1, <1>4 DEF InViable, Viable, LooksSafe, Passes
    <2> QED
        BY <2>1, <2>2, <2>3, <2>4
<1> HIDE DEF from
<1>8. CASE unmapped = {}
    <2>1. ASSUME NEW a \in from .. (from + ViableSize) - 1 PROVE Passes(PageOf(a), 0)
        BY <1>7, <1>8
    <2>2. AllPass(from, from + ViableSize, 0)
        BY <2>1 DEF AllPass
    <2> QED
        BY <1>1, <1>2, <1>3, <1>4, <1>6, <1>8, <2>2, GoesOn DEF from
<1>9. CASE unmapped # {}
    <2>1. unmapped \in SUBSET Nat
        BY <1>3
    <2>2. first \in unmapped /\ \A q \in unmapped : first <= q
        BY <1>9, <2>1, LeastOf
    <2>3. first \in here .. PageOf((from + ViableSize) - 1) /\ first \in Nat
          /\ PageOf((from + ViableSize) - 1) \in Nat
        BY <1>5, <2>1, <2>2, PageBounds
    <2> HIDE DEF unmapped, first
    <2>4. PageSize * first <= (from + ViableSize) - 1 /\ PageSize * first \in Nat
          /\ first * PageSize = PageSize * first /\ (first + 1) * PageSize \in Nat
        <3> DEFINE last == PageOf((from + ViableSize) - 1)
        <3>1. PageSize * last <= (from + ViableSize) - 1
            BY <1>5, PageBounds
        <3>2. last \in Nat /\ first <= last
            BY <2>3
        <3> HIDE DEF last
        <3>3. PageSize * first <= PageSize * last
            BY <1>3, <2>3, <3>2
        <3>4. PageSize * first \in Nat /\ PageSize * last \in Nat
            BY <1>3, <2>3, <3>2
        <3>5. first * PageSize = PageSize * first /\ (first + 1) * PageSize \in Nat
            BY <1>3, <2>3
        <3> QED
            BY <1>5, <3>1, <3>3, <3>4, <3>5
    <2>5. part = IF PageSize * first > from THEN PageSize * first - from ELSE 0
        BY <2>4
    <2> HIDE DEF part
    <2>6. /\ part \in 0 .. range.left /\ part <= ViableSize
          /\ range.left > 0 /\ part < range.left
          /\ from + part <= PageSize * first \/ part = 0
        BY <1>1, <1>3, <1>4, <2>4, <2>5
    <2>7. ASSUME NEW a \in from .. (from + part) - 1 PROVE Passes(PageOf(a), range.access)
        <3>1. a \in from .. (from + ViableSize) - 1 /\ a < PageSize * first
            BY <1>3, <1>4, <2>4, <2>6
        <3>2. PageOf(a) < first
            BY <1>7, <2>3, <3>1, PageBefore
        <3>3. PageOf(a) \in here .. PageOf((from + ViableSize) - 1)
            BY <1>7, <3>1
        <3>4. PageOf(a) \notin unmapped
            BY <1>3, <2>2, <2>3, <3>2, <3>3
        <3>5. mem[PageOf(a)].mapped
            BY <3>3, <3>4 DEF unmapped
        <3> QED
            BY <1>7, <3>1, <3>5
    <2>8. AllPass(from, from + part, range.access)
        BY <2>7 DEF AllPass
    <2>9. AllPass(io.address, from + part, range.access)
        BY <1>3, <1>6, <2>6, <2>8, Joined
    <2>10. range' = [address |-> range.address + part, left |-> range.left - part,
                     size |-> range.size + part, access |-> range.access]
        BY <1>2, <1>3, <1>9 DEF from
    <2>11. "unmapped" \in Results
        BY DEF Results
    <2>12. /\ pc' = "ranged" /\ UNCHANGED <<request, tx, data>>
           /\ io' = [io EXCEPT !.next = (first + 1) * PageSize, !.result = "unmapped"]
        BY <1>2, <1>9
    <2>13. range.left # 0 /\ (range.left > 0 => part < range.left)
        BY <1>3, <2>6
    <2>14. Asks(part, range.access)
        BY <1>3, <2>4, <2>6, <2>9, <2>10, <2>11, <2>12, <2>13 DEF Asks, from
    <2> QED
        BY <2>14
<1> QED
    BY <1>8, <1>9

LEMMA RangeOutsideMapAsks ==
    ASSUME MemInv, RangeOutsideMap, UNCHANGED mcVars
    PROVE  \E n, width : Asks(n, width)
<1> DEFINE here == PageOf(range.address)
           above == {q \in InMap : q >= here}
           first == Min(above)
<1>1. At("range") /\ kind \in {"heap", "safe"} /\ range.left > 0
    BY DEF RangeOutsideMap
<1>2. \/ RangeEnds("error", NextPage(range.address))
      \/ RangeEnds("unmapped", 0)
      \/ above # {} /\ RangeEnds("unmapped",
                                 IF Viable(first) THEN first * PageSize ELSE RegionEnd(first))
      \/ RangeEnds("protection", RegionEnd(here))
    BY DEF RangeOutsideMap
<1>3. /\ range.address \in Nat /\ here \in 0 .. Pages - 1 /\ PageSize \in Nat /\ Pages \in Nat
      /\ NextPage(range.address) \in Nat
    BY <1>1, RangePlace, PageBounds, Sizes
<1>4. above \in SUBSET (0 .. Pages - 1)
    BY DEF InMap
<1>5. ASSUME above # {}
      PROVE  (IF Viable(first) THEN first * PageSize ELSE RegionEnd(first)) \in Nat
    <2>1. above \in SUBSET Nat
        BY <1>3, <1>4
    <2>2. first \in above
        BY <1>5, <2>1, LeastOf
    <2>3. first \in 0 .. Pages - 1
        BY <1>4, <2>2
    <2> HIDE DEF first
    <2>4. RegionEnd(first) \in Nat
        BY <2>3, RegionRun
    <2>5. first * PageSize \in Nat
        BY <1>3, <2>3
    <2> QED
        BY <2>4, <2>5
<1>6. RegionEnd(here) \in Nat
    BY <1>3, RegionRun
<1>7. {"error", "unmapped", "protection"} \subseteq Results /\ 0 \in Nat
    BY DEF Results
<1> HIDE DEF here, above, first
<1>8. CASE RangeEnds("error", NextPage(range.address))
    BY <1>1, <1>3, <1>7, <1>8, EndsHere
<1>9. CASE RangeEnds("unmapped", 0)
    BY <1>1, <1>7, <1>9, EndsHere
<1>10. CASE above # {} /\ RangeEnds("unmapped",
                                    IF Viable(first) THEN first * PageSize ELSE RegionEnd(first))
    <2> DEFINE next == IF Viable(first) THEN first * PageSize ELSE RegionEnd(first)
    <2>1. next \in Nat /\ RangeEnds("unmapped", next)
        BY <1>5, <1>10
    <2> HIDE DEF next
    <2> QED
        BY <1>1, <1>7, <2>1, EndsHere
<1>11. CASE RangeEnds("protection", RegionEnd(here))
    BY <1>1, <1>6, <1>7, <1>11, EndsHere
<1> QED
    BY <1>2, <1>8, <1>9, <1>10, <1>11

(* Whatever range function it is, it lets no byte pass that it may not. *)
LEMMA RangeAsks ==
    ASSUME MemInv, RangeAction, UNCHANGED mcVars
    PROVE  At("range") /\ \E n, width : Asks(n, width)
<1>1. CASE RangeComplete
    BY <1>1, RangeCompleteAsks DEF RangeComplete
<1>2. CASE RangeWhole
    BY <1>2, RangeWholeAsks DEF RangeWhole
<1>3. CASE RangeOutsideMap
    BY <1>3, RangeOutsideMapAsks DEF RangeOutsideMap
<1>4. CASE RangeHeap
    BY <1>4, RangeHeapAsks DEF RangeHeap
<1>5. CASE RangeSafe
    BY <1>5, RangeSafeAsks DEF RangeSafe
<1>6. CASE RangeAllStops
    BY <1>6, RangeAllStopsAsks DEF RangeAllStops
<1>7. CASE RangeAll
    BY <1>7, RangeAllAsks DEF RangeAll
<1>8. CASE RangeCache
    BY <1>8, RangeCacheAsks DEF RangeCache
<1> QED
    BY <1>1, <1>2, <1>3, <1>4, <1>5, <1>6, <1>7, <1>8 DEF RangeAction

-----------------------------------------------------------------------------
(* The steps of a transfer leave the command alone.                         *)

(* Where a transfer is, and how far it may go. *)
LEMMA TransferPlace ==
    ASSUME MemInv, pc \in Transferring
    PROVE  /\ io \in IoType /\ range \in RangeType /\ tx \in TxType /\ data \in DataType
           /\ cursor \in Nat /\ size \in Nat /\ Wanted \in Int /\ Wanted <= PageSize
           /\ cursor + Wanted <= Top /\ access \in 0 .. Word /\ kind \in Kinds
           /\ mem \in [0 .. Pages - 1 -> PageType]
           /\ io.start = cursor /\ cursor <= io.address /\ io.address + io.left <= cursor + Wanted
           /\ \A i \in 0 .. (Reached - cursor) - 1 : data[i] = cursor + i
                                                       \/ cursor + i \in Unread
           /\ Unread = {} => \A i \in 0 .. (Reached - cursor) - 1 : data[i] = cursor + i
           /\ pc # "perform" \/ io.left > 0 => Unread = {}
           /\ command.name # "f" => Wanted <= size
<1>1. Types /\ Placed /\ Filled /\ pc \in Active
    BY DEF MemInv, Active
<1>2. /\ io \in IoType /\ range \in RangeType /\ tx \in TxType /\ data \in DataType
      /\ cursor \in Nat /\ size \in Nat /\ access \in 0 .. Word /\ kind \in Kinds
      /\ mem \in [0 .. Pages - 1 -> PageType] /\ command.end \in 0 .. Top
    BY <1>1 DEF Types
<1>3. /\ IF command.name = "f" THEN cursor < command.end ELSE cursor + size <= command.end
      /\ io.start = cursor /\ cursor <= io.address /\ io.address + io.left <= cursor + Wanted
    BY <1>1 DEF Placed
<1>4. PageSize \in Nat /\ Top \in Nat /\ command.end \in Int /\ command.end <= Top
    BY <1>2, Sizes
<1>5. /\ Wanted \in Int /\ Wanted <= PageSize /\ cursor + Wanted <= Top
      /\ command.name # "f" => Wanted <= size
    <2>1. CASE command.name = "f"
        <3>1. Wanted = IF command.end - cursor < PageSize THEN command.end - cursor ELSE PageSize
            BY <2>1 DEF Wanted, Least
        <3> QED
            BY <1>2, <1>3, <1>4, <2>1, <3>1
    <2>2. CASE command.name # "f"
        <3>1. Wanted = IF size < PageSize THEN size ELSE PageSize
            BY <2>2 DEF Wanted, Least
        <3> QED
            BY <1>2, <1>3, <1>4, <2>2, <3>1
    <2> QED
        BY <2>1, <2>2
<1>6. \A i \in 0 .. (Reached - cursor) - 1 : data[i] = cursor + i \/ cursor + i \in Unread
    BY <1>1 DEF Filled
<1>7. pc # "perform" \/ io.left > 0 => Unread = {}
    BY <1>2 DEF Unread, IoType, Transferring
<1> QED
    BY <1>2, <1>3, <1>5, <1>6, <1>7

LEMMA TransferKeeps ==
    ASSUME MemInv, Unread = {}, pc \in Transferring, pc' \in Transferring,
           UNCHANGED request, UNCHANGED mcVars,
           io' \in IoType, range' \in RangeType, tx' \in TxType, data' \in DataType,
           io'.start = cursor, cursor <= io'.address, io'.address + io'.left <= cursor + Wanted
    PROVE  /\ Types' /\ Printed' /\ OutputFaithful' /\ Wanted' = Wanted /\ cursor' = cursor
           /\ pc' = "perform" => Placed' /\ Passed'
           /\ /\ pc' \in {"range", "ranged"}
              /\ (range.address = io.address + range.size /\ range.size <= io.left)'
              /\ (pc = "range" => range.size + range.left = io.left)'
              => Placed'
           /\ /\ pc' = "transfer"
              /\ (io.address <= tx.address /\ tx.address + tx.left <= io.address + io.left)'
              => Placed'
<1>1. /\ command' = command /\ cursor' = cursor /\ size' = size /\ out' = out /\ line' = line
      /\ outcome' = outcome /\ mem' = mem /\ kind' = kind /\ access' = access
    BY DEF mcVars, request
<1>2. pc \in Active /\ pc' \in Active /\ pc \notin {"end", "command"} /\ pc' \notin {"end", "command"}
      /\ pc \in Transferring /\ pc' # "loop"
    BY DEF Active, Transferring
<1>3. Types'
    BY <1>1, <1>2 DEF MemInv, Types
<1>4. Printed'
    BY <1>1, <1>2 DEF MemInv, Printed, Right
<1>5. OutputFaithful'
    BY <1>1, <1>2 DEF MemInv, Types, OutputFaithful, InOrder, Right
<1>6. Wanted' = Wanted
    BY <1>1 DEF Wanted
<1>7. /\ (pc \in Active => IF command.name = "f" THEN RangeTooSmall \/ cursor < command.end
                           ELSE cursor + size <= command.end)'
      /\ (pc \in Transferring =>
             /\ command.name = "f" => cursor < command.end
             /\ io.start = cursor /\ io.start <= io.address
             /\ io.address + io.left <= cursor + Wanted)'
    BY <1>1, <1>2, <1>6 DEF MemInv, Placed, RangeTooSmall
<1> QED
    BY <1>1, <1>3, <1>4, <1>5, <1>6, <1>7 DEF Placed, Passed

LEMMA RangeKeeps ==
    ASSUME MemInv, RangeAction, UNCHANGED mcVars
    PROVE  MemInv'
<1>1. pc = "range" /\ \E n, width : Asks(n, width)
    BY RangeAsks DEF At
<1>2. PICK n, width : Asks(n, width)
    BY <1>1
<1>3. /\ n \in 0 .. range.left /\ width \in 0 .. Word
      /\ range' = [address |-> range.address + n, left |-> range.left - n,
                   size |-> range.size + n, access |-> width]
      /\ AllPass(io.address, range.address + n, width)
      /\ \/ pc' = "range" /\ io' = io
         \/ /\ pc' = "ranged"
            /\ \E next \in Nat, result \in Results :
                  io' = [io EXCEPT !.next = next, !.result = result]
      /\ UNCHANGED <<request, tx, data>>
    BY <1>2 DEF Asks
<1>4. pc \in Transferring /\ pc' \in Transferring
    BY <1>1, <1>3 DEF Transferring
<1>5. /\ io \in IoType /\ range \in RangeType /\ tx \in TxType /\ data \in DataType
      /\ io.start = cursor /\ cursor <= io.address /\ io.address + io.left <= cursor + Wanted
      /\ cursor \in Nat
      /\ Unread = {} /\ \A i \in 0 .. (Reached - cursor) - 1 : data[i] = cursor + i
    BY <1>1, <1>4, TransferPlace
<1>6. range.address = io.address + range.size /\ range.size + range.left = io.left
    BY <1>1 DEF MemInv, Placed
<1>7. /\ range'.address = range.address + n /\ range'.left = range.left - n
      /\ range'.size = range.size + n /\ range'.access = width
    BY <1>3
<1>8. io' \in IoType /\ io'.start = io.start /\ io'.address = io.address /\ io'.left = io.left
    BY <1>3, <1>5 DEF IoType
<1>9. /\ range.address \in Nat /\ range.left \in Nat /\ range.size \in Nat
      /\ io.address \in Nat /\ io.left \in Nat
    BY <1>5 DEF RangeType, IoType
<1>10. range' \in RangeType /\ n \in Nat /\ n <= range.left
    <2>0. n \in Nat /\ n <= range.left
        <3>1. n \in 0 .. range.left
            BY <1>3
        <3> QED
            BY <1>9, <3>1
    <2>1. range.address + n \in Nat /\ range.left - n \in Nat /\ range.size + n \in Nat
        BY <1>9, <2>0
    <2> QED
        BY <1>3, <2>0, <2>1 DEF RangeType
<1>11. /\ Types' /\ Printed' /\ OutputFaithful' /\ cursor' = cursor
       /\ /\ pc' \in {"range", "ranged"}
          /\ (range.address = io.address + range.size /\ range.size <= io.left)'
          /\ (pc = "range" => range.size + range.left = io.left)'
          => Placed'
    BY <1>3, <1>4, <1>5, <1>8, <1>10, TransferKeeps
<1>12. Placed'
    <2>1. (range.address = io.address + range.size /\ range.size <= io.left)'
          /\ (range.size + range.left = io.left)'
        BY <1>6, <1>7, <1>8, <1>9, <1>10
    <2> QED
        BY <1>3, <1>11, <2>1
<1>13. Passed'
    <2>1. kind' = kind /\ access' = access /\ mem' = mem
        BY <1>3 DEF request
    <2>2. AllPass(io.address, range.address + n, width)
        BY <1>3
    <2>3. AllPass(io.address, range.address, range.access)'
        BY <1>7, <1>8, <2>1, <2>2 DEF AllPass, Passes, IsHeap, LooksSafe, Fits
    <2> QED
        BY <1>3, <2>3 DEF Passed
<1>14. Filled'
    <2>1. Reached = io.address /\ Reached' = io.address
        BY <1>1, <1>3, <1>8 DEF Reached
    <2> QED
        BY <1>3, <1>5, <1>11, <2>1 DEF Filled
<1> QED
    BY <1>11, <1>12, <1>13, <1>14 DEF MemInv

LEMMA FindRangeKeeps ==
    ASSUME MemInv, FindRange, UNCHANGED mcVars
    PROVE  MemInv'
<1>1. /\ pc = "perform" /\ pc' = "range" /\ io.left > 0
      /\ range' = [address |-> io.address, left |-> io.left, size |-> 0, access |-> 0]
      /\ io' = [io EXCEPT !.next = io.address + io.left]
      /\ UNCHANGED <<request, tx, data>>
    BY DEF FindRange, At, Goto
<1>2. pc \in Transferring /\ pc' \in Transferring
    BY <1>1 DEF Transferring
<1>3. /\ io \in IoType /\ tx \in TxType /\ data \in DataType
      /\ io.start = cursor /\ cursor <= io.address /\ io.address + io.left <= cursor + Wanted
      /\ Unread = {} /\ \A i \in 0 .. (Reached - cursor) - 1 : data[i] = cursor + i
    BY <1>1, <1>2, TransferPlace
<1>4. io.address \in Nat /\ io.left \in Nat /\ 0 \in 0 .. Word
    BY <1>3, Sizes DEF IoType
<1>5. /\ io'.start = io.start /\ io'.address = io.address /\ io'.left = io.left
      /\ io' \in IoType /\ range' \in RangeType
      /\ range'.address = io.address /\ range'.size = 0 /\ range'.left = io.left
    <2>1. io.address + io.left \in Nat
        BY <1>4
    <2> QED
        BY <1>1, <1>3, <1>4, <2>1 DEF IoType, RangeType
<1>6. /\ Types' /\ Printed' /\ OutputFaithful' /\ cursor' = cursor
      /\ /\ pc' \in {"range", "ranged"}
         /\ (range.address = io.address + range.size /\ range.size <= io.left)'
         /\ (pc = "range" => range.size + range.left = io.left)'
         => Placed'
    BY <1>1, <1>2, <1>3, <1>5, TransferKeeps
<1>7. Placed'
    BY <1>1, <1>4, <1>5, <1>6
<1>8. Passed'
    <2>1. AllPass(io.address, range.address, range.access)'
        BY <1>4, <1>5 DEF AllPass
    <2> QED
        BY <1>1, <2>1 DEF Passed
<1>9. Filled'
    <2>1. Reached = io.address /\ Reached' = io.address
        BY <1>1, <1>5 DEF Reached
    <2> QED
        BY <1>1, <1>3, <1>6, <2>1 DEF Filled
<1> QED
    BY <1>6, <1>7, <1>8, <1>9 DEF MemInv

(* Where the user chose the width, the pages have nothing to say about it. *)
LEMMA ChosenWidth ==
    ASSUME NEW from, NEW to, NEW v, NEW w, AllPass(from, to, v), access # 0
    PROVE  AllPass(from, to, w)
<1>1. \A q : Passes(q, v) => Passes(q, w)
    BY DEF Passes
<1> QED
    BY <1>1 DEF AllPass

LEMMA StartTransferKeeps ==
    ASSUME MemInv, StartTransfer, UNCHANGED mcVars
    PROVE  MemInv'
<1> DEFINE rest == IF io.result = "success" THEN io.left ELSE range.size
           width == IF access = 0 THEN range.access ELSE access
<1>1. /\ pc = "ranged" /\ pc' = "transfer"
      /\ io' = [io EXCEPT !.left = rest]
      /\ tx' = [address |-> io.address, left |-> range.size, access |-> width]
      /\ UNCHANGED <<request, range, data>>
    BY DEF StartTransfer, At, Goto
<1>2. pc \in Transferring /\ pc' \in Transferring
    BY <1>1 DEF Transferring
<1>3. /\ io \in IoType /\ range \in RangeType /\ data \in DataType /\ access \in 0 .. Word
      /\ io.start = cursor /\ cursor <= io.address /\ io.address + io.left <= cursor + Wanted
      /\ Unread = {} /\ \A i \in 0 .. (Reached - cursor) - 1 : data[i] = cursor + i
      /\ cursor \in Nat /\ Wanted \in Int
    BY <1>1, <1>2, TransferPlace
<1>4. /\ range.address = io.address + range.size /\ range.size <= io.left
      /\ AllPass(io.address, range.address, range.access)
    BY <1>1 DEF MemInv, Placed, Passed
<1>5. /\ io.address \in Nat /\ io.left \in Nat /\ range.size \in Nat /\ range.access \in 0 .. Word
    BY <1>3 DEF IoType, RangeType
<1>6. rest \in Nat /\ rest <= io.left /\ range.size <= rest /\ width \in 0 .. Word
    BY <1>3, <1>4, <1>5
<1> HIDE DEF rest
<1>7. /\ io'.start = io.start /\ io'.address = io.address /\ io'.left = rest /\ io' \in IoType
      /\ tx'.address = io.address /\ tx'.left = range.size /\ tx'.access = width
      /\ tx' \in TxType
    BY <1>1, <1>3, <1>5, <1>6 DEF IoType, TxType
<1>8. /\ Types' /\ Printed' /\ OutputFaithful' /\ cursor' = cursor
      /\ /\ pc' = "transfer"
         /\ (io.address <= tx.address /\ tx.address + tx.left <= io.address + io.left)'
         => Placed'
    <2>1. io'.address + io'.left <= cursor + Wanted
        BY <1>3, <1>5, <1>6, <1>7
    <2> QED
        BY <1>1, <1>2, <1>3, <1>7, <2>1, TransferKeeps
<1>9. Placed'
    BY <1>1, <1>5, <1>6, <1>7, <1>8
<1>10. Passed'
    <2>1. AllPass(io.address, range.address, width)
        BY <1>4, ChosenWidth
    <2>2. kind' = kind /\ access' = access /\ mem' = mem
        BY <1>1 DEF request
    <2>3. tx'.address = io.address /\ tx'.address + tx'.left = range.address
        BY <1>4, <1>7
    <2>4. AllPass(tx.address, tx.address + tx.left, tx.access)'
        BY <1>7, <2>1, <2>2, <2>3 DEF AllPass, Passes, IsHeap, LooksSafe, Fits
    <2>5. (access # 0 => tx.access = access)'
        BY <1>7, <2>2
    <2> QED
        BY <1>1, <2>4, <2>5 DEF Passed
<1>11. Filled'
    <2>1. Reached = io.address /\ Reached' = io.address
        BY <1>1, <1>7 DEF Reached
    <2> QED
        BY <1>1, <1>3, <1>8, <2>1 DEF Filled
<1> QED
    BY <1>8, <1>9, <1>10, <1>11 DEF MemInv

(* The transfer so far ends with io, with the bytes before in their places. *)
LEMMA EndsPerformed ==
    ASSUME MemInv, Unread = {}, pc \in Transferring, pc' = "perform",
           UNCHANGED request, UNCHANGED mcVars,
           io' \in IoType, io'.start = io.start, cursor <= io'.address,
           io'.address + io'.left <= cursor + Wanted,
           range' = range, tx' = tx, data' \in DataType,
           \A i \in 0 .. (io'.address - cursor) - 1 : data'[i] = cursor + i
                                                       \/ cursor + i \in Unread'
    PROVE  MemInv'
<1>1. pc' \in Transferring
    BY DEF Transferring
<1>2. /\ range \in RangeType /\ tx \in TxType /\ io.start = cursor
    BY TransferPlace
<1>3. Types' /\ Printed' /\ OutputFaithful' /\ cursor' = cursor /\ Placed' /\ Passed'
    BY <1>1, <1>2, TransferKeeps
<1>4. Filled'
    <2>1. Reached' = io'.address
        BY DEF Reached
    <2> QED
        BY <1>3, <2>1 DEF Filled
<1> QED
    BY <1>3, <1>4 DEF MemInv

LEMMA NothingToTransferKeeps ==
    ASSUME MemInv, NothingToTransfer, UNCHANGED mcVars
    PROVE  MemInv'
<1>1. /\ pc = "ranged" /\ pc' = "perform" /\ io' = [io EXCEPT !.left = 0]
      /\ UNCHANGED <<request, range, tx, data>>
    BY DEF NothingToTransfer, At, Goto
<1>2. pc \in Transferring
    BY <1>1 DEF Transferring
<1>3. /\ io \in IoType /\ data \in DataType
      /\ cursor <= io.address /\ io.address + io.left <= cursor + Wanted
      /\ Unread = {} /\ \A i \in 0 .. (Reached - cursor) - 1 : data[i] = cursor + i
      /\ cursor \in Nat /\ Wanted \in Int
    BY <1>1, <1>2, TransferPlace
<1>4. /\ io' \in IoType /\ io'.start = io.start /\ io'.address = io.address /\ io'.left = 0
      /\ io.address \in Nat /\ io.left \in Nat
    BY <1>1, <1>3 DEF IoType
<1>5. io'.address + io'.left <= cursor + Wanted
    BY <1>3, <1>4
<1>6. Reached = io.address
    BY <1>1 DEF Reached
<1> QED
    BY <1>1, <1>2, <1>3, <1>4, <1>5, <1>6, EndsPerformed

LEMMA TransferCompleteKeeps ==
    ASSUME MemInv, TransferComplete, UNCHANGED mcVars
    PROVE  MemInv'
<1> DEFINE done == tx.address - io.address
<1>1. /\ pc = "transfer" /\ tx.left = 0 /\ pc' = "perform"
      /\ io' = [io EXCEPT !.address = @ + done, !.left = @ - done, !.result = @]
      /\ UNCHANGED <<request, range, tx, data>>
    BY DEF TransferComplete, TransferReturns, At, Goto
<1>2. pc \in Transferring
    BY <1>1 DEF Transferring
<1>3. /\ io \in IoType /\ data \in DataType /\ tx \in TxType
      /\ cursor <= io.address /\ io.address + io.left <= cursor + Wanted
      /\ Unread = {} /\ \A i \in 0 .. (Reached - cursor) - 1 : data[i] = cursor + i
      /\ cursor \in Nat /\ Wanted \in Int
    BY <1>1, <1>2, TransferPlace
<1>4. /\ io.address <= tx.address /\ tx.address + tx.left <= io.address + io.left
      /\ io.address \in Nat /\ io.left \in Nat /\ tx.address \in Nat
    BY <1>1, <1>3 DEF MemInv, Placed, IoType, TxType
<1>5. done \in Nat /\ io.address + done = tx.address /\ io.left - done \in Nat
    BY <1>1, <1>4
<1> HIDE DEF done
<1>6. /\ io' \in IoType /\ io'.start = io.start /\ io'.address = tx.address
      /\ io'.left = io.left - done
    BY <1>1, <1>3, <1>4, <1>5 DEF IoType
<1>7. io'.address + io'.left <= cursor + Wanted /\ cursor <= io'.address
    BY <1>3, <1>4, <1>5, <1>6
<1>8. Reached = tx.address
    BY <1>1 DEF Reached
<1> QED
    BY <1>1, <1>2, <1>3, <1>6, <1>7, <1>8, EndsPerformed

(* A chunk is part of what is left. *)
LEMMA PageChunkFits ==
    ASSUME tx \in TxType
    PROVE  PageChunk \in 0 .. tx.left
<1> DEFINE rest == NextPage(tx.address) - tx.address
<1>1. tx.address \in Nat /\ tx.left \in Nat /\ tx.access \in Nat
    BY Sizes DEF TxType
<1>2. rest \in Nat
    <2>1. NextPage(tx.address) \in Nat /\ tx.address < NextPage(tx.address)
        BY <1>1, PageBounds
    <2> QED
        BY <1>1, <2>1
<1> HIDE DEF rest
<1>3. PageChunk = IF tx.access = 0 THEN IF tx.left < rest THEN tx.left ELSE rest
                  ELSE IF tx.access < (IF tx.left < rest THEN tx.left ELSE rest) THEN tx.access
                  ELSE IF tx.left < rest THEN tx.left ELSE rest
    BY DEF PageChunk, Least, rest
<1> QED
    BY <1>1, <1>2, <1>3

(* It ends with the page at the latest. *)
LEMMA PageChunkInPage ==
    ASSUME tx \in TxType, NEW a \in Nat, tx.address <= a, a < tx.address + PageChunk
    PROVE  PageOf(a) = PageOf(tx.address)
<1> DEFINE rest == NextPage(tx.address) - tx.address
<1>1. tx.address \in Nat /\ tx.left \in Nat /\ tx.access \in Nat
    BY Sizes DEF TxType
<1>2. NextPage(tx.address) \in Nat
    BY <1>1, PageBounds
<1>3. PageChunk \in Int /\ PageChunk <= rest
    <2>1. rest \in Int
        BY <1>1, <1>2
    <2>2. PageChunk = IF tx.access = 0 THEN IF tx.left < rest THEN tx.left ELSE rest
                      ELSE IF tx.access < (IF tx.left < rest THEN tx.left ELSE rest) THEN tx.access
                      ELSE IF tx.left < rest THEN tx.left ELSE rest
        BY DEF PageChunk, Least, rest
    <2> HIDE DEF rest
    <2> QED
        BY <1>1, <2>1, <2>2
<1>4. a < NextPage(tx.address)
    BY <1>1, <1>2, <1>3
<1> QED
    BY <1>1, <1>4, PagesInOrder

LEMMA WordChunkFits ==
    ASSUME tx \in TxType, tx.left > 0
    PROVE  WordChunk \in 0 .. tx.left
<1> DEFINE fit == {w \in WordSizes : /\ w <= tx.left /\ tx.address % w = 0
                                     /\ tx.access = 0 \/ w <= tx.access}
<1>1. tx.address \in Nat /\ tx.left \in Nat /\ tx.access \in Nat
    BY Sizes DEF TxType
<1>2. fit \in SUBSET (0 .. tx.left)
    BY <1>1, Sizes DEF WordSizes
<1>3. 1 \in fit
    <2>1. 1 \in WordSizes
        BY Sizes DEF WordSizes
    <2>2. tx.address % 1 = 0
        BY <1>1
    <2> QED
        BY <1>1, <2>1, <2>2
<1>4. WordChunk = Max(fit)
    BY DEF WordChunk
<1> HIDE DEF fit
<1>5. Max(fit) \in fit
    BY <1>1, <1>2, <1>3, GreatestOf
<1> QED
    BY <1>2, <1>4, <1>5

(* The bytes that are stored reach their places. *)
LEMMA Stored ==
    ASSUME MemInv, pc = "transfer", NEW n \in 0 .. tx.left, Store(n)
    PROVE  /\ data' \in DataType
           /\ \A i \in 0 .. ((tx.address + n) - cursor) - 1 : data'[i] = cursor + i
<1>1. /\ data \in DataType /\ tx \in TxType /\ io \in IoType /\ io.start = cursor
      /\ cursor \in Nat /\ Wanted \in Int /\ Wanted <= PageSize /\ cursor <= io.address
      /\ io.address + io.left <= cursor + Wanted
      /\ Unread = {} /\ \A i \in 0 .. (Reached - cursor) - 1 : data[i] = cursor + i
    <2>1. pc \in Transferring
        BY DEF Transferring
    <2> QED
        BY <2>1, TransferPlace
<1>2. /\ io.address <= tx.address /\ tx.address + tx.left <= io.address + io.left
      /\ tx.address \in Nat /\ tx.left \in Nat /\ io.address \in Nat /\ io.left \in Nat
      /\ Reached = tx.address
    BY <1>1 DEF MemInv, Placed, Reached, TxType, IoType
<1>3. n \in Nat /\ n <= tx.left /\ PageSize \in Nat /\ Word \in Nat
    BY <1>2, Sizes
<1>4. data' = [i \in -Word .. PageSize - 1 |->
                  IF cursor + i \in tx.address .. (tx.address + n) - 1 THEN cursor + i ELSE data[i]]
    <2>1. DOMAIN data = -Word .. PageSize - 1
        BY <1>1 DEF DataType
    <2>2. tx.address + n - 1 = (tx.address + n) - 1
        BY <1>2, <1>3
    <2> QED
        BY <1>1, <2>1, <2>2 DEF Store
<1>5. data' \in DataType
    <2>1. \A i \in -Word .. PageSize - 1 : cursor + i \in Int /\ data[i] \in Int
        BY <1>1, <1>3 DEF DataType
    <2> QED
        BY <1>4, <2>1 DEF DataType
<1>6. ASSUME NEW i \in 0 .. ((tx.address + n) - cursor) - 1 PROVE data'[i] = cursor + i
    <2>1. i \in Nat /\ i \in -Word .. PageSize - 1 /\ cursor + i < tx.address + n
        BY <1>1, <1>2, <1>3
    <2>2. data'[i] = IF cursor + i \in tx.address .. (tx.address + n) - 1 THEN cursor + i ELSE data[i]
        BY <1>4, <2>1
    <2>3. CASE cursor + i >= tx.address
        BY <1>1, <1>2, <1>3, <2>1, <2>2, <2>3
    <2>4. CASE cursor + i < tx.address
        <3>1. i \in 0 .. (Reached - cursor) - 1
            BY <1>1, <1>2, <2>1, <2>4
        <3> QED
            BY <1>1, <2>2, <3>1
    <2> QED
        BY <1>1, <1>2, <2>1, <2>3, <2>4
<1> QED
    BY <1>5, <1>6

(* A chunk has been transferred. *)
LEMMA ChunkKeeps ==
    ASSUME MemInv, pc = "transfer", NEW n \in 0 .. tx.left, Store(n), Advance(n),
           UNCHANGED <<pc, io, range>>, UNCHANGED request, UNCHANGED mcVars
    PROVE  MemInv'
<1>1. pc \in Transferring /\ pc' \in Transferring /\ pc' = "transfer"
    BY DEF Transferring
<1>2. /\ Unread = {} /\ io \in IoType /\ range \in RangeType /\ tx \in TxType /\ io.start = cursor
      /\ cursor <= io.address /\ io.address + io.left <= cursor + Wanted
    BY <1>1, TransferPlace
<1>3. /\ io.address <= tx.address /\ tx.address + tx.left <= io.address + io.left
      /\ tx.address \in Nat /\ tx.left \in Nat /\ io.address \in Nat /\ io.left \in Nat
    BY <1>2 DEF MemInv, Placed, TxType, IoType
<1>4. n \in Nat /\ n <= tx.left
    BY <1>3
<1>5. /\ tx' \in TxType /\ tx'.address = tx.address + n /\ tx'.left = tx.left - n
      /\ tx'.access = tx.access
    <2>1. tx.address + n \in Nat /\ tx.left - n \in Nat
        BY <1>3, <1>4
    <2> QED
        BY <1>2, <2>1 DEF Advance, TxType
<1>6. /\ data' \in DataType
      /\ \A i \in 0 .. ((tx.address + n) - cursor) - 1 : data'[i] = cursor + i
    BY Stored
<1>7. /\ Types' /\ Printed' /\ OutputFaithful' /\ cursor' = cursor
      /\ /\ pc' = "transfer"
         /\ (io.address <= tx.address /\ tx.address + tx.left <= io.address + io.left)'
         => Placed'
    BY <1>1, <1>2, <1>5, <1>6, TransferKeeps
<1>8. Placed'
    BY <1>1, <1>3, <1>4, <1>5, <1>7
<1>9. Passed'
    <2>1. /\ AllPass(tx.address, tx.address + tx.left, tx.access)
          /\ access # 0 => tx.access = access
        BY DEF MemInv, Passed
    <2>2. kind' = kind /\ access' = access /\ mem' = mem
        BY DEF request
    <2>3. /\ tx'.address + tx'.left = tx.address + tx.left /\ tx.address <= tx'.address
          /\ tx'.address \in Int /\ tx.address + tx.left \in Int
        BY <1>3, <1>4, <1>5
    <2>4. \A a \in tx'.address .. (tx'.address + tx'.left) - 1 :
             a \in tx.address .. (tx.address + tx.left) - 1
        BY <1>3, <2>3
    <2>5. AllPass(tx.address, tx.address + tx.left, tx.access)'
        BY <1>5, <2>1, <2>2, <2>4 DEF AllPass, Passes, IsHeap, LooksSafe, Fits
    <2>6. (access # 0 => tx.access = access)'
        BY <1>5, <2>1, <2>2
    <2> QED
        BY <1>1, <2>5, <2>6 DEF Passed
<1>10. Filled'
    <2>1. Reached' = tx.address + n
        BY <1>1, <1>5 DEF Reached
    <2> QED
        BY <1>6, <1>7, <2>1 DEF Filled
<1> QED
    BY <1>7, <1>8, <1>9, <1>10 DEF MemInv

(* The transfer function fails, having added n bytes from io.address on. *)
LEMMA ChunkFails ==
    ASSUME MemInv, pc = "transfer", NEW n \in Nat,
           io.address + n <= tx.address + tx.left, TransferReturns(n, "error"),
           data' \in DataType,
           \A i \in 0 .. ((io.address + n) - cursor) - 1 : data'[i] = cursor + i
                                                       \/ cursor + i \in Unread',
           UNCHANGED <<tx, range>>, UNCHANGED request, UNCHANGED mcVars
    PROVE  MemInv'
<1>1. pc \in Transferring
    BY DEF Transferring
<1>2. /\ Unread = {} /\ io \in IoType /\ tx \in TxType /\ cursor <= io.address
      /\ io.address + io.left <= cursor + Wanted /\ cursor \in Nat /\ Wanted \in Int
    BY <1>1, TransferPlace
<1>3. /\ io.address <= tx.address /\ tx.address + tx.left <= io.address + io.left
      /\ tx.address \in Nat /\ tx.left \in Nat /\ io.address \in Nat /\ io.left \in Nat
    BY <1>2 DEF MemInv, Placed, TxType, IoType
<1>4. pc' = "perform" /\ io' = [io EXCEPT !.address = @ + n, !.left = 0, !.result = "error"]
    BY DEF TransferReturns, Goto
<1>5. /\ io' \in IoType /\ io'.start = io.start /\ io'.address = io.address + n /\ io'.left = 0
    <2>1. io.address + n \in Nat /\ "error" \in Results
        BY <1>3 DEF Results
    <2> QED
        BY <1>2, <1>4, <2>1 DEF IoType
<1>6. cursor <= io'.address /\ io'.address + io'.left <= cursor + Wanted
    BY <1>2, <1>3, <1>5
<1> QED
    BY <1>1, <1>2, <1>4, <1>5, <1>6, EndsPerformed

LEMMA TransferPageKeeps ==
    ASSUME MemInv, TransferPage, UNCHANGED mcVars
    PROVE  MemInv'
<1>1. pc = "transfer" /\ UNCHANGED request /\ UNCHANGED range
    BY DEF TransferPage, At
<1>2. /\ io \in IoType /\ tx \in TxType /\ cursor \in Nat /\ data \in DataType
      /\ Unread = {} /\ \A i \in 0 .. (Reached - cursor) - 1 : data[i] = cursor + i
    <2>1. pc \in Transferring
        BY <1>1 DEF Transferring
    <2> QED
        BY <1>1, <2>1, TransferPlace
<1>3. /\ io.address <= tx.address /\ tx.address \in Nat /\ tx.left \in Nat /\ io.address \in Nat
      /\ Reached = tx.address
    BY <1>1, <1>2 DEF MemInv, Placed, Reached, IoType, TxType
<1>4. PageChunk \in 0 .. tx.left
    BY <1>2, PageChunkFits
<1>5. CASE Store(PageChunk) /\ Advance(PageChunk) /\ UNCHANGED <<pc, io>>
    BY <1>1, <1>4, <1>5, ChunkKeeps
<1>6. CASE /\ mem[PageOf(tx.address)].fails /\ TransferReturns(PageChunk, "error")
           /\ UNCHANGED <<tx, data>>
    <2> DEFINE n == PageChunk
    <2>1. n \in Nat /\ io.address + n <= tx.address + tx.left /\ io.address + n <= tx.address + n
        BY <1>3, <1>4
    <2>2. Unread' = {a \in Nat : Fails(a)}
        <3>1. pc' = "perform" /\ io'.left = 0 /\ io'.result = "error"
            BY <1>2, <1>6 DEF TransferReturns, Goto, IoType
        <3>2. mem' = mem
            BY <1>1 DEF request
        <3> QED
            BY <3>1, <3>2 DEF Unread, Succeeded, Fails
    <2>3. ASSUME NEW i \in 0 .. ((io.address + n) - cursor) - 1
          PROVE  data'[i] = cursor + i \/ cursor + i \in Unread'
        <3>1. i \in Nat /\ cursor + i \in Nat /\ cursor + i < tx.address + n
            BY <1>2, <1>3, <2>1
        <3>2. CASE cursor + i < tx.address
            <4>1. i \in 0 .. (Reached - cursor) - 1
                BY <1>2, <1>3, <3>1, <3>2
            <4> QED
                BY <1>2, <1>6, <4>1
        <3>3. CASE tx.address <= cursor + i
            <4>1. PageOf(cursor + i) = PageOf(tx.address)
                BY <1>2, <3>1, <3>3, PageChunkInPage
            <4>2. Fails(cursor + i)
                BY <1>6, <4>1 DEF Fails
            <4> QED
                BY <2>2, <3>1, <4>2
        <3> QED
            BY <1>3, <3>1, <3>2, <3>3
    <2>4. TransferReturns(n, "error") /\ data' \in DataType
        BY <1>2, <1>6
    <2> HIDE DEF n
    <2> QED
        BY <1>1, <1>6, <2>1, <2>3, <2>4, ChunkFails
<1> QED
    BY <1>5, <1>6 DEF TransferPage

LEMMA TransferWordKeeps ==
    ASSUME MemInv, TransferWord, UNCHANGED mcVars
    PROVE  MemInv'
<1>1. pc = "transfer" /\ tx.left > 0 /\ UNCHANGED request /\ UNCHANGED range
    BY DEF TransferWord, At
<1>2. /\ io \in IoType /\ tx \in TxType /\ data \in DataType
      /\ Unread = {} /\ \A i \in 0 .. (Reached - cursor) - 1 : data[i] = cursor + i
    <2>1. pc \in Transferring
        BY <1>1 DEF Transferring
    <2> QED
        BY <1>1, <2>1, TransferPlace
<1>3. /\ io.address <= tx.address /\ tx.address \in Nat /\ tx.left \in Nat /\ io.address \in Nat
      /\ Reached = tx.address
    BY <1>1, <1>2 DEF MemInv, Placed, Reached, TxType, IoType
<1>4. WordChunk \in 0 .. tx.left
    BY <1>1, <1>2, WordChunkFits
<1>5. CASE Store(WordChunk) /\ Advance(WordChunk) /\ UNCHANGED <<pc, io>>
    BY <1>1, <1>4, <1>5, ChunkKeeps
<1>6. CASE TransferReturns(tx.address - io.address, "error") /\ UNCHANGED <<tx, data>>
    <2> DEFINE n == tx.address - io.address
    <2>1. n \in Nat /\ io.address + n <= tx.address + tx.left /\ io.address + n = tx.address
        BY <1>3
    <2>2. TransferReturns(n, "error")
        BY <1>6
    <2> HIDE DEF n
    <2>3. \A i \in 0 .. ((io.address + n) - cursor) - 1 : data'[i] = cursor + i
        BY <1>2, <1>3, <1>6, <2>1
    <2> QED
        BY <1>1, <1>2, <1>6, <2>1, <2>2, <2>3, ChunkFails
<1> QED
    BY <1>5, <1>6 DEF TransferWord

LEMMA TransferKeepsAll ==
    ASSUME MemInv, TransferStep, UNCHANGED mcVars
    PROVE  MemInv'
<1>1. TransferStep <=> \/ RangeAction \/ FindRange \/ StartTransfer \/ NothingToTransfer
                       \/ TransferPage \/ TransferWord \/ TransferComplete
    BY DEF TransferStep, RangeAction
<1> QED
    BY <1>1, RangeKeeps, FindRangeKeeps, StartTransferKeeps, NothingToTransferKeeps,
       TransferPageKeeps, TransferWordKeeps, TransferCompleteKeeps

-----------------------------------------------------------------------------
(* The steps of the commands.                                               *)

LEMMA CommandPlace ==
    ASSUME MemInv, pc \in Active
    PROVE  /\ io \in IoType /\ range \in RangeType /\ tx \in TxType /\ data \in DataType
           /\ cursor \in Nat /\ size \in Nat
           /\ command.name \in Readers \cup {"f"} /\ command.start \in Nat
           /\ command.end \in 0 .. Top /\ command.end \in Nat /\ command.end <= Top
           /\ command.name # "f" => cursor + size <= command.end
           /\ outcome = "running"
<1>1. Types /\ Placed
    BY DEF MemInv
<1>2. command.end \in 0 .. Top /\ pc # "end"
    BY <1>1 DEF Types, Active, Transferring
<1>3. command.end \in Nat /\ command.end <= Top
    BY <1>2, Sizes
<1> QED
    BY <1>1, <1>2, <1>3 DEF Types, Placed

(* A command ends. *)
LEMMA Ends ==
    ASSUME MemInv, pc \in Active, pc' = "end",
           outcome' \in {"success", "failure", "interrupted"},
           UNCHANGED <<io, range, tx, data, command>>, cursor' \in Nat, size' \in Nat
    PROVE  Types' /\ Placed' /\ Passed' /\ Filled'
<1>1. io \in IoType /\ range \in RangeType /\ tx \in TxType /\ data \in DataType
    BY CommandPlace
<1>2. Types'
    BY <1>1 DEF Types, Active, Transferring
<1> QED
    BY <1>2 DEF Placed, Passed, Filled, Active, Transferring

(* It looks for the next bytes. *)
LEMMA Loops ==
    ASSUME MemInv, pc \in Active, pc' = "loop", outcome' = outcome,
           UNCHANGED <<io, range, tx, command>>, UNCHANGED request,
           data' \in DataType, cursor' \in Nat, size' \in Nat,
           IF command.name = "f" THEN RangeTooSmall' \/ cursor' < command.end
           ELSE cursor' + size' <= command.end
    PROVE  Types' /\ Placed' /\ Passed' /\ Filled'
<1>1. io \in IoType /\ range \in RangeType /\ tx \in TxType
    BY CommandPlace
<1>2. Types'
    BY <1>1 DEF MemInv, Types, Active, Transferring, request
<1>3. Placed'
    BY DEF Placed, Active, Transferring
<1> QED
    BY <1>2, <1>3 DEF Passed, Filled, Active, Transferring

(* It reads, as many bytes as it wants. *)
LEMMA Performs ==
    ASSUME MemInv, At("loop"), PerformTransfer(cursor, Wanted),
           command.name = "f" => ~ RangeTooSmall,
           UNCHANGED <<request, range, tx, data, mcVars>>
    PROVE  MemInv'
<1>1. /\ pc = "loop" /\ pc' = "perform"
      /\ io' = [start |-> cursor, address |-> cursor, left |-> Wanted,
                next |-> 0, result |-> "success"]
    BY DEF PerformTransfer, At, Goto
<1>2. /\ mem' = mem /\ kind' = kind /\ access' = access /\ range' = range /\ tx' = tx
      /\ data' = data /\ command' = command /\ cursor' = cursor /\ size' = size
      /\ out' = out /\ line' = line /\ outcome' = outcome
    BY DEF request, mcVars
<1>3. pc \in Active
    BY <1>1 DEF Active
<1>4. /\ range \in RangeType /\ tx \in TxType /\ data \in DataType
      /\ cursor \in Nat /\ size \in Nat /\ command.end \in Nat
      /\ command.name # "f" => cursor + size <= command.end
    BY <1>3, CommandPlace
<1>5. command.name = "f" => cursor < command.end
    BY <1>3 DEF MemInv, Placed
<1>6. Wanted \in Nat
    <2>1. PageSize \in Nat
        BY Sizes
    <2>2. Wanted = IF command.name = "f"
                   THEN IF command.end - cursor < PageSize THEN command.end - cursor ELSE PageSize
                   ELSE IF size < PageSize THEN size ELSE PageSize
        BY DEF Wanted, Least
    <2> QED
        BY <1>4, <1>5, <2>1, <2>2
<1>7. io' \in IoType /\ io'.start = cursor /\ io'.address = cursor /\ io'.left = Wanted
    BY <1>1, <1>4, <1>6 DEF IoType, Results
<1>8. Types'
    BY <1>1, <1>2, <1>7 DEF MemInv, Types, Active, Transferring
<1>9. Placed'
    <2>1. Wanted' = Wanted
        BY <1>2 DEF Wanted
    <2>2. io'.start <= io'.address /\ io'.address + io'.left <= cursor + Wanted
        BY <1>4, <1>6, <1>7
    <2> QED
        BY <1>1, <1>2, <1>4, <1>5, <1>7, <2>1, <2>2 DEF Placed
<1>10. Passed'
    BY <1>1 DEF Passed
<1>11. Filled'
    <2>1. (Reached' - cursor') - 1 = -1
        <3>1. Reached' = cursor
            BY <1>1, <1>7 DEF Reached
        <3> QED
            BY <1>2, <1>4, <3>1
    <2>2. Reached' - cursor' - 1 = -1
        BY <2>1
    <2> QED
        BY <2>2 DEF Filled
<1>14. Unread = {} /\ Unread' = {}
    BY <1>1, <1>7 DEF Unread, Succeeded
<1>12. Printed'
    BY <1>1, <1>2, <1>14 DEF MemInv, Printed, Right, Active, Transferring
<1>13. OutputFaithful'
    BY <1>2, <1>3, <1>14, CommandPlace DEF MemInv, OutputFaithful, InOrder, Right
<1> QED
    BY <1>8, <1>9, <1>10, <1>11, <1>12, <1>13 DEF MemInv

LEMMA ReadKeeps ==
    ASSUME MemInv, Read
    PROVE  MemInv'
<1>1. /\ At("loop") /\ command.name \in Readers /\ PerformTransfer(cursor, Least(size, PageSize))
      /\ UNCHANGED <<request, range, tx, data, mcVars>>
    BY DEF Read, Running
<1>2. command.name # "f"
    BY <1>1 DEF Readers
<1>3. Wanted = Least(size, PageSize)
    BY <1>2 DEF Wanted
<1> QED
    BY <1>1, <1>2, <1>3, Performs

LEMMA FindReadKeeps ==
    ASSUME MemInv, FindRead
    PROVE  MemInv'
<1>1. /\ At("loop") /\ command.name = "f" /\ ~ RangeTooSmall
      /\ PerformTransfer(cursor, Least(command.end - cursor, PageSize))
      /\ UNCHANGED <<request, range, tx, data, mcVars>>
    BY DEF FindRead, Running
<1>2. Wanted = Least(command.end - cursor, PageSize)
    BY <1>1 DEF Wanted
<1> QED
    BY <1>1, <1>2, Performs

(* Remainders. *)
LEMMA Remainder ==
    ASSUME NEW d \in Nat \ {0}, NEW q \in Nat, NEW r \in 0 .. d - 1
    PROVE  (d * q + r) % d = r
<1> DEFINE x == d * q + r
           k == x \div d
<1>1. x \in Nat /\ d * q \in Nat /\ r \in Nat /\ r < d
    BY Z3
<1>2. k \in Nat /\ x % d \in 0 .. d - 1 /\ x = d * k + (x % d)
    BY <1>1, Z3
<1>3. d * k \in Nat /\ x % d \in Nat /\ x % d < d
    BY <1>2, Z3
<1>4. d * q + r = d * k + (x % d)
    BY <1>2
<1> HIDE DEF x, k
<1>5. CASE k = q
    BY <1>1, <1>3, <1>4, <1>5 DEF x
<1>6. CASE k + 1 <= q
    <2>1. d * (k + 1) <= d * q /\ d * (k + 1) = d * k + d
        BY <1>2, <1>6, Z3
    <2> QED
        BY <1>1, <1>3, <1>4, <2>1
<1>7. CASE q + 1 <= k
    <2>1. d * (q + 1) <= d * k /\ d * (q + 1) = d * q + d
        BY <1>2, <1>7, Z3
    <2> QED
        BY <1>1, <1>3, <1>4, <2>1
<1> QED
    BY <1>2, <1>5, <1>6, <1>7

LEMMA Divided ==
    ASSUME NEW d \in Nat \ {0}, NEW x \in Nat
    PROVE  \E q \in Nat, r \in 0 .. d - 1 : x = d * q + r /\ x % d = r /\ d * q \in Nat
<1>1. x \div d \in Nat /\ x % d \in 0 .. d - 1 /\ x = d * (x \div d) + (x % d)
    BY Z3
<1>2. d * (x \div d) \in Nat
    BY <1>1, Z3
<1> QED
    BY <1>1, <1>2

LEMMA WholeInstructions ==
    ASSUME NEW a \in Nat, NEW b \in Nat, a % Instruction = 0
    PROVE  /\ b - (b % Instruction) \in 0 .. b
           /\ (a + (b - (b % Instruction))) % Instruction = 0
           /\ (a + b) % Instruction = b % Instruction
<1> DEFINE d == Instruction
<1>1. d \in Nat \ {0} /\ 0 \in 0 .. d - 1
    BY LineAssumption, Sizes
<1>2. PICK q \in Nat, r \in 0 .. d - 1 : a = d * q + r /\ a % d = r /\ d * q \in Nat
    BY <1>1, Divided
<1>3. PICK k \in Nat, s \in 0 .. d - 1 : b = d * k + s /\ b % d = s /\ d * k \in Nat
    BY <1>1, Divided
<1>4. r = 0 /\ a = d * q /\ s \in Nat /\ b - s = d * k
    BY <1>1, <1>2, <1>3
<1> HIDE DEF d
<1>5. d * (q + k) = d * q + d * k /\ q + k \in Nat
    BY <1>1, Z3
<1>6. (d * (q + k) + 0) % d = 0 /\ (d * (q + k) + s) % d = s
    BY <1>1, <1>5, Remainder
<1>7. a + (b - s) = d * (q + k) + 0 /\ a + b = d * (q + k) + s
    BY <1>1, <1>2, <1>3, <1>4, <1>5
<1>8. b - s \in 0 .. b
    BY <1>3, <1>4
<1> QED
    BY <1>3, <1>6, <1>7, <1>8 DEF d

(* A text whose bytes are those from an address on, but for bad ones. *)
InPlace(text, from, bad) ==
    /\ text \in Seq(Int)
    /\ \A i \in 1 .. Len(text) : text[i] = from + (i - 1) \/ from + (i - 1) \in bad

LEMMA Appended ==
    ASSUME NEW bad, NEW from \in Nat, NEW s, NEW t,
           InPlace(s, from, bad), InPlace(t, from + Len(s), bad)
    PROVE  InPlace(s \o t, from, bad) /\ Len(s \o t) = Len(s) + Len(t)
<1>1. s \in Seq(Int) /\ t \in Seq(Int) /\ Len(s) \in Nat /\ Len(t) \in Nat
    BY DEF InPlace
<1>2. s \o t \in Seq(Int) /\ Len(s \o t) = Len(s) + Len(t)
    BY <1>1
<1>3. ASSUME NEW i \in 1 .. Len(s) + Len(t) 
      PROVE  (s \o t)[i] = from + (i - 1) \/ from + (i - 1) \in bad
    <2>1. (s \o t)[i] = IF i <= Len(s) THEN s[i] ELSE t[i - Len(s)]
        BY <1>1
    <2>2. CASE i <= Len(s)
        BY <1>1, <2>1, <2>2 DEF InPlace
    <2>3. CASE ~ (i <= Len(s))
        <3>1. i - Len(s) \in 1 .. Len(t)
            BY <1>1, <2>3
        <3> DEFINE there == (from + Len(s)) + ((i - Len(s)) - 1)
        <3>2. t[i - Len(s)] = there \/ there \in bad
            BY <3>1 DEF InPlace
        <3>3. there = from + (i - 1)
            BY <1>1
        <3> HIDE DEF there
        <3> QED
            BY <1>1, <2>1, <2>3, <3>2, <3>3
    <2> QED
        BY <2>2, <2>3
<1> QED
    BY <1>2, <1>3 DEF InPlace

(* What was read. *)
LEMMA BytesRead ==
    ASSUME MemInv, TransferDone
    PROVE  /\ pc \in Active /\ pc \in Transferring /\ Transferred \in Nat
           /\ Transferred <= PageSize /\ cursor + Transferred <= Top
           /\ command.name # "f" => Transferred <= size
           /\ \A i \in 0 .. Transferred - 1 : data[i] = cursor + i \/ cursor + i \in Unread
           /\ Succeeded => Unread = {}
           /\ \A n \in 0 .. Transferred : InPlace(Bytes(n), cursor, Unread) /\ Len(Bytes(n)) = n
<1>1. pc \in Transferring /\ pc \in Active /\ pc = "perform"
    BY DEF TransferDone, At, Transferring, Active
<1>2. /\ io \in IoType /\ data \in DataType /\ cursor \in Nat /\ size \in Nat /\ Wanted \in Int /\ Wanted <= PageSize
      /\ io.start = cursor /\ cursor <= io.address /\ io.address + io.left <= cursor + Wanted
      /\ cursor + Wanted <= Top
      /\ \A i \in 0 .. (Reached - cursor) - 1 : data[i] = cursor + i \/ cursor + i \in Unread
      /\ command.name # "f" => Wanted <= size
    BY <1>1, TransferPlace
<1>3. io.address \in Nat /\ io.left = 0 /\ Reached = io.address /\ PageSize \in Nat /\ Top \in Nat
    BY <1>1, <1>2, Sizes DEF IoType, TransferDone, Reached
<1>4. Transferred = io.address - cursor
    BY <1>2 DEF Transferred
<1>5. /\ Transferred \in Nat /\ Transferred <= PageSize /\ cursor + Transferred <= Top
      /\ command.name # "f" => Transferred <= size
    BY <1>2, <1>3, <1>4
<1>6. \A i \in 0 .. Transferred - 1 : data[i] = cursor + i \/ cursor + i \in Unread
    BY <1>2, <1>3, <1>4
<1>8. Succeeded => Unread = {}
    BY DEF Unread
<1>7. ASSUME NEW n \in 0 .. Transferred PROVE InPlace(Bytes(n), cursor, Unread) /\ Len(Bytes(n)) = n
    <2>1. n \in Nat /\ n <= Transferred
        BY <1>5
    <2>2. \A i \in 1 .. n : i - 1 \in 0 .. Transferred - 1 /\ cursor + (i - 1) \in Int
        BY <1>2, <1>5, <2>1
    <2>3. Bytes(n) = [i \in 1 .. n |-> data[i - 1]]
        BY DEF Bytes
    <2>4. \A i \in 1 .. n : data[i - 1] = cursor + (i - 1) \/ cursor + (i - 1) \in Unread
        BY <1>6, <2>2
    <2>6. \A i \in 1 .. n : data[i - 1] \in Int
        <3>1. \A i \in 1 .. n : i - 1 \in -Word .. PageSize - 1
            BY <1>3, <1>5, <2>1, Sizes
        <3> QED
            BY <1>2, <3>1 DEF DataType
    <2>5. Bytes(n) \in Seq(Int) /\ Len(Bytes(n)) = n /\ \A i \in 1 .. n : Bytes(n)[i] = data[i - 1]
        BY <2>1, <2>3, <2>6
    <2> QED
        BY <2>4, <2>5 DEF InPlace
<1> QED
    BY <1>1, <1>5, <1>6, <1>7, <1>8

(* What has been printed and what waits for the rest of its line. *)
LEMMA PrintedText ==
    ASSUME MemInv, pc \in Active, command.name \in Readers \ {"rb"}
    PROVE  /\ InPlace(out \o line, command.start, Unread) /\ out \in Seq(Int) /\ line \in Seq(Int)
           /\ cursor = command.start + Len(out \o line) /\ size = command.end - cursor
           /\ pc = "loop" => Succeeded
           /\ command.name = "ri" => Len(out) % Instruction = 0
           /\ (command.name # "rd" \/ size = 0) => line = <<>>
<1>1. /\ out \in Seq(Int) /\ line \in Seq(Int)
      /\ \A i \in DOMAIN (out \o line) : Right((out \o line)[i], command.start + i - 1)
      /\ pc = "loop" => Succeeded
      /\ cursor = command.start + Len(out \o line) /\ size = command.end - cursor
      /\ command.name = "ri" => Len(out) % Instruction = 0
      /\ (command.name # "rd" \/ size = 0) => line = <<>>
    BY DEF MemInv, Printed
<1>2. out \o line \in Seq(Int) /\ DOMAIN (out \o line) = 1 .. Len(out \o line)
    BY <1>1
<1>3. \A i \in 1 .. Len(out \o line) : command.start + i - 1 = command.start + (i - 1)
    BY CommandPlace
<1> QED
    BY <1>1, <1>2, <1>3 DEF InPlace, Right

LEMMA NoLine ==
    ASSUME NEW bad, NEW s, NEW from, InPlace(s \o <<>>, from, bad), s \in Seq(Int)
    PROVE  s \o <<>> = s /\ InPlace(s, from, bad) /\ Len(s) \in Nat
<1>1. s \o <<>> = s
    OBVIOUS
<1> QED
    BY <1>1

(* What could not be read stays so at the end of a command, and a command *)
(* that goes on has read everything.                                       *)
LEMMA UnreadStays ==
    ASSUME MemInv, pc = "loop" \/ TransferDone, io' = io, mem' = mem, pc' = "end" \/ Succeeded
    PROVE  Unread \subseteq Unread'
<1>1. CASE pc = "loop" \/ Succeeded
    <2>1. Unread = {}
        BY <1>1 DEF Unread
    <2> QED
        BY <2>1
<1>2. CASE TransferDone /\ pc' = "end"
    BY <1>2 DEF Unread, TransferDone, At, Succeeded, Fails
<1> QED
    BY <1>1, <1>2

(* A command that prints is as it should be afterwards. *)
LEMMA PrintsRight ==
    ASSUME command' = command, pc' \in {"loop", "end"}, Unread \subseteq Unread',
           command.start \in Nat, pc' = "loop" => io'.result = "success",
           InPlace((out \o line)', command.start, Unread), out' \in Seq(Int), line' \in Seq(Int),
           pc' = "loop" => /\ cursor' = command.start + Len((out \o line)')
                           /\ size' = command.end - cursor',
           command.name = "ri" => Len(out') % Instruction = 0,
           (command.name # "rd" \/ size' = 0) => line' = <<>>
    PROVE  Printed' /\ InOrder'
<1>1. DOMAIN (out \o line)' = 1 .. Len((out \o line)') /\ Len(out') \in Nat /\ Len(line') \in Nat
      /\ Len((out \o line)') = Len(out') + Len(line')
    BY DEF InPlace
<1>2. ASSUME NEW i \in DOMAIN (out \o line)'
      PROVE  \/ (out \o line)'[i] = command.start + i - 1
             \/ command.start + i - 1 \in Unread'
    <2>1. /\ i \in 1 .. Len((out \o line)') /\ i \in Int
          /\ command.start + i - 1 = command.start + (i - 1)
        BY <1>1
    <2> QED
        BY <2>1 DEF InPlace
<1>3. Printed'
    BY <1>2 DEF Printed, Right, Succeeded, Active, Transferring
<1>4. InOrder'
    <2>1. \A i \in DOMAIN out' : i \in DOMAIN (out \o line)' /\ (out \o line)'[i] = out'[i]
        BY <1>1
    <2> QED
        BY <1>2, <2>1 DEF InOrder, Right
<1> QED
    BY <1>3, <1>4

LEMMA Elsewhere ==
    ASSUME command' = command, command.name \notin Readers \ {"rb"}, pc' # "command"
    PROVE  Printed' /\ OutputFaithful'
BY DEF Printed, OutputFaithful

(* An end without printing. *)
LEMMA Stops ==
    ASSUME MemInv, pc = "loop" \/ TransferDone, pc' = "end", mem' = mem,
           outcome' \in {"success", "failure", "interrupted"},
           UNCHANGED <<io, range, tx, data, command, cursor, size, out, line>>,
           outcome' = "success" =>
              command.name \notin Readers \ {"rb"} \/ 
                 (pc = "loop" /\ command.name \in {"r", "rd"} /\ size = 0)
    PROVE  MemInv'
<1>5. pc \in Active
    BY DEF TransferDone, At, Active, Transferring
<1>1. /\ cursor \in Nat /\ size \in Nat /\ command.start \in Nat /\ command.end \in Nat
    BY <1>5, CommandPlace
<1>2. Types' /\ Placed' /\ Passed' /\ Filled'
    BY <1>1, <1>5, Ends
<1>3. CASE command.name \in Readers \ {"rb"}
    <2>1. /\ InPlace(out \o line, command.start, Unread) /\ out \in Seq(Int) /\ line \in Seq(Int)
          /\ cursor = command.start + Len(out \o line) /\ size = command.end - cursor
          /\ pc = "loop" => Succeeded
          /\ command.name = "ri" => Len(out) % Instruction = 0
          /\ (command.name # "rd" \/ size = 0) => line = <<>>
        BY <1>3, <1>5, PrintedText
    <2>2. Printed' /\ InOrder'
        BY <1>1, <2>1, UnreadStays, PrintsRight
    <2>3. ASSUME outcome' = "success" PROVE Len(out) = command.end - command.start
        <3>1. size = 0 /\ line = <<>>
            BY <1>3, <2>1, <2>3
        <3>2. out \o line = out /\ Len(out) \in Nat
            BY <2>1, <3>1, NoLine
        <3> QED
            BY <1>1, <2>1, <3>1, <3>2
    <2>4. OutputFaithful'
        BY <1>3, <2>1, <2>2, <2>3 DEF OutputFaithful, Succeeded
    <2> QED
        BY <1>2, <2>2, <2>4 DEF MemInv
<1>4. CASE command.name \notin Readers \ {"rb"}
    BY <1>2, <1>4, Elsewhere DEF MemInv
<1> QED
    BY <1>3, <1>4

LEMMA NothingLeftKeeps ==
    ASSUME MemInv, NothingLeft
    PROVE  MemInv'
<1>1. /\ pc = "loop" /\ command.name \in {"r", "rd", "rb"} /\ size = 0 /\ pc' = "end"
      /\ outcome' = "success"
      /\ mem' = mem /\ UNCHANGED <<io, range, tx, data, command, cursor, size, out, line>>
    BY DEF NothingLeft, Running, At, Finish, Goto, request
<1> QED
    BY <1>1, Stops

LEMMA InterruptedKeeps ==
    ASSUME MemInv, Interrupted
    PROVE  MemInv'
<1>1. /\ TransferDone /\ pc' = "end" /\ outcome' = "interrupted"
      /\ mem' = mem /\ UNCHANGED <<io, range, tx, data, command, cursor, size, out, line>>
    BY DEF Interrupted, Finish, Goto, request
<1> QED
    BY <1>1, Stops

LEMMA FindNothingKeeps ==
    ASSUME MemInv, FindNothing
    PROVE  MemInv'
<1>1. /\ pc = "loop" /\ command.name = "f" /\ pc' = "end" /\ outcome' = "success"
      /\ mem' = mem /\ UNCHANGED <<io, range, tx, data, command, cursor, size, out, line>>
    BY DEF FindNothing, Running, At, Finish, Goto, request
<1>2. command.name \notin Readers
    BY <1>1 DEF Readers
<1> QED
    BY <1>1, <1>2, Stops

(* r, ri and rs print some of what they read. *)
LEMMA Prints ==
    ASSUME MemInv, TransferDone, command.name \in {"r", "ri", "rs"}, NEW n \in 0 .. Transferred,
           out' = out \o Bytes(n), line' = line, command' = command
    PROVE  /\ InPlace((out \o line)', command.start, Unread) /\ out' \in Seq(Int) /\ line' = <<>>
           /\ Len(out') = Len(out) + n /\ Len((out \o line)') = Len(out) + n /\ Len(out) \in Nat
           /\ cursor = command.start + Len(out) /\ size = command.end - cursor
           /\ command.name = "ri" => Len(out) % Instruction = 0
<1>1. /\ pc \in Active /\ InPlace(Bytes(n), cursor, Unread) /\ Len(Bytes(n)) = n
    BY BytesRead
<1>2. /\ InPlace(out \o line, command.start, Unread) /\ out \in Seq(Int)
      /\ cursor = command.start + Len(out \o line) /\ size = command.end - cursor
      /\ command.name = "ri" => Len(out) % Instruction = 0
      /\ line = <<>>
    <2>1. command.name \in Readers \ {"rb"} /\ command.name # "rd"
        BY DEF Readers
    <2> QED
        BY <1>1, <2>1, PrintedText
<1>3. out \o line = out /\ InPlace(out, command.start, Unread) /\ Len(out) \in Nat
    BY <1>2, NoLine
<1>4. InPlace(out', command.start, Unread) /\ Len(out') = Len(out) + n
    <2>1. command.start \in Nat /\ InPlace(Bytes(n), command.start + Len(out), Unread)
        BY <1>1, <1>2, <1>3, CommandPlace
    <2>2. /\ InPlace(out \o Bytes(n), command.start, Unread)
          /\ Len(out \o Bytes(n)) = Len(out) + Len(Bytes(n))
        <3>1. command.start \in Nat /\ InPlace(out, command.start, Unread)
            BY <1>3, <2>1
        <3>2. InPlace(Bytes(n), command.start + Len(out), Unread)
            BY <2>1
        <3> DEFINE bad == Unread  from == command.start  bytes == Bytes(n)
        <3>3. from \in Nat /\ InPlace(out, from, bad) /\ InPlace(bytes, from + Len(out), bad)
            BY <3>1, <3>2
        <3> HIDE DEF bad, from, bytes
        <3>4. InPlace(out \o bytes, from, bad) /\ Len(out \o bytes) = Len(out) + Len(bytes)
            BY <3>3, Appended
        <3> QED
            BY <3>4 DEF bad, from, bytes
    <2> QED
        BY <1>1, <2>2
<1>5. out' \in Seq(Int) /\ (out \o line)' = out' /\ Len((out \o line)') = Len(out')
    <2>1. out' \in Seq(Int)
        BY <1>4 DEF InPlace
    <2>2. out' \o <<>> = out'
        BY <2>1
    <2> QED
        BY <1>2, <2>1, <2>2
<1> QED
    BY <1>2, <1>3, <1>4, <1>5

LEMMA InterruptedPrintingKeeps ==
    ASSUME MemInv, InterruptedPrinting
    PROVE  MemInv'
<1>1. /\ TransferDone /\ command.name \in {"r", "rb"} /\ pc' = "end" /\ outcome' = "interrupted"
      /\ mem' = mem /\ UNCHANGED <<io, range, tx, data, command, cursor, size, line>>
      /\ \E n \in 0 .. Transferred - 1 : out' = out \o Bytes(n)
    BY DEF InterruptedPrinting, HasRead, Finish, Goto, request
<1>2. pc \in Active /\ Transferred \in Nat
    BY <1>1, BytesRead
<1>3. cursor \in Nat /\ size \in Nat /\ command.start \in Nat
    BY <1>2, CommandPlace
<1>4. Types' /\ Placed' /\ Passed' /\ Filled'
    BY <1>1, <1>2, <1>3, Ends
<1>5. CASE command.name = "r"
    <2>1. PICK n \in 0 .. Transferred : out' = out \o Bytes(n)
        BY <1>1, <1>2
    <2>2. InPlace((out \o line)', command.start, Unread) /\ out' \in Seq(Int) /\ line' = <<>>
        BY <1>1, <1>5, <2>1, Prints
    <2>3. line' \in Seq(Int)
        BY <2>2
    <2>4. Printed' /\ InOrder'
        BY <1>1, <1>3, <1>5, <2>2, <2>3, UnreadStays, PrintsRight
    <2> QED
        BY <1>1, <1>4, <2>4 DEF MemInv, OutputFaithful
<1>6. CASE command.name = "rb"
    BY <1>1, <1>4, <1>6, Elsewhere DEF MemInv, Readers
<1> QED
    BY <1>1, <1>5, <1>6

(* The loop goes on, or ends with a failure. *)
LEMMA Continues ==
    ASSUME MemInv, TransferDone, NEW new \in Nat, command.name # "f", Continue(new),
           new = cursor \/ new = cursor + Transferred
    PROVE  /\ Types' /\ Placed' /\ Passed' /\ Filled' /\ command' = command
           /\ outcome' # "success" /\ cursor' = new /\ cursor \in Nat /\ size \in Nat
           /\ Unread \subseteq Unread' /\ (pc' = "loop" => io'.result = "success")
           /\ \/ pc' = "loop" /\ size' = size - Transferred
              \/ pc' = "end" /\ size' = size
<1>1. /\ cursor' = new /\ UNCHANGED <<request, io, range, tx, data, command>>
      /\ mem' = mem
      /\ \/ pc' = "loop" /\ outcome' = outcome /\ size' = size - Transferred /\ Succeeded
         \/ pc' = "end" /\ outcome' = "failure" /\ size' = size
    BY DEF Continue, Finish, Goto, request
<1>2. pc \in Active /\ Transferred \in Nat /\ Transferred <= size
    BY BytesRead
<1>3. /\ cursor \in Nat /\ size \in Nat /\ cursor + size <= command.end /\ command.end \in Nat
      /\ outcome = "running" /\ data \in DataType
    BY <1>2, CommandPlace
<1>4. Unread \subseteq Unread' /\ (pc' = "loop" => io'.result = "success")
    BY <1>1, UnreadStays DEF Succeeded
<1>5. CASE pc' = "loop" /\ outcome' = outcome /\ size' = size - Transferred
    <2>1. size' \in Nat /\ cursor' + size' <= command.end
        BY <1>1, <1>2, <1>3, <1>5
    <2>2. Types' /\ Placed' /\ Passed' /\ Filled'
        BY <1>1, <1>2, <1>3, <1>5, <2>1, Loops
    <2> QED
        BY <1>1, <1>3, <1>4, <1>5, <2>2
<1>6. CASE pc' = "end" /\ outcome' = "failure" /\ size' = size
    <2>1. Types' /\ Placed' /\ Passed' /\ Filled'
        BY <1>1, <1>2, <1>3, <1>6, Ends
    <2> QED
        BY <1>1, <1>3, <1>4, <1>6, <2>1
<1> QED
    BY <1>1, <1>5, <1>6

LEMMA DumpBinaryKeeps ==
    ASSUME MemInv, DumpBinary
    PROVE  MemInv'
<1>1. TransferDone /\ command.name = "rb" /\ Continue(cursor)
    BY DEF DumpBinary, HasRead
<1>2. cursor \in Nat
    BY <1>1, BytesRead, CommandPlace
<1>3. Types' /\ Placed' /\ Passed' /\ Filled' /\ command' = command /\ pc' # "command"
    BY <1>1, <1>2, Continues
<1> QED
    BY <1>1, <1>3, Elsewhere DEF MemInv

LEMMA PrintWordsKeeps ==
    ASSUME MemInv, PrintWords
    PROVE  MemInv'
<1>1. /\ TransferDone /\ command.name = "r" /\ line' = line
      /\ out' = out \o Bytes(Transferred) /\ Continue(cursor + Transferred)
    BY DEF PrintWords, HasRead
<1>2. pc \in Active /\ Transferred \in Nat /\ cursor \in Nat /\ command.end \in Nat
      /\ command.start \in Nat
    BY <1>1, BytesRead, CommandPlace
<1>3. /\ Types' /\ Placed' /\ Passed' /\ Filled' /\ command' = command
      /\ Unread \subseteq Unread' /\ (pc' = "loop" => io'.result = "success")
      /\ outcome' # "success" /\ cursor' = cursor + Transferred /\ size \in Nat
      /\ \/ pc' = "loop" /\ size' = size - Transferred
         \/ pc' = "end" /\ size' = size
    <2>1. cursor + Transferred \in Nat
        BY <1>2
    <2> QED
        BY <1>1, <2>1, Continues
<1>4. /\ InPlace((out \o line)', command.start, Unread) /\ out' \in Seq(Int) /\ line' = <<>>
      /\ Len(out') = Len(out) + Transferred /\ Len((out \o line)') = Len(out') /\ Len(out) \in Nat
      /\ cursor = command.start + Len(out) /\ size = command.end - cursor
    <2>1. Transferred \in 0 .. Transferred
        BY <1>2
    <2> QED
        BY <1>1, <1>3, <2>1, Prints
<1>5. pc' = "loop" => cursor' = command.start + Len((out \o line)') /\ size' = command.end - cursor'
    <2> DEFINE whole == Len((out \o line)')
               before == Len(out)
    <2>1. whole = before + Transferred /\ before \in Nat
          /\ cursor = command.start + before /\ size = command.end - cursor
        BY <1>4
    <2> HIDE DEF whole, before
    <2>2. pc' = "loop" => cursor' = command.start + whole /\ size' = command.end - cursor'
        BY <1>2, <1>3, <2>1
    <2> QED
        BY <2>2 DEF whole
<1>6. line' \in Seq(Int)
    BY <1>4
<1>7. Printed' /\ InOrder'
    BY <1>1, <1>2, <1>3, <1>4, <1>5, <1>6, PrintsRight
<1> QED
    BY <1>3, <1>7 DEF MemInv, OutputFaithful

LEMMA ReadStringKeeps ==
    ASSUME MemInv, ReadString
    PROVE  MemInv'
<1>0. PICK old \in SUBSET {i \in 1 .. Transferred : data[i - 1] = -1} :
         LET nuls == old \cup {i \in 1 .. Transferred : data[i - 1] \in Nuls}
             len == IF nuls = {} THEN Transferred ELSE Min(nuls) - 1
         IN  /\ out' = out \o Bytes(len)
             /\ size' = size - Transferred /\ cursor' = cursor + Transferred
             /\ IF ~Succeeded THEN Finish("failure")
                ELSE IF len < Transferred \/ size' = 0 THEN Finish("success")
                ELSE Goto("loop") /\ UNCHANGED outcome
    BY DEF ReadString
<1> DEFINE nuls == old \cup {i \in 1 .. Transferred : data[i - 1] \in Nuls}
           len == IF nuls = {} THEN Transferred ELSE Min(nuls) - 1
<1>1. /\ TransferDone /\ command.name = "rs" /\ line' = line /\ command' = command
      /\ UNCHANGED <<request, io, range, tx, data>> /\ mem' = mem
      /\ out' = out \o Bytes(len)
      /\ size' = size - Transferred /\ cursor' = cursor + Transferred
      /\ \/ pc' = "end" /\ outcome' = "failure"
         \/ pc' = "end" /\ outcome' = "success" /\ (len < Transferred \/ size' = 0)
            /\ Succeeded
         \/ pc' = "loop" /\ outcome' = outcome /\ ~ (len < Transferred)
            /\ Succeeded
    BY <1>0 DEF ReadString, HasRead, Finish, Goto, request
<1>2. /\ pc \in Active /\ Transferred \in Nat /\ Transferred <= size
      /\ Succeeded => \A i \in 0 .. Transferred - 1 : data[i] = cursor + i
    BY <1>1, BytesRead
<1>3. /\ cursor \in Nat /\ size \in Nat /\ cursor + size <= command.end /\ command.end \in Nat
      /\ outcome = "running" /\ data \in DataType /\ command.start \in Nat
    BY <1>1, <1>2, CommandPlace
<1>4. len \in 0 .. Transferred /\ (Succeeded /\ len < Transferred => cursor + len \in Nuls)
    <2>1. CASE nuls = {}
        BY <1>2, <2>1
    <2>2. CASE nuls # {}
        <3>1. \A n \in nuls : n \in 1 .. Transferred
                              /\ (data[n - 1] = -1 \/ data[n - 1] \in Nuls)
            BY <1>0
        <3> HIDE DEF nuls
        <3>2. nuls \in SUBSET Nat
            BY <1>2, <3>1
        <3>3. Min(nuls) \in nuls
            BY <2>2, <3>2, LeastOf
        <3>4. /\ Min(nuls) \in 1 .. Transferred
              /\ data[Min(nuls) - 1] = -1 \/ data[Min(nuls) - 1] \in Nuls
            BY <3>1, <3>3
        <3>5. len = Min(nuls) - 1
            BY <2>2
        <3> HIDE DEF len
        <3>6. len \in 0 .. Transferred - 1
            BY <1>2, <3>4, <3>5
        <3>7. ASSUME Succeeded PROVE data[len] \in Nuls /\ data[len] = cursor + len
            <4>1. data[len] = cursor + len /\ len \in Nat
                BY <1>2, <3>6, <3>7
            <4>2. data[len] # -1
                BY <1>3, <4>1
            <4>3. data[len] = -1 \/ data[len] \in Nuls
                BY <1>2, <3>4, <3>5, <3>6
            <4> QED
                BY <4>1, <4>2, <4>3
        <3> QED
            BY <1>2, <3>6, <3>7
    <2> QED
        BY <2>1, <2>2
<1> HIDE DEF len, nuls
<1>5. size' \in Nat /\ cursor' \in Nat /\ cursor' + size' <= command.end
    BY <1>1, <1>2, <1>3
<1>6. Types' /\ Placed' /\ Passed' /\ Filled'
    <2>1. CASE pc' = "end"
        <3>1. outcome' \in {"success", "failure", "interrupted"}
            BY <1>1, <2>1
        <3> QED
            BY <1>1, <1>2, <1>5, <2>1, <3>1, Ends
    <2>2. CASE pc' = "loop"
        <3>1. outcome' = outcome
            BY <1>1, <2>2
        <3> QED
            BY <1>1, <1>2, <1>3, <1>5, <2>2, <3>1, Loops
    <2> QED
        BY <1>1, <2>1, <2>2
<1>7. /\ InPlace((out \o line)', command.start, Unread) /\ out' \in Seq(Int) /\ line' = <<>>
      /\ Len(out') = Len(out) + len /\ Len((out \o line)') = Len(out') /\ Len(out) \in Nat
      /\ cursor = command.start + Len(out) /\ size = command.end - cursor
    BY <1>1, <1>4, Prints
<1> DEFINE whole == Len((out \o line)')
           before == Len(out)
<1>13. /\ whole = before + len /\ before \in Nat /\ Len(out') = before + len
       /\ cursor = command.start + before /\ size = command.end - cursor
    BY <1>7
<1> HIDE DEF whole, before
<1>8. len \in Nat /\ len <= Transferred
    BY <1>2, <1>4
<1>14. /\ before \in Nat /\ cursor = command.start + before /\ size = command.end - cursor
       /\ whole = before + len
    BY <1>13
<1>15. /\ cursor \in Nat /\ size \in Nat /\ command.start \in Nat /\ command.end \in Nat
       /\ Transferred \in Nat /\ size' = size - Transferred /\ cursor' = cursor + Transferred
    BY <1>1, <1>2, <1>3
<1>9. pc' = "loop" => cursor' = command.start + Len((out \o line)') /\ size' = command.end - cursor'
    <2>1. pc' = "loop" => len = Transferred
        BY <1>1, <1>2, <1>8
    <2> QED
        <3>1. pc' = "loop" => cursor' = command.start + whole /\ size' = command.end - cursor'
            BY <1>8, <1>14, <1>15, <2>1
        <3> QED
            BY <3>1 DEF whole
<1>10. Printed' /\ InOrder'
    <2>1. line' \in Seq(Int)
        BY <1>7
    <2> QED
        BY <1>1, <1>3, <1>7, <1>9, <2>1, UnreadStays, PrintsRight DEF Succeeded
<1>11. ASSUME outcome' = "success"
       PROVE  Len(out') = command.end - command.start \/ command.start + Len(out') \in Nuls
    <2>1. len < Transferred \/ size' = 0
        BY <1>1, <1>3, <1>11
    <2>2. CASE len < Transferred
        <3>1. cursor + len = command.start + Len(out')
            BY <1>3, <1>8, <1>13
        <3> QED
            BY <1>1, <1>3, <1>4, <1>11, <2>2, <3>1
    <2>3. CASE ~ (len < Transferred)
        <3>1. len = Transferred /\ size = Transferred
            BY <1>1, <1>2, <1>3, <1>8, <2>1, <2>3
        <3> QED
            <4> DEFINE printed == Len(out')
            <4>1. printed = before + len
                BY <1>13
            <4> HIDE DEF printed
            <4>2. printed = command.end - command.start
                BY <1>8, <1>14, <1>15, <3>1, <4>1
            <4> QED
                BY <4>2 DEF printed
    <2> QED
        BY <2>2, <2>3
<1>12. OutputFaithful'
    BY <1>1, <1>3, <1>10, <1>11 DEF OutputFaithful, Succeeded
<1> QED
    BY <1>6, <1>10, <1>12 DEF MemInv

LEMMA DisassembleKeeps ==
    ASSUME MemInv, Disassemble
    PROVE  MemInv'
<1> DEFINE whole == Transferred - (Transferred % Instruction)
           before == Len(out)
<1>1. /\ TransferDone /\ command.name = "ri" /\ line' = line /\ command' = command
      /\ UNCHANGED <<request, io, range, tx, data>> /\ mem' = mem
      /\ out' = out \o Bytes(whole)
      /\ \/ pc' = "end" /\ outcome' = "failure" /\ cursor' = cursor /\ size' = size
         \/ /\ pc' = "end" /\ outcome' = "success" /\ cursor' = cursor /\ size' = size
            /\ Transferred = size /\ Succeeded
         \/ /\ pc' = "loop" /\ outcome' = outcome
            /\ cursor' = cursor + whole /\ size' = size - whole /\ Succeeded
    BY DEF Disassemble, HasRead, Finish, Goto, request
<1>2. pc \in Active /\ Transferred \in Nat /\ Transferred <= size
    BY <1>1, BytesRead
<1>3. /\ cursor \in Nat /\ size \in Nat /\ cursor + size <= command.end /\ command.end \in Nat
      /\ outcome = "running" /\ data \in DataType /\ command.start \in Nat
    BY <1>1, <1>2, CommandPlace
<1>4. whole \in 0 .. Transferred
    <2>1. 0 \in Nat /\ 0 % Instruction = 0
        <3>1. Instruction \in Nat \ {0}
            BY LineAssumption, Sizes
        <3>2. 0 \in 0 .. Instruction - 1 /\ Instruction * 0 + 0 = 0
            BY <3>1
        <3> QED
            BY <3>1, <3>2, Remainder
    <2> QED
        BY <1>2, <2>1, WholeInstructions
<1>5. /\ InPlace((out \o line)', command.start, Unread) /\ out' \in Seq(Int) /\ line' = <<>>
      /\ Len(out') = before + whole /\ Len((out \o line)') = before + whole /\ before \in Nat
      /\ cursor = command.start + before /\ size = command.end - cursor
      /\ before % Instruction = 0
    <2> HIDE DEF whole
    <2> QED
        BY <1>1, <1>4, Prints
<1>6. /\ (before + whole) % Instruction = 0
      /\ (before + Transferred) % Instruction = Transferred % Instruction
    BY <1>2, <1>5, WholeInstructions
<1> HIDE DEF whole, before
<1>7. whole \in Nat /\ whole <= Transferred
    BY <1>2, <1>4
<1>8. Types' /\ Placed' /\ Passed' /\ Filled'
    <2>1. CASE pc' = "end" /\ cursor' = cursor /\ size' = size
        <3>1. outcome' \in {"success", "failure", "interrupted"}
            BY <1>1, <2>1
        <3> QED
            BY <1>1, <1>2, <1>3, <2>1, <3>1, Ends
    <2>2. CASE pc' = "loop" /\ outcome' = outcome /\ cursor' = cursor + whole /\ size' = size - whole
        <3>1. size' \in Nat /\ cursor' \in Nat /\ cursor' + size' <= command.end
            BY <1>2, <1>3, <1>7, <2>2
        <3> QED
            BY <1>1, <1>2, <1>3, <2>2, <3>1, Loops
    <2> QED
        BY <1>1, <2>1, <2>2
<1>9. before \in Nat /\ cursor = command.start + before /\ size = command.end - cursor
    BY <1>5
<1>10. pc' = "loop" => /\ cursor' = command.start + Len((out \o line)')
                       /\ size' = command.end - cursor'
    <2>1. pc' = "loop" => cursor' = cursor + whole /\ size' = size - whole
        BY <1>1
    <2>2. pc' = "loop" => /\ cursor' = command.start + (before + whole)
                          /\ size' = command.end - cursor'
        BY <1>3, <1>7, <1>9, <2>1
    <2> QED
        BY <1>5, <2>2
<1>11. Printed' /\ InOrder'
    <2>1. line' \in Seq(Int) /\ Len(out') % Instruction = 0
        BY <1>5, <1>6
    <2> QED
        BY <1>1, <1>3, <1>5, <1>10, <2>1, UnreadStays, PrintsRight DEF Succeeded
<1>12. ASSUME outcome' = "success"
       PROVE  Len(out') = (command.end - command.start)
                             - ((command.end - command.start) % Instruction)
    <2>1. size = Transferred
        BY <1>1, <1>3, <1>12
    <2>2. command.end - command.start = before + Transferred
        BY <1>3, <1>9, <2>1
    <2>3. (command.end - command.start) % Instruction = Transferred % Instruction
        BY <1>6, <2>2
    <2>4. before + whole = (command.end - command.start) - (Transferred % Instruction)
        <3> DEFINE rest == Transferred % Instruction
        <3>1. whole = Transferred - rest
            BY DEF whole
        <3>2. rest \in Int
            <4>1. Instruction \in Nat \ {0}
                BY LineAssumption, Sizes
            <4> QED
                BY <1>2, <4>1
        <3> HIDE DEF rest
        <3>3. before + whole = (before + Transferred) - rest
            BY <1>2, <1>9, <3>1, <3>2
        <3> QED
            BY <2>2, <3>3 DEF rest
    <2> QED
        BY <1>5, <2>3, <2>4
<1>13. OutputFaithful'
    BY <1>1, <1>3, <1>11, <1>12 DEF OutputFaithful, Succeeded
<1> QED
    BY <1>8, <1>11, <1>13 DEF MemInv

LEMMA Concatenated ==
    ASSUME NEW s \in Seq(Int), NEW t \in Seq(Int), NEW m, NEW n, m = Len(s), n = Len(t)
    PROVE  /\ s \o t \in Seq(Int) /\ Len(s \o t) = m + n /\ m \in Nat /\ n \in Nat
           /\ \A i \in 1 .. m + n : (s \o t)[i] = IF i <= m THEN s[i] ELSE t[i - m]
OBVIOUS

(* Cutting a text where the line that is not full begins loses nothing. *)
LEMMA Cut ==
    ASSUME NEW bad, NEW from \in Nat, NEW s \in Seq(Int), NEW t \in Seq(Int), NEW n \in 0 .. Len(t),
           InPlace(s \o t, from, bad)
    PROVE  LET u == s \o SubSeq(t, 1, n)
               v == SubSeq(t, n + 1, Len(t))
           IN  /\ u \in Seq(Int) /\ v \in Seq(Int)
               /\ InPlace(u \o v, from, bad) /\ Len(u \o v) = Len(s) + Len(t)
               /\ n = Len(t) => v = <<>>
<1> DEFINE a == SubSeq(t, 1, n)
           v == SubSeq(t, n + 1, Len(t))
           u == s \o a
<1>1. Len(s) \in Nat /\ Len(t) \in Nat /\ n \in Nat /\ n <= Len(t)
    OBVIOUS
<1>2. \A i \in 1 .. n : t[i] \in Int
    BY <1>1
<1>3. \A i \in n + 1 .. Len(t) : t[i] \in Int
    BY <1>1
<1>4. /\ a \in Seq(Int) /\ Len(a) = n
      /\ \A i \in 1 .. n : a[i] = t[i]
    BY <1>1, <1>2, SubSeqProperties
<1>5. /\ v \in Seq(Int) /\ Len(v) = Len(t) - n
      /\ \A i \in 1 .. Len(t) - n : v[i] = t[n + i]
    BY <1>1, <1>3, SubSeqProperties
<1>6. n = Len(t) => v = <<>>
    BY <1>1, <1>5
<1> HIDE DEF a, v
<1>7. /\ u \in Seq(Int) /\ Len(u) = Len(s) + n
      /\ \A i \in 1 .. Len(s) + n : u[i] = IF i <= Len(s) THEN s[i] ELSE a[i - Len(s)]
    <2> DEFINE m == Len(s)
    <2>1. m = Len(s) /\ n = Len(a) /\ a \in Seq(Int)
        BY <1>4
    <2> HIDE DEF m
    <2>2. /\ s \o a \in Seq(Int) /\ Len(s \o a) = m + n
          /\ \A i \in 1 .. m + n : (s \o a)[i] = IF i <= m THEN s[i] ELSE a[i - m]
        BY <2>1, Concatenated
    <2> QED
        BY <2>2 DEF m
<1> HIDE DEF u
<1>8. /\ u \o v \in Seq(Int) /\ Len(u \o v) = Len(s) + Len(t)
      /\ \A i \in 1 .. Len(s) + Len(t) :
            (u \o v)[i] = IF i <= Len(s) + n THEN u[i] ELSE v[i - (Len(s) + n)]
    <2> DEFINE m == Len(s) + n
               k == Len(t) - n
    <2>1. m = Len(u) /\ k = Len(v) /\ m + k = Len(s) + Len(t)
        BY <1>1, <1>5, <1>7
    <2>2. u \in Seq(Int) /\ v \in Seq(Int)
        BY <1>5, <1>7
    <2> HIDE DEF m, k
    <2>3. /\ u \o v \in Seq(Int) /\ Len(u \o v) = m + k
          /\ \A i \in 1 .. m + k : (u \o v)[i] = IF i <= m THEN u[i] ELSE v[i - m]
        BY <2>1, <2>2, Concatenated
    <2> QED
        BY <2>1, <2>3 DEF m
<1>9. ASSUME NEW i \in 1 .. Len(s) + Len(t) 
      PROVE  (u \o v)[i] = from + (i - 1) \/ from + (i - 1) \in bad
    <2>1. /\ (s \o t)[i] = from + (i - 1) \/ from + (i - 1) \in bad
          /\ (s \o t)[i] = IF i <= Len(s) THEN s[i] ELSE t[i - Len(s)]
        BY <1>1 DEF InPlace
    <2>2. CASE i <= Len(s)
        <3>1. i \in 1 .. Len(s) + n /\ i <= Len(s) + n
            BY <1>1, <2>2
        <3>2. (u \o v)[i] = u[i]
            BY <1>8, <3>1
        <3>3. u[i] = s[i]
            BY <1>7, <2>2, <3>1
        <3> QED
            BY <2>1, <2>2, <3>2, <3>3
    <2>3. CASE ~ (i <= Len(s)) /\ i <= Len(s) + n
        <3>1. i \in 1 .. Len(s) + n /\ i - Len(s) \in 1 .. n
            BY <1>1, <2>3
        <3>2. (u \o v)[i] = u[i]
            BY <1>8, <2>3
        <3>3. u[i] = a[i - Len(s)]
            BY <1>7, <2>3, <3>1
        <3>4. a[i - Len(s)] = t[i - Len(s)]
            BY <1>4, <3>1
        <3> QED
            BY <2>1, <2>3, <3>2, <3>3, <3>4
    <2>4. CASE ~ (i <= Len(s)) /\ ~ (i <= Len(s) + n)
        <3>1. i - (Len(s) + n) \in 1 .. Len(t) - n /\ n + (i - (Len(s) + n)) = i - Len(s)
            BY <1>1, <2>4
        <3>2. (u \o v)[i] = v[i - (Len(s) + n)] /\ v[i - (Len(s) + n)] = t[i - Len(s)]
            BY <1>5, <1>8, <2>4, <3>1
        <3> QED
            BY <2>1, <2>4, <3>2
    <2> QED
        BY <2>2, <2>3, <2>4
<1>10. InPlace(u \o v, from, bad)
    BY <1>8, <1>9 DEF InPlace
<1> QED
    BY <1>5, <1>6, <1>7, <1>8, <1>10 DEF u, a, v

LEMMA LineStarts ==
    ASSUME NEW a \in Nat
    PROVE  a - LineStart(a) \in Nat
<1>1. PICK q \in Nat, r \in 0 .. Line - 1 : a = Line * q + r /\ a % Line = r /\ Line * q \in Nat
    BY LineAssumption, Divided
<1>2. a \div Line \in Nat /\ a % Line \in 0 .. Line - 1 /\ a = Line * (a \div Line) + (a % Line)
    BY LineAssumption, Z3
<1>3. LineStart(a) = Line * (a \div Line) /\ Line * (a \div Line) \in Nat
    BY <1>2, LineAssumption DEF LineStart
<1>4. a % Line \in Nat
    BY <1>2, LineAssumption
<1> QED
    BY <1>2, <1>3, <1>4

LEMMA Regrouped ==
    ASSUME NEW s \in Seq(Int), NEW t \in Seq(Int), NEW r \in Seq(Int)
    PROVE  s \o (t \o r) = (s \o t) \o r
OBVIOUS

(* rd prints whole lines, and keeps what has no line yet. *)
LEMMA DumpLinesKeeps ==
    ASSUME MemInv, DumpLines
    PROVE  MemInv'
<1> DEFINE new == cursor + Transferred
           text == line \o Bytes(Transferred)
           full == Len(text) - Unfinished(text, new)
<1>1. TransferDone /\ command.name = "rd"
    BY DEF DumpLines, HasRead
<1>2. /\ pc \in Active /\ Transferred \in Nat /\ Transferred <= size
      /\ InPlace(Bytes(Transferred), cursor, Unread) /\ Len(Bytes(Transferred)) = Transferred
    <2>1. Transferred \in Nat
        BY <1>1, BytesRead
    <2>2. Transferred \in 0 .. Transferred
        BY <2>1
    <2> QED
        BY <1>1, <2>2, BytesRead
<1>3. CASE Transferred = 0
    <2>1. /\ pc' = "end" /\ outcome' = "failure" /\ mem' = mem
          /\ UNCHANGED <<io, range, tx, data, command, cursor, size, out, line>>
        BY <1>3 DEF DumpLines, Finish, Goto, request
    <2> QED
        BY <1>1, <2>1, Stops
<1>4. CASE Transferred # 0
    <2>1. /\ out' = out \o SubSeq(text, 1, full) /\ line' = SubSeq(text, full + 1, Len(text))
          /\ \/ Continue(new)
             \/ /\ Transferred = size /\ cursor' = new /\ size' = 0
                /\ pc' = "end" /\ outcome' = "success"
                /\ UNCHANGED <<request, io, range, tx, data, command>>
        <3>1. /\ out' = out \o SubSeq(text, 1, full) /\ line' = SubSeq(text, full + 1, Len(text))
              /\ IF Succeeded \/ Transferred < size THEN Continue(new)
                 ELSE /\ cursor' = new /\ size' = 0 /\ Finish("success")
                      /\ UNCHANGED <<request, io, range, tx, data, command>>
            BY <1>4 DEF DumpLines
        <3>2. size \in Nat
            BY <1>2, CommandPlace
        <3>3. Transferred < size \/ Transferred = size
            BY <1>2, <3>2
        <3> QED
            BY <3>1, <3>3 DEF Finish, Goto
    <2>2. /\ cursor \in Nat /\ size \in Nat /\ command.start \in Nat /\ command.end \in Nat
        BY <1>2, CommandPlace
    <2>3. new \in Nat
        BY <1>2, <2>2
    <2>4. /\ Types' /\ Placed' /\ Passed' /\ Filled' /\ command' = command
          /\ Unread \subseteq Unread' /\ (pc' = "loop" => io'.result = "success")
          /\ cursor' = new
          /\ \/ pc' = "loop" /\ size' = size - Transferred /\ outcome' # "success"
             \/ pc' = "end" /\ size' = size /\ outcome' # "success"
             \/ pc' = "end" /\ size' = 0 /\ size = Transferred
        <3>1. CASE Continue(new)
            BY <1>1, <2>3, <3>1, Continues
        <3>2. CASE /\ Transferred = size /\ cursor' = new /\ size' = 0
                   /\ pc' = "end" /\ outcome' = "success"
                   /\ UNCHANGED <<request, io, range, tx, data, command>>
            <4>1. Types' /\ Placed' /\ Passed' /\ Filled'
                BY <1>2, <2>3, <3>2, Ends
            <4>2. Unread \subseteq Unread'
                BY <1>1, <3>2, UnreadStays DEF request
            <4> QED
                BY <3>2, <4>1, <4>2
        <3> QED
            BY <2>1, <3>1, <3>2
    <2>5. /\ InPlace(out \o line, command.start, Unread) /\ out \in Seq(Int) /\ line \in Seq(Int)
          /\ cursor = command.start + Len(out \o line) /\ size = command.end - cursor
        BY <1>1, <1>2, PrintedText DEF Readers
    <2>6. Bytes(Transferred) \in Seq(Int)
        BY <1>2 DEF InPlace
    <2>7. text \in Seq(Int) /\ out \o text = (out \o line) \o Bytes(Transferred)
        <3> DEFINE bytes == Bytes(Transferred)
        <3>1. bytes \in Seq(Int) /\ text = line \o bytes
            BY <2>6
        <3> HIDE DEF bytes, text
        <3>2. text \in Seq(Int)
            BY <2>5, <3>1
        <3>3. out \o (line \o bytes) = (out \o line) \o bytes
            BY <2>5, <3>1, Regrouped
        <3> QED
            BY <3>1, <3>2, <3>3 DEF bytes
    <2>8. InPlace(out \o text, command.start, Unread)
          /\ Len(out \o text) = Len(out \o line) + Transferred
        <3>1. InPlace(Bytes(Transferred), command.start + Len(out \o line), Unread)
            BY <1>2, <2>5
        <3>2. command.start \in Nat /\ InPlace(out \o line, command.start, Unread)
            BY <2>2, <2>5
        <3> DEFINE bad == Unread  from == command.start
                   old == out \o line  bytes == Bytes(Transferred)
        <3>3. from \in Nat /\ InPlace(old, from, bad) /\ InPlace(bytes, from + Len(old), bad)
            BY <3>1, <3>2
        <3> HIDE DEF bad, from, old, bytes
        <3>4. InPlace(old \o bytes, from, bad) /\ Len(old \o bytes) = Len(old) + Len(bytes)
            BY <3>3, Appended
        <3> QED
            BY <1>2, <2>7, <3>4 DEF bad, from, old, bytes
    <2>9. Len(text) \in Nat /\ Len(out) + Len(text) = Len(out \o line) + Transferred
        <3>1. Len(text) \in Nat /\ Len(out \o text) = Len(out) + Len(text)
            <4> HIDE DEF text
            <4> QED
                BY <2>5, <2>7
        <3> QED
            BY <2>8, <3>1
    <2>10. full \in 0 .. Len(text) /\ (size = Transferred => full = Len(text))
        <3> DEFINE rest == new - LineStart(new)
                   long == Len(text)
        <3>1. rest \in Nat
            BY <2>3, LineStarts
        <3>2. long \in Nat
            BY <2>9
        <3>3. full = long - (IF size = Transferred THEN 0 ELSE IF long < rest THEN long ELSE rest)
            BY DEF Unfinished, Least
        <3> HIDE DEF rest, long, full
        <3>4. full \in 0 .. long /\ (size = Transferred => full = long)
            BY <3>1, <3>2, <3>3
        <3> QED
            BY <3>4 DEF long
    <2> HIDE DEF text, full
    <2>11. /\ out' \in Seq(Int) /\ line' \in Seq(Int)
           /\ InPlace(out' \o line', command.start, Unread) /\ Len(out' \o line') = Len(out) + Len(text)
           /\ full = Len(text) => line' = <<>>
        <3>1. /\ command.start \in Nat /\ out \in Seq(Int) /\ text \in Seq(Int)
              /\ full \in 0 .. Len(text) /\ InPlace(out \o text, command.start, Unread)
            BY <2>2, <2>5, <2>7, <2>8, <2>10
        <3> DEFINE u == out \o SubSeq(text, 1, full)
                   v == SubSeq(text, full + 1, Len(text))
        <3>2. /\ u \in Seq(Int) /\ v \in Seq(Int)
              /\ InPlace(u \o v, command.start, Unread) /\ Len(u \o v) = Len(out) + Len(text)
              /\ full = Len(text) => v = <<>>
            BY <3>1, Cut, Zenon
        <3>3. out' = u /\ line' = v
            BY <2>1
        <3> HIDE DEF u, v
        <3> QED
            BY <3>2, <3>3
    <2>12. pc' = "loop" => /\ cursor' = command.start + Len(out' \o line')
                           /\ size' = command.end - cursor'
        <3> DEFINE after == Len(out' \o line')
                   before == Len(out \o line)
        <3>1. after = before + Transferred /\ cursor = command.start + before
              /\ size = command.end - cursor /\ before \in Nat
            <4>1. Len(out \o line) \in Nat
                BY <2>5
            <4> QED
                BY <2>5, <2>9, <2>11, <4>1
        <3> HIDE DEF after, before
        <3>2. pc' = "loop" => cursor' = cursor + Transferred /\ size' = size - Transferred
            BY <2>4
        <3>3. pc' = "loop" => cursor' = command.start + after /\ size' = command.end - cursor'
            <4>1. /\ Transferred \in Nat /\ command.start \in Nat /\ command.end \in Nat
                  /\ after \in Nat /\ cursor \in Nat
                BY <1>2, <2>2, <3>1
            <4>2. pc' = "loop" => cursor' = command.start + after
                BY <3>1, <3>2, <4>1
            <4>3. pc' = "loop" => size' = command.end - cursor'
                BY <3>1, <3>2, <4>1
            <4> QED
                BY <4>2, <4>3
        <3> QED
            BY <3>3 DEF after
    <2>13. size' = 0 => line' = <<>>
        <3>1. size' = 0 => size = Transferred
            BY <1>2, <1>4, <2>2, <2>4
        <3> QED
            BY <2>10, <2>11, <3>1
    <2>14. Printed' /\ InOrder'
        <3>1. pc' \in {"loop", "end"} /\ InPlace((out \o line)', command.start, Unread)
            BY <2>4, <2>11
        <3> QED
            BY <1>1, <2>2, <2>4, <2>11, <2>12, <2>13, <3>1, PrintsRight
    <2>15. ASSUME outcome' = "success" PROVE Len(out') = command.end - command.start
        <3>1. size = Transferred /\ line' = <<>>
            BY <2>4, <2>13, <2>15
        <3>2. out' \o line' = out' /\ Len(out') \in Nat
            BY <2>11, <3>1
        <3>3. Len(out') = Len(out \o line) + Transferred /\ Len(out \o line) \in Nat
            BY <2>5, <2>9, <2>11, <3>2
        <3> DEFINE before == Len(out \o line)
                   after == Len(out')
        <3>4. /\ after = before + Transferred /\ before \in Nat /\ Transferred \in Nat
              /\ cursor = command.start + before /\ size = command.end - cursor
            BY <1>2, <2>5, <3>3
        <3> HIDE DEF before, after
        <3>5. after = command.end - command.start
            BY <2>2, <3>1, <3>4
        <3> QED
            BY <3>5 DEF after
    <2> QED
        BY <1>1, <2>4, <2>14, <2>15 DEF MemInv, OutputFaithful
<1> QED
    BY <1>3, <1>4

(* After a full page, f keeps the last word before the buffer. *)
LEMMA KeptWord ==
    ASSUME data \in DataType, KeepLastWord
    PROVE  data' \in DataType
<1>1. CASE UNCHANGED data
    BY <1>1
<1>2. CASE data' = [i \in DOMAIN data |-> IF i < 0 THEN data[PageSize + i] ELSE data[i]]
    <2>1. DOMAIN data = -Word .. PageSize - 1 /\ PageSize \in Nat /\ Word \in Nat /\ Word <= PageSize
        BY Sizes DEF DataType
    <2>2. ASSUME NEW i \in -Word .. PageSize - 1
          PROVE  (IF i < 0 THEN data[PageSize + i] ELSE data[i]) \in Int
        <3>1. i < 0 => PageSize + i \in -Word .. PageSize - 1
            BY <2>1
        <3> QED
            BY <3>1 DEF DataType
    <2> QED
        BY <1>2, <2>1, <2>2 DEF DataType
<1> QED
    BY <1>1, <1>2 DEF KeepLastWord

LEMMA FindWindowsKeeps ==
    ASSUME MemInv, FindWindows
    PROVE  MemInv'
<1>1. /\ TransferDone /\ command.name = "f" /\ command' = command
      /\ UNCHANGED <<io, range, tx, size, out, line>> /\ UNCHANGED request
      /\ KeepLastWord \/ UNCHANGED data
      /\ \/ pc' = "end" /\ outcome' = "success" /\ cursor' = cursor
         \/ /\ pc' = "loop" /\ outcome' = outcome
            /\ cursor' = io.next /\ ~ (io.next >= command.end)
    BY DEF FindWindows, HasRead, Finish, Goto
<1>2. pc \in Active
    BY <1>1, BytesRead
<1>3. io \in IoType /\ data \in DataType /\ cursor \in Nat /\ size \in Nat /\ command.end \in Nat
    BY <1>2, CommandPlace
<1>4. io.next \in Nat /\ data' \in DataType
    BY <1>1, <1>3, KeptWord DEF IoType
<1>5. CASE pc' = "end" /\ outcome' = "success" /\ cursor' = cursor
    <2>1. Types' /\ Placed' /\ Passed' /\ Filled'
        <3>1. io \in IoType /\ range \in RangeType /\ tx \in TxType
            BY <1>2, CommandPlace
        <3>2. Types'
            BY <1>1, <1>3, <1>4, <1>5, <3>1 DEF Types, Active, Transferring
        <3> QED
            BY <1>5, <3>2 DEF Placed, Passed, Filled, Active, Transferring
    <2>2. Printed' /\ OutputFaithful'
        BY <1>1, <1>5, Elsewhere DEF Readers
    <2> QED
        BY <2>1, <2>2 DEF MemInv
<1>6. CASE /\ pc' = "loop" /\ outcome' = outcome
           /\ cursor' = io.next /\ ~ (io.next >= command.end)
    <2>1. cursor' < command.end /\ cursor' \in Nat /\ size' \in Nat
        BY <1>1, <1>3, <1>4, <1>6
    <2>2. Types' /\ Placed' /\ Passed' /\ Filled'
        BY <1>1, <1>2, <1>4, <1>6, <2>1, Loops
    <2>3. Printed' /\ OutputFaithful'
        BY <1>1, <1>6, Elsewhere DEF Readers
    <2> QED
        BY <2>2, <2>3 DEF MemInv
<1> QED
    BY <1>1, <1>5, <1>6

LEMMA CommandKeeps ==
    ASSUME MemInv, CommandStep
    PROVE  MemInv'
BY ReadKeeps, NothingLeftKeeps, InterruptedKeeps, InterruptedPrintingKeeps, PrintWordsKeeps,
   DumpBinaryKeeps, DumpLinesKeeps, DisassembleKeeps, ReadStringKeeps, FindNothingKeeps,
   FindReadKeeps, FindWindowsKeeps
   DEF CommandStep

-----------------------------------------------------------------------------
(* The commands that are given. *)

LEMMA RequestKeeps ==
    ASSUME MemInv, At("command"), NEW fn \in Kinds \cup {None}, NEW new, Request(fn, new),
           new.name \in Readers \cup {"f"}, new.start \in Nat, new.end \in 0 .. Top,
           IF new.name = "f" THEN new.start + new.width - 1 >= new.end \/ new.start < new.end
           ELSE new.start <= new.end
    PROVE  MemInv'
<1>1. /\ pc = "command" /\ command' = new /\ kind' = fn
      /\ io' = io /\ range' = range /\ tx' = tx /\ data' = data /\ out' = out /\ line' = line
      /\ \/ /\ fn = None /\ pc' = "end" /\ outcome' = "failure"
            /\ cursor' = cursor /\ size' = size
         \/ /\ fn # None /\ pc' = "loop" /\ outcome' = outcome
            /\ mem' \in [0 .. Pages - 1 -> PageTypes(fn)] /\ access' \in Accesses
            /\ cursor' = new.start
            /\ size' = IF new.name = "f" THEN 0 ELSE new.end - new.start
    BY DEF Request, At, Finish, Goto
<1>2. Types /\ out = <<>> /\ line = <<>> /\ io.result = "success"
    BY <1>1 DEF MemInv, Printed, Succeeded
<1>3. new.end \in Nat /\ new.end <= Top
    BY Sizes
<1>4. out' \in Seq(Int) /\ line' \in Seq(Int) /\ Len(out') = 0 /\ (out \o line)' = <<>>
      /\ Len((out \o line)') = 0
    BY <1>1, <1>2
<1>5. InOrder'
    <2>1. DOMAIN out' = {}
        BY <1>1, <1>2
    <2> QED
        BY <2>1 DEF InOrder
<1>6. outcome' # "success"
    BY <1>1, <1>2 DEF Types
<1>7. Len(out') % Instruction = 0
    <2>1. 0 % Instruction = 0
        <3>1. Instruction \in Nat \ {0}
            BY LineAssumption, Sizes
        <3>2. 0 \in 0 .. Instruction - 1 /\ 0 \in Nat /\ Instruction * 0 + 0 = 0
            BY <3>1
        <3> QED
            BY <3>1, <3>2, Remainder
    <2> QED
        BY <1>4, <2>1
<1>8. DOMAIN ((out \o line)') = {}
    BY <1>4
<1>9. OutputFaithful'
    BY <1>5, <1>6 DEF OutputFaithful
<1>10. CASE pc' = "end"
    <2>1. Types'
        BY <1>1, <1>2, <1>10 DEF Types, Active, Transferring
    <2>2. Printed'
        BY <1>1, <1>2, <1>4, <1>7, <1>8, <1>10 DEF Printed, Active, Transferring
    <2> QED
        BY <1>9, <1>10, <2>1, <2>2
           DEF MemInv, Placed, Passed, Filled, Active, Transferring
<1>11. CASE pc' = "loop"
    <2>1. /\ fn # None /\ outcome' = "running" /\ cursor' = new.start
          /\ mem' \in [0 .. Pages - 1 -> PageTypes(fn)] /\ access' \in Accesses
          /\ size' = IF new.name = "f" THEN 0 ELSE new.end - new.start
        BY <1>1, <1>2, <1>11 DEF Types
    <2>2. kind' \in Kinds /\ mem' \in [0 .. Pages - 1 -> PageType] /\ access' \in 0 .. Word
        <3>1. fn \in Kinds
            BY <2>1
        <3>2. PageTypes(fn) \subseteq PageType
            BY <3>1, PageTypesAssumption
        <3> QED
            BY <1>1, <2>1, <3>1, <3>2, AccessesAssumption
    <2>3. size' \in Nat /\ cursor' \in Nat
        BY <1>3, <2>1
    <2>4. Types'
        BY <1>1, <1>2, <1>11, <2>1, <2>2, <2>3 DEF Types, Active, Transferring
    <2>5. Placed'
        <3>1. new.name # "f" => cursor' + size' <= new.end
            BY <1>3, <2>1
        <3>2. new.name = "f" => RangeTooSmall' \/ cursor' < new.end
            BY <1>1, <2>1 DEF RangeTooSmall
        <3> QED
            BY <1>1, <1>11, <3>1, <3>2 DEF Placed, Active, Transferring
    <2>6. Printed'
        <3>1. new.name # "f" => cursor' = new.start + Len((out \o line)') /\ size' = new.end - cursor'
            BY <1>3, <1>4, <2>1
        <3>2. "f" \notin Readers
            BY DEF Readers
        <3> QED
            BY <1>1, <1>2, <1>4, <1>7, <1>8, <1>11, <3>1, <3>2
               DEF Printed, Succeeded, Active, Transferring
    <2> QED
        BY <1>9, <1>11, <2>4, <2>5, <2>6 DEF MemInv, Passed, Filled, Active, Transferring
<1> QED
    BY <1>1, <1>10, <1>11

LEMMA RoundedUp ==
    ASSUME NEW a \in Nat, NEW b \in Nat \ {0}
    PROVE  RoundUp(a, b) \in Nat
<1>1. a + b - 1 \in Nat
    OBVIOUS
<1>2. (a + b - 1) \div b \in Nat
    BY <1>1, Z3
<1> QED
    BY <1>2, Z3 DEF RoundUp

LEMMA ReadCommandKeeps ==
    ASSUME MemInv, ReadCommand
    PROVE  MemInv'
<1>1. PICK functions \in Availability, force \in BOOLEAN, physical \in BOOLEAN,
           safe_memory \in BOOLEAN, name \in Readers, span \in Spans :
           /\ span[1] <= span[2]
           /\ Request(SelectFn(functions, force, physical, safe_memory),
                      [name |-> name, start |-> span[1], end |-> span[2]])
    BY DEF ReadCommand
<1> DEFINE new == [name |-> name, start |-> span[1], end |-> span[2]]
           fn == SelectFn(functions, force, physical, safe_memory)
<1>2. fn \in Kinds \cup {None}
    BY DEF SelectFn, Kinds
<1>3. span[1] \in Nat /\ span[2] \in 0 .. Top
    <2>1. span \in (0 .. Top) \X (0 .. Top)
        BY SpansAssumption
    <2> QED
        BY <2>1, Sizes
<1>4. /\ new.name = name /\ new.start = span[1] /\ new.end = span[2] /\ "f" \notin Readers
    BY DEF Readers
<1>5. At("command") /\ Request(fn, new)
    BY <1>1 DEF ReadCommand
<1> HIDE DEF new, fn
<1>6. /\ new.name \in Readers \cup {"f"} /\ new.name # "f" /\ new.start \in Nat
      /\ new.end \in 0 .. Top /\ new.start <= new.end
    BY <1>1, <1>3, <1>4
<1> QED
    BY <1>2, <1>5, <1>6, RequestKeeps

LEMMA FindCommandKeeps ==
    ASSUME MemInv, FindCommand
    PROVE  MemInv'
<1>1. PICK functions \in Availability, physical \in BOOLEAN, heap \in BOOLEAN, span \in Spans,
           width \in WordSizes, align \in WordSizes :
           Request(FindFn(functions, physical, heap),
                   [name |-> "f", start |-> RoundUp(span[1], align), end |-> span[2],
                    width |-> width, align |-> align])
    BY DEF FindCommand
<1> DEFINE new == [name |-> "f", start |-> RoundUp(span[1], align), end |-> span[2],
                   width |-> width, align |-> align]
           fn == FindFn(functions, physical, heap)
<1>2. fn \in Kinds \cup {None}
    BY DEF FindFn, Kinds
<1>3. /\ RoundUp(span[1], align) \in Nat /\ span[2] \in 0 .. Top
      /\ width \in Nat \ {0}
    <2>1. span \in (0 .. Top) \X (0 .. Top)
        BY SpansAssumption
    <2>2. span[1] \in Nat /\ span[2] \in 0 .. Top
        BY <2>1, Sizes
    <2>3. align \in Nat \ {0} /\ width \in Nat \ {0}
        BY DEF WordSizes
    <2> QED
        BY <2>2, <2>3, RoundedUp
<1>4. /\ new.name = "f" /\ new.start = RoundUp(span[1], align) /\ new.end = span[2]
      /\ new.width = width
    OBVIOUS
<1>5. At("command") /\ Request(fn, new)
    BY <1>1 DEF FindCommand
<1> HIDE DEF new, fn
<1>6. new.name \in Readers \cup {"f"} /\ new.start \in Nat /\ new.end \in 0 .. Top
    BY <1>3, <1>4
<1>7. new.start + new.width - 1 >= new.end \/ new.start < new.end
    <2>1. new.width \in Nat \ {0} /\ new.end \in Nat
        BY <1>3, <1>4, <1>6, Sizes
    <2> QED
        BY <1>6, <2>1
<1> QED
    BY <1>2, <1>4, <1>5, <1>6, <1>7, RequestKeeps

-----------------------------------------------------------------------------
LEMMA InitEstablishes ==
    ASSUME Init
    PROVE  MemInv
<1>1. 0 \in 0 .. Word /\ PageSize \in Nat /\ Word \in Nat
    BY Sizes
<1>2. io \in IoType /\ range \in RangeType /\ tx \in TxType /\ data \in DataType
    BY <1>1 DEF Init, IoType, RangeType, TxType, DataType, Results
<1>3. Types
    BY <1>2 DEF Init, Types, Active, Transferring
<1>4. command.name \notin Readers
    BY DEF Init, None, Readers
<1> QED
    BY <1>3, <1>4 DEF Init, MemInv, Placed, Passed, Filled, Printed, OutputFaithful,
                      Succeeded, Active, Transferring

LEMMA NextKeeps ==
    ASSUME MemInv, [Next]_vars
    PROVE  MemInv'
<1>1. CASE UNCHANGED vars
    <2>1. /\ pc' = pc /\ mem' = mem /\ UNCHANGED <<kind, access, io, range, tx, data>>
          /\ UNCHANGED <<command, cursor, size, p, tested, out, line, outcome>>
        BY <1>1 DEF vars, kmVars, mcVars
    <2>2. Types' /\ Placed'
        BY <2>1 DEF MemInv, Types, Placed, Wanted, RangeTooSmall
    <2>3. Passed'
        BY <2>1 DEF MemInv, Passed, AllPass, Passes, Fits, IsHeap, LooksSafe
    <2>4. Unread' = Unread
        BY <2>1 DEF Unread, Succeeded, Fails
    <2>5. Filled'
        BY <2>1, <2>4 DEF MemInv, Filled, Reached
    <2>6. \A byte, a : Right(byte, a) => Right(byte, a)'
        BY <2>4 DEF Right
    <2>7. Printed' /\ OutputFaithful'
        BY <2>1, <2>4, <2>6 DEF MemInv, Printed, OutputFaithful, InOrder, Right, Succeeded
    <2> QED
        BY <2>2, <2>3, <2>5, <2>7 DEF MemInv
<1> QED
    BY <1>1, ReadCommandKeeps, FindCommandKeeps, CommandKeeps, TransferKeepsAll DEF Next

LEMMA MemInvHolds == Spec => []MemInv
<1>1. Init => MemInv
    BY InitEstablishes
<1>2. MemInv /\ [Next]_vars => MemInv'
    BY NextKeeps
<1> QED
    BY <1>1, <1>2, PTL DEF Spec

(***************************************************************************)
(* Whatever the pages are, and however a range was worked out over many of *)
(* them, the next access of every transfer is one that the checks of its   *)
(* function allow (kernel_memory.c, the transfer_range functions).         *)
(***************************************************************************)
THEOREM TransfersAreSafe == Spec => []SafeTransfer
<1>1. ASSUME MemInv PROVE SafeTransfer
    <2> SUFFICES ASSUME At("transfer"), tx.left > 0 PROVE SafeTransfer
        BY DEF SafeTransfer
    <2> DEFINE here == PageOf(tx.address)
    <2>1. /\ pc = "transfer" /\ tx \in TxType /\ kind \in Kinds /\ access \in 0 .. Word
          /\ AllPass(tx.address, tx.address + tx.left, tx.access)
          /\ access # 0 => tx.access = access
        BY <1>1 DEF At, MemInv, Types, Passed, Active, Transferring
    <2>2. tx.address \in Nat /\ tx.left \in Nat /\ tx.access \in Nat
        BY <2>1, Sizes DEF TxType
    <2>3. Passes(here, tx.access)
        <3>1. tx.address \in tx.address .. (tx.address + tx.left) - 1
            BY <2>2
        <3> QED
            BY <2>1, <3>1 DEF AllPass
    <2>4. CASE kind = "all"
        <3>1. /\ mem[here].mapped
              /\ access = 0 => Fits(mem[here].virtual, tx.access) /\ Fits(mem[here].physical, tx.access)
            BY <2>3, <2>4 DEF Passes
        <3>2. ASSUME NEW region, access = 0 => Fits(region, tx.access) PROVE Narrow(region)
            <4>1. tx.access # 0 => Chunk <= tx.access
                <5> DEFINE rest == NextPage(tx.address) - tx.address
                <5>1. rest \in Int
                    BY <2>2, PageBounds
                <5>2. Chunk = PageChunk
                    BY <2>4 DEF Chunk
                <5>3. tx.access # 0 => PageChunk = Least(tx.access, Least(tx.left, rest))
                    BY DEF PageChunk
                <5>4. Least(tx.left, rest) \in Int
                    BY <2>2, <5>1 DEF Least
                <5> HIDE DEF rest
                <5> QED
                    BY <2>2, <5>2, <5>3, <5>4 DEF Least
            <4> QED
                BY <3>2, <4>1 DEF Narrow, Fits
        <3> QED
            BY <2>4, <3>1, <3>2 DEF SafeTransfer
    <2> QED
        BY <2>3, <2>4 DEF SafeTransfer, Passes
<1> QED
    BY <1>1, MemInvHolds, PTL

(***************************************************************************)
(* What r, rd, ri and rs print are the bytes of the range from its start   *)
(* on, each once and in order, through short reads, holes, lines and       *)
(* instructions that are cut; and all of them if they report success.      *)
(* The only other bytes are printed after a failed read, in the place of   *)
(* those of a page whose transfer failed, which task_transfer reports as   *)
(* read; and of the commands only rd can call that a success.              *)
(***************************************************************************)
THEOREM OutputIsFaithful == Spec => []OutputFaithful
<1>1. MemInv => OutputFaithful
    BY DEF MemInv
<1> QED
    BY <1>1, MemInvHolds, PTL
-----------------------------------------------------------------------------
(* The windows that f compares.                                             *)

(* How far the transfer comes if nothing more stops it. *)
Behind == CASE pc = "ranged" -> range.address
            [] pc = "transfer" -> tx.address + tx.left
            [] OTHER -> io.address

(* Behind a transfer that nothing stopped, the next address is the first   *)
(* that was not transferred.                                               *)
Follows ==
    command.name = "f" =>
        /\ pc = "range" => io.next = io.address + io.left
        /\ pc \in {"perform", "ranged", "transfer"} /\ Behind = cursor + Wanted =>
              io.next = cursor + Wanted

(* The bytes kept before the buffer are those before the cursor, but for    *)
(* what could not be transferred.                                          *)
Kept ==
    command.name = "f" /\ pc \in Active =>
        /\ command.width \in WordSizes /\ command.align \in WordSizes
        /\ p \in -Word .. 0
        /\ \A i \in p .. -1 : data[i] = cursor + i \/ Fails(cursor + i)

WindowInv ==
    /\ pc = "command" => p = 0 /\ tested = {}
    /\ command.name # "f" => tested = {}
    /\ Follows /\ Kept /\ WindowsTrue

LEMMA RangeFollows ==
    ASSUME MemInv, Follows, command.name = "f", RangeAction, UNCHANGED mcVars
    PROVE  Follows'
<1>1. pc = "range" /\ \E n, width : Asks(n, width)
    BY RangeAsks DEF At
<1>2. PICK n, width : Asks(n, width)
    BY <1>1
<1>3. /\ range'.address = range.address + n /\ n \in 0 .. range.left
      /\ \/ pc' = "range" /\ io' = io
         \/ /\ pc' = "ranged" /\ (range.left > 0 => n < range.left)
            /\ \E next \in Nat, result \in Results :
                  /\ io' = [io EXCEPT !.next = next, !.result = result]
                  /\ range.left = 0 => next = io.next
    BY <1>2 DEF Asks
<1>4. /\ io \in IoType /\ range \in RangeType /\ cursor \in Nat /\ Wanted \in Int
      /\ io.address + io.left <= cursor + Wanted
    <2>1. pc \in Transferring
        BY <1>1 DEF Transferring
    <2> QED
        BY <2>1, TransferPlace
<1>5. /\ range.address = io.address + range.size /\ range.size + range.left = io.left
      /\ io.next = io.address + io.left
    BY <1>1 DEF MemInv, Placed, Follows
<1>6. /\ range.address \in Nat /\ range.left \in Nat /\ range.size \in Nat
      /\ io.address \in Nat /\ io.left \in Nat
    BY <1>4 DEF RangeType, IoType
<1>7. Wanted' = Wanted /\ cursor' = cursor
    BY DEF Wanted, mcVars
<1>8. n \in Nat /\ n <= range.left
    <2>1. n \in 0 .. range.left
        BY <1>3
    <2> QED
        BY <1>6, <2>1
<1>9. CASE pc' = "range" /\ io' = io
    BY <1>5, <1>9 DEF Follows
<1>10. CASE pc' = "ranged"
    <2>1. PICK next \in Nat, result \in Results :
                  /\ io' = [io EXCEPT !.next = next, !.result = result]
                  /\ range.left = 0 => next = io.next
        BY <1>3, <1>10
    <2>2. io'.next = next
        BY <1>4, <2>1 DEF IoType
    <2>3. Behind' = range.address + n
        BY <1>3, <1>10 DEF Behind
    <2>4. CASE range.left = 0
        <3>1. range.address + n = range.address
            BY <1>6, <1>8, <2>4
        <3>2. io'.next = range.address
            BY <1>5, <1>6, <2>1, <2>2, <2>4
        <3> QED
            BY <1>7, <1>10, <2>3, <3>1, <3>2 DEF Follows
    <2>5. CASE range.left > 0
        <3>1. range.address + n < cursor + Wanted
            <4>1. n < range.left
                BY <1>3, <1>10, <2>5
            <4>2. range.address + range.left <= cursor + Wanted
                BY <1>4, <1>5, <1>6
            <4> QED
                BY <1>4, <1>6, <1>8, <4>1, <4>2
        <3> QED
            BY <1>4, <1>6, <1>7, <1>10, <1>8, <2>3, <3>1 DEF Follows
    <2> QED
        BY <1>6, <2>4, <2>5
<1> QED
    BY <1>3, <1>9, <1>10

LEMMA ChunkFollows ==
    ASSUME MemInv, Follows, command.name = "f", UNCHANGED mcVars,
           TransferPage \/ TransferWord \/ TransferComplete
    PROVE  Follows'
<1>1. pc = "transfer"
    BY DEF TransferPage, TransferWord, TransferComplete, At
<1>2. /\ io \in IoType /\ tx \in TxType /\ cursor \in Nat /\ Wanted \in Int
      /\ io.address + io.left <= cursor + Wanted
    <2>1. pc \in Transferring
        BY <1>1 DEF Transferring
    <2> QED
        BY <2>1, TransferPlace
<1>3. /\ io.address <= tx.address /\ tx.address + tx.left <= io.address + io.left
      /\ io.address \in Nat /\ io.left \in Nat /\ tx.address \in Nat /\ tx.left \in Nat
    BY <1>1, <1>2 DEF MemInv, Placed, IoType, TxType
<1>4. tx.address + tx.left = cursor + Wanted => io.next = cursor + Wanted
    BY <1>1 DEF Follows, Behind
<1>5. Wanted' = Wanted /\ cursor' = cursor
    BY DEF Wanted, mcVars
<1>6. ASSUME NEW n \in 0 .. tx.left, Advance(n), UNCHANGED <<pc, io>> PROVE Follows'
    <2>1. tx'.address = tx.address + n /\ tx'.left = tx.left - n
        BY <1>2, <1>6 DEF Advance, TxType
    <2>2. n \in Nat /\ tx'.address + tx'.left = tx.address + tx.left
        BY <1>3, <2>1
    <2>3. Behind' = tx.address + tx.left
        BY <1>1, <1>6, <2>2 DEF Behind
    <2> QED
        BY <1>1, <1>4, <1>5, <1>6, <2>3 DEF Follows
<1>7. ASSUME NEW n \in Nat, NEW result, TransferReturns(n, result)
      PROVE  /\ pc' = "perform" /\ Behind' = io.address + n /\ io'.next = io.next
    <2>1. pc' = "perform" /\ io'.address = io.address + n /\ io'.next = io.next
        BY <1>2, <1>7 DEF TransferReturns, Goto, IoType
    <2> QED
        BY <2>1 DEF Behind
<1>8. ASSUME NEW n \in Nat, NEW result, TransferReturns(n, result),
             io.address + n < tx.address + tx.left \/ io.address + n = tx.address + tx.left
      PROVE  Follows'
    <2>1. pc' = "perform" /\ Behind' = io.address + n /\ io'.next = io.next
        BY <1>7, <1>8
    <2>2. Behind' = cursor + Wanted => Behind' = tx.address + tx.left
        BY <1>2, <1>3, <1>8, <2>1
    <2> QED
        BY <1>4, <1>5, <2>1, <2>2 DEF Follows
<1>9. CASE TransferPage
    <2>1. PageChunk \in 0 .. tx.left
        BY <1>2, PageChunkFits
    <2>2. CASE Advance(PageChunk) /\ UNCHANGED <<pc, io>>
        BY <1>6, <2>1, <2>2
    <2>3. CASE TransferReturns(PageChunk, "error")
        <3> DEFINE n == PageChunk
        <3>1. n \in Nat /\ io.address + n <= tx.address + tx.left
            BY <1>3, <2>1
        <3>2. TransferReturns(n, "error")
            BY <2>3
        <3> HIDE DEF n
        <3>3. io.address + n < tx.address + tx.left \/ io.address + n = tx.address + tx.left
            BY <1>3, <3>1
        <3> QED
            BY <1>8, <3>1, <3>2, <3>3
    <2> QED
        BY <1>9, <2>2, <2>3 DEF TransferPage
<1>10. CASE TransferWord
    <2>1. WordChunk \in 0 .. tx.left /\ tx.left > 0
        BY <1>2, <1>10, WordChunkFits DEF TransferWord
    <2>2. CASE Advance(WordChunk) /\ UNCHANGED <<pc, io>>
        BY <1>6, <2>1, <2>2
    <2>3. CASE TransferReturns(tx.address - io.address, "error")
        <3> DEFINE n == tx.address - io.address
        <3>1. n \in Nat /\ io.address + n < tx.address + tx.left
            BY <1>3, <2>1
        <3>2. TransferReturns(n, "error")
            BY <2>3
        <3> HIDE DEF n
        <3> QED
            BY <1>8, <3>1, <3>2
    <2> QED
        BY <1>10, <2>2, <2>3 DEF TransferWord
<1>11. CASE TransferComplete
    <2> DEFINE n == tx.address - io.address
    <2>1. TransferReturns(n, "success") /\ tx.left = 0
        BY <1>11 DEF TransferComplete
    <2>2. n \in Nat /\ io.address + n = tx.address + tx.left
        BY <1>3, <2>1
    <2> HIDE DEF n
    <2> QED
        BY <1>8, <2>1, <2>2
<1> QED
    BY <1>9, <1>10, <1>11

LEMMA TransferFollows ==
    ASSUME MemInv, Follows, command.name = "f", TransferStep, UNCHANGED mcVars
    PROVE  Follows'
<1>1. Wanted' = Wanted /\ cursor' = cursor
    BY DEF Wanted, mcVars
<1>2. CASE FindRange
    <2>1. pc = "perform" /\ pc' = "range" /\ io' = [io EXCEPT !.next = io.address + io.left]
        BY <1>2 DEF FindRange, At, Goto
    <2>2. io \in IoType
        BY <2>1, TransferPlace DEF Transferring
    <2>3. io'.next = io'.address + io'.left
        BY <2>1, <2>2 DEF IoType
    <2> QED
        BY <2>1, <2>3 DEF Follows
<1>3. CASE StartTransfer \/ NothingToTransfer
    <2>1. /\ pc = "ranged"
          /\ \/ /\ pc' = "transfer" /\ tx'.address = io.address /\ tx'.left = range.size
                /\ \E left : io' = [io EXCEPT !.left = left]
             \/ /\ pc' = "perform" /\ range.size = 0
                /\ \E left : io' = [io EXCEPT !.left = left]
        BY <1>3 DEF StartTransfer, NothingToTransfer, At, Goto
    <2>2. io \in IoType /\ range \in RangeType /\ range.address = io.address + range.size
        BY <2>1, TransferPlace DEF Transferring, MemInv, Placed
    <2>3. io.address \in Nat /\ io'.address = io.address /\ io'.next = io.next
        BY <2>1, <2>2 DEF IoType
    <2>4. Behind = range.address /\ Behind' = range.address
        BY <2>1, <2>2, <2>3 DEF Behind
    <2> QED
        BY <1>1, <2>1, <2>3, <2>4 DEF Follows
<1> QED
    BY <1>2, <1>3, RangeFollows, ChunkFollows DEF TransferStep, RangeAction

(* What is stored comes into the buffer, not before it. *)
LEMMA StoredBehind ==
    ASSUME MemInv, pc = "transfer", NEW n, Store(n), NEW i \in -Word .. -1
    PROVE  data'[i] = data[i]
<1>1. /\ data \in DataType /\ io \in IoType /\ tx \in TxType /\ cursor \in Nat
      /\ io.start = cursor /\ cursor <= io.address
    <2>1. pc \in Transferring
        BY DEF Transferring
    <2> QED
        BY <2>1, TransferPlace
<1>2. /\ io.address <= tx.address /\ tx.address \in Nat /\ io.address \in Nat
    BY <1>1 DEF MemInv, Placed, IoType, TxType
<1>3. i \in DOMAIN data /\ i < 0 /\ i \in Int
    BY <1>1, Sizes DEF DataType
<1>4. ~ (io.start + i >= tx.address)
    BY <1>1, <1>2, <1>3
<1>5. io.start + i \notin tx.address .. tx.address + n - 1
    BY <1>2, <1>4
<1>6. data'[i] = IF io.start + i \in tx.address .. tx.address + n - 1 THEN io.start + i ELSE data[i]
    BY <1>3 DEF Store
<1> QED
    BY <1>5, <1>6

LEMMA TransferKeepsWindows ==
    ASSUME MemInv, WindowInv, TransferStep, UNCHANGED mcVars
    PROVE  WindowInv'
<1>1. /\ pc \in Transferring /\ pc' \in Transferring
      /\ UNCHANGED data \/ (pc = "transfer" /\ \E n : Store(n))
    BY DEF TransferStep, FindRange, RangeComplete, RangeWhole, RangeOutsideMap, RangeHeap, RangeSafe,
           RangeAllStops, RangeAll, RangeCache, StartTransfer, NothingToTransfer, TransferPage,
           TransferWord, TransferComplete, RangeEnds, RangeGrows, TransferReturns, Transferring,
           At, Goto
<1>2. command' = command /\ cursor' = cursor /\ p' = p /\ tested' = tested /\ mem' = mem
    BY DEF mcVars, TransferStep, FindRange, RangeComplete, RangeWhole, RangeOutsideMap, RangeHeap,
           RangeSafe, RangeAllStops, RangeAll, RangeCache, StartTransfer, NothingToTransfer,
           TransferPage, TransferWord, TransferComplete, RangeEnds, RangeGrows, request
<1>3. pc' # "command" /\ pc \in Active
    BY <1>1 DEF Transferring, Active
<1>4. Kept'
    <2> SUFFICES ASSUME command.name = "f"
                 PROVE  Kept'
        BY <1>2 DEF Kept
    <2>1. /\ command.width \in WordSizes /\ command.align \in WordSizes /\ p \in -Word .. 0
          /\ \A i \in p .. -1 : data[i] = cursor + i \/ Fails(cursor + i)
        BY <1>3 DEF WindowInv, Kept
    <2>2. ASSUME NEW i \in p .. -1 PROVE data'[i] = data[i]
        <3>1. i \in -Word .. -1
            BY <2>1, Sizes
        <3> QED
            BY <1>1, <3>1, StoredBehind
    <2> QED
        BY <1>2, <2>1, <2>2 DEF Kept, Fails
<1>5. Follows'
    <2>1. command.name = "f" => Follows'
        BY TransferFollows DEF WindowInv
    <2> QED
        BY <1>2, <2>1 DEF Follows
<1> QED
    BY <1>2, <1>3, <1>4, <1>5 DEF WindowInv, WindowsTrue, Fails

(* A command other than f compares no windows, and an end compares none. *)
LEMMA ComparesNothing ==
    ASSUME WindowInv, command' = command, mem' = mem, tested' = tested, pc' # "command",
           command.name = "f" => pc' = "end"
    PROVE  WindowInv'
BY DEF WindowInv, Follows, Kept, WindowsTrue, Fails, Active, Transferring

LEMMA FindReadKeepsWindows ==
    ASSUME MemInv, WindowInv, FindRead
    PROVE  WindowInv'
<1>1. /\ pc = "loop" /\ pc' = "perform" /\ command.name = "f" /\ ~ RangeTooSmall
      /\ io' = [start |-> cursor, address |-> cursor, left |-> Wanted,
                next |-> 0, result |-> "success"]
      /\ command' = command /\ cursor' = cursor /\ p' = p /\ tested' = tested /\ data' = data
      /\ size' = size /\ mem' = mem
    BY DEF FindRead, Running, PerformTransfer, At, Goto, mcVars, Wanted, request
<1>2. pc \in Active
    BY <1>1 DEF Active
<1>3. cursor \in Nat /\ command.end \in Nat /\ cursor < command.end
    BY <1>1, <1>2, CommandPlace DEF MemInv, Placed
<1>4. Wanted \in Nat /\ Wanted > 0
    <2>1. Wanted = IF command.end - cursor < PageSize THEN command.end - cursor ELSE PageSize
        BY <1>1 DEF Wanted, Least
    <2> QED
        BY <1>3, <2>1, Sizes
<1>5. Follows'
    <2>1. Behind' = cursor /\ Wanted' = Wanted
        BY <1>1 DEF Behind, Wanted
    <2> QED
        BY <1>1, <1>3, <1>4, <2>1 DEF Follows
<1>6. Kept'
    BY <1>1, <1>2 DEF WindowInv, Kept, Fails
<1> QED
    BY <1>1, <1>5, <1>6 DEF WindowInv, WindowsTrue, Fails

(* The word that is kept is the end of a whole page, and f goes on behind. *)
LEMMA KeepsWord ==
    ASSUME MemInv, WindowInv, TransferDone, command.name = "f", KeepLastWord, cursor' = io.next
    PROVE  p' \in -Word .. 0 /\ \A i \in p' .. -1 : data'[i] = cursor' + i \/ Fails(cursor' + i)
<1>1. pc = "perform" /\ pc \in Transferring /\ pc \in Active
    BY DEF TransferDone, At, Active, Transferring
<1>2. /\ data \in DataType /\ io \in IoType /\ cursor \in Nat /\ Wanted \in Int
      /\ Wanted <= PageSize /\ io.start = cursor
      /\ io.address + io.left <= cursor + Wanted
    BY <1>1, TransferPlace
<1>3. \A i \in 0 .. Transferred - 1 : data[i] = cursor + i \/ Fails(cursor + i)
    BY BytesRead DEF Unread
<1>4. PageSize \in Nat /\ Word \in Nat /\ Word <= PageSize
    BY Sizes
<1>5. CASE p' = 0
    BY <1>4, <1>5
<1>6. CASE /\ command.align < command.width /\ Transferred = PageSize
           /\ p' = command.align - command.width
           /\ data' = [i \in DOMAIN data |-> IF i < 0 THEN data[PageSize + i] ELSE data[i]]
    <2>1. command.width \in 1 .. Word /\ command.align \in 1 .. Word
        BY <1>1 DEF WindowInv, Kept, WordSizes
    <2>2. p' \in -Word .. 0 /\ p' >= -Word
        BY <1>4, <1>6, <2>1
    <2>3. io.next = cursor + PageSize
        <3>1. io.address \in Nat /\ io.left \in Nat /\ io.address = cursor + PageSize
            BY <1>2, <1>4, <1>6 DEF IoType, Transferred
        <3>2. Wanted = PageSize
            BY <1>2, <1>4, <3>1
        <3>3. Behind = io.address
            BY <1>1 DEF Behind
        <3> QED
            BY <1>1, <3>1, <3>2, <3>3 DEF WindowInv, Follows
    <2>4. ASSUME NEW i \in p' .. -1 PROVE data'[i] = cursor' + i \/ Fails(cursor' + i)
        <3>1. i \in Int /\ i < 0 /\ -Word <= i
            BY <1>4, <2>2
        <3>2. i \in DOMAIN data
            BY <1>2, <1>4, <3>1 DEF DataType
        <3>3. data'[i] = data[PageSize + i]
            BY <1>6, <3>1, <3>2
        <3>4. PageSize + i \in 0 .. Transferred - 1
            BY <1>4, <1>6, <3>1
        <3>5. \/ data[PageSize + i] = cursor + (PageSize + i)
              \/ Fails(cursor + (PageSize + i))
            BY <1>3, <3>4
        <3>6. cursor' + i = cursor + (PageSize + i)
            BY <1>2, <1>4, <2>3, <3>1
        <3> QED
            BY <3>3, <3>5, <3>6
    <2> QED
        BY <2>2, <2>4
<1> QED
    BY <1>5, <1>6 DEF KeepLastWord

LEMMA WindowsAreTrue ==
    ASSUME MemInv, WindowInv, TransferDone, command.name = "f", NEW q \in Windows,
           NEW i \in 0 .. command.width - 1
    PROVE  Window(q).bytes[i] = Window(q).at + i \/ Fails(Window(q).at + i)
<1>1. pc \in Active
    BY BytesRead
<1>2. /\ command.width \in 1 .. Word /\ p \in -Word .. 0
      /\ \A k \in p .. -1 : data[k] = cursor + k \/ Fails(cursor + k)
    BY <1>1 DEF WindowInv, Kept, WordSizes
<1>3. /\ cursor \in Nat /\ Transferred \in Nat
      /\ \A k \in 0 .. Transferred - 1 : data[k] = cursor + k \/ Fails(cursor + k)
    BY <1>1, BytesRead, CommandPlace DEF Unread
<1>4. q \in Int /\ p <= q /\ q <= Transferred - command.width /\ p \in Int
    BY <1>2, <1>3, Sizes DEF Windows
<1>5. i \in Nat /\ i < command.width /\ command.width \in Nat
    BY <1>2, Sizes
<1>6. q + i \in p .. -1 \/ q + i \in 0 .. Transferred - 1
    BY <1>3, <1>4, <1>5
<1>7. data[q + i] = cursor + (q + i) \/ Fails(cursor + (q + i))
    BY <1>2, <1>3, <1>6
<1>9. cursor + (q + i) = (cursor + q) + i
    BY <1>3, <1>4, <1>5
<1>8. Window(q).at = cursor + q /\ Window(q).bytes[i] = data[q + i]
    BY DEF Window
<1> QED
    BY <1>7, <1>8, <1>9

LEMMA FindWindowsKeepsWindows ==
    ASSUME MemInv, WindowInv, FindWindows
    PROVE  WindowInv'
<1>1. /\ TransferDone /\ command.name = "f" /\ command' = command
      /\ tested' \subseteq tested \cup {Window(q) : q \in Windows}
      /\ mem' = mem
      /\ KeepLastWord \/ (p' = 0 /\ UNCHANGED data)
      /\ \/ pc' = "end"
         \/ pc' = "loop" /\ cursor' = io.next
    BY DEF FindWindows, HasRead, Finish, Goto, request
<1>2. WindowsTrue'
    <2>1. ASSUME NEW w \in tested', NEW i \in 0 .. command.width - 1
          PROVE  w.bytes[i] = w.at + i \/ Fails(w.at + i)
        <3>1. CASE w \in tested
            BY <2>1, <3>1 DEF WindowInv, WindowsTrue
        <3>2. CASE \E q \in Windows : w = Window(q)
            BY <1>1, <2>1, <3>2, WindowsAreTrue
        <3> QED
            BY <1>1, <3>1, <3>2
    <2> QED
        BY <1>1, <2>1 DEF WindowsTrue, Fails
<1>3. Kept'
    <2> SUFFICES ASSUME pc' = "loop" PROVE Kept'
        BY <1>1 DEF Kept, Active, Transferring
    <2>1. pc \in Active
        BY <1>1, BytesRead
    <2>2. command.width \in WordSizes /\ command.align \in WordSizes
        BY <1>1, <2>1 DEF WindowInv, Kept
    <2>3. p' \in -Word .. 0 /\ \A i \in p' .. -1 : data'[i] = cursor' + i \/ Fails(cursor' + i)
        <3>1. CASE KeepLastWord
            BY <1>1, <3>1, KeepsWord
        <3>2. CASE p' = 0
            BY <3>2, Sizes
        <3> QED
            BY <1>1, <3>1, <3>2
    <2> QED
        BY <1>1, <2>2, <2>3 DEF Kept, Fails
<1> QED
    BY <1>1, <1>2, <1>3 DEF WindowInv, Follows

LEMMA CommandKeepsWindows ==
    ASSUME MemInv, WindowInv, CommandStep
    PROVE  WindowInv'
<1>1. CASE Interrupted \/ FindNothing
    BY <1>1, ComparesNothing DEF Interrupted, FindNothing, Finish, Goto, request
<1>2. CASE Read \/ NothingLeft \/ InterruptedPrinting \/ PrintWords \/ DumpBinary \/ DumpLines
           \/ Disassemble \/ ReadString
    <2>1. /\ command.name # "f" /\ command' = command /\ tested' = tested /\ pc' # "command"
          /\ mem' = mem
        BY <1>2 DEF Read, NothingLeft, InterruptedPrinting, PrintWords, DumpBinary, DumpLines,
                    Disassemble, ReadString, Continue, PerformTransfer, Running, HasRead, Finish,
                    Goto, Readers, mcVars, request
    <2> QED
        BY <2>1, ComparesNothing
<1> QED
    BY <1>1, <1>2, FindReadKeepsWindows, FindWindowsKeepsWindows DEF CommandStep

LEMMA RequestKeepsWindows ==
    ASSUME WindowInv, ReadCommand \/ FindCommand
    PROVE  WindowInv'
<1>1. PICK fn, new : /\ At("command") /\ Request(fn, new)
                     /\ new.name = "f" => new.width \in WordSizes /\ new.align \in WordSizes
    <2>1. CASE ReadCommand
        <3>1. PICK functions \in Availability, force \in BOOLEAN, physical \in BOOLEAN,
                   safe_memory \in BOOLEAN, name \in Readers, span \in Spans :
                 Request(SelectFn(functions, force, physical, safe_memory),
                         [name |-> name, start |-> span[1], end |-> span[2]])
            BY <2>1 DEF ReadCommand
        <3> QED
            BY <2>1, <3>1 DEF ReadCommand, Readers
    <2>2. CASE FindCommand
        <3>1. PICK functions \in Availability, physical \in BOOLEAN, heap \in BOOLEAN,
                   span \in Spans, width \in WordSizes, align \in WordSizes :
                 Request(FindFn(functions, physical, heap),
                         [name |-> "f", start |-> RoundUp(span[1], align), end |-> span[2],
                          width |-> width, align |-> align])
            BY <2>2 DEF FindCommand
        <3> QED
            BY <2>2, <3>1 DEF FindCommand
    <2> QED
        BY <2>1, <2>2
<1>2. pc = "command" /\ command' = new /\ p' = p /\ tested' = tested /\ pc' \in {"loop", "end"}
    BY <1>1 DEF Request, Finish, Goto, At
<1>3. p' \in -Word .. 0 /\ p' .. -1 = {} /\ tested' = {}
    BY <1>2, Sizes DEF WindowInv
<1>4. Kept'
    BY <1>1, <1>2, <1>3 DEF Kept
<1>5. WindowsTrue'
    BY <1>3 DEF WindowsTrue
<1> QED
    BY <1>2, <1>3, <1>4, <1>5 DEF WindowInv, Follows

LEMMA NextKeepsWindows ==
    ASSUME MemInv, WindowInv, [Next]_vars
    PROVE  WindowInv'
<1>1. CASE UNCHANGED vars
    BY <1>1 DEF vars, kmVars, mcVars, WindowInv, Follows, Behind, Wanted, Kept, WindowsTrue,
                Fails
<1> QED
    BY <1>1, RequestKeepsWindows, CommandKeepsWindows, TransferKeepsWindows DEF Next

LEMMA WindowInvHolds == Spec => []WindowInv
<1>1. Init => WindowInv
    <2>1. None # "f"
        BY DEF None
    <2> QED
        BY <2>1 DEF Init, WindowInv, Follows, Kept, WindowsTrue, Active, Transferring
<1>2. MemInv /\ WindowInv /\ [Next]_vars => WindowInv'
    BY NextKeepsWindows
<1> QED
    BY <1>1, <1>2, MemInvHolds, PTL DEF Spec

(***************************************************************************)
(* f never compares the value with bytes from elsewhere than the address   *)
(* that it would report: not with those an earlier read left in the buffer *)
(* and not across a hole, although the last word of a read is kept for the *)
(* windows that reach into the next one (find.c, memctl_find).  The bytes  *)
(* of a page whose transfer fails are excepted: task_transfer reports them *)
(* as read, and f compares what the buffer holds.                          *)
(***************************************************************************)
THEOREM FindsNothingWrong == Spec => []WindowsTrue
<1>1. WindowInv => WindowsTrue
    BY DEF WindowInv
<1> QED
    BY <1>1, WindowInvHolds, PTL

-----------------------------------------------------------------------------
(* The windows that f should compare.                                       *)

(* Nothing from an address up to the next one can be read; next is 0 if    *)
(* there is nothing up to the end of memory.                               *)
Barren(from, next) ==
    \A a \in from .. (IF next = 0 THEN Top ELSE next) - 1 : ~Readable(a)

(* Where f goes on if its transfer ends: behind what it cannot read, at    *)
(* the beginning of a page.                                                *)
StopsAt(end, next) ==
    /\ next = 0 \/ (next > end /\ \E n \in 0 .. Pages : next = PageSize * n)
    /\ Barren(end, next)

(* A transfer goes on to the end of what is wanted, or stops there.        *)
Skips ==
    /\ io.result = "success" => io.address + io.left = cursor + Wanted
    /\ io.result # "success" =>
          /\ pc # "range"
          /\ pc = "perform" => io.left = 0
          /\ pc = "transfer" => tx.address + tx.left = io.address + io.left
          /\ StopsAt(Behind, io.next)

(* The windows before an address that f should look at were looked at.     *)
Aligned(a) == a % command.align = 0
Tested(end) ==
    \A a \in command.start .. command.end - command.width :
        /\ a < end /\ Aligned(a)
        /\ \A i \in 0 .. command.width - 1 : Readable(a + i)
        => \E w \in tested : w.at = a

Searched ==
    /\ pc \in Active => /\ kind \in {"safe", "all", "physical_safe"}
                        /\ Aligned(cursor)
                        /\ \/ p = 0
                           \/ /\ command.align < command.width
                              /\ p = command.align - command.width
                        /\ Tested(cursor + p)
    /\ pc = "end" /\ outcome = "success" => \A e \in Int : Tested(e)

SearchInv ==
    command.name = "f" /\ NoSurprise =>
        /\ pc \in Transferring => Skips
        /\ Searched

(* Pages none of which can be read. *)
LEMMA BarrenPages ==
    ASSUME NEW from \in Nat, NEW e \in 0 .. Pages, from < PageSize * e,
           \A a \in Nat : PageOf(from) <= PageOf(a) /\ PageOf(a) < e => ~Readable(a)
    PROVE  StopsAt(from, PageSize * e)
<1>1. PageSize \in Nat /\ e \in Nat /\ PageSize * e \in Nat /\ PageSize * e # 0
    BY Sizes
<1>2. ASSUME NEW a \in from .. (PageSize * e) - 1 PROVE ~Readable(a)
    <2>1. a \in Nat /\ from <= a /\ a < PageSize * e
        BY <1>1
    <2>2. PageOf(from) <= PageOf(a) /\ PageOf(a) < e
        BY <1>1, <2>1, PagesInOrder, PageBefore
    <2> QED
        BY <2>1, <2>2
<1> QED
    BY <1>1, <1>2 DEF StopsAt, Barren

(* The rest of a page that cannot be read. *)
LEMMA BarrenPage ==
    ASSUME NEW from \in Nat, from < Top,
           \A a \in Nat : PageOf(a) = PageOf(from) => ~Readable(a)
    PROVE  StopsAt(from, NextPage(from))
<1> DEFINE here == PageOf(from)
<1>1. here \in 0 .. Pages - 1 /\ from < NextPage(from)
      /\ NextPage(from) = PageSize * here + PageSize
    BY PageInMemory, PageBounds
<1> HIDE DEF here
<1>2. here + 1 \in 0 .. Pages /\ here \in Nat /\ PageSize * (here + 1) = PageSize * here + PageSize
    BY <1>1, Sizes
<1>3. \A a \in Nat : here <= PageOf(a) /\ PageOf(a) < here + 1 => ~Readable(a)
    <2> SUFFICES ASSUME NEW a \in Nat, here <= PageOf(a), PageOf(a) < here + 1
                 PROVE  ~Readable(a)
        OBVIOUS
    <2>1. PageOf(a) \in Nat
        BY PageBounds
    <2>2. PageOf(a) = here
        BY <1>2, <2>1
    <2> QED
        BY <2>2 DEF here
<1> QED
    BY <1>1, <1>2, <1>3, BarrenPages DEF here

(* An address is before the end of any page from its own on. *)
LEMMA PageEnds ==
    ASSUME NEW a \in Nat, NEW e \in Int, PageOf(a) < e
    PROVE  a < PageSize * e
<1> DEFINE k == PageOf(a)
<1>1. k \in Nat /\ a < PageSize * k + PageSize /\ PageSize \in Nat \ {0}
    BY PageBounds, Sizes
<1>2. k + 1 <= e
    BY <1>1
<1> HIDE DEF k
<1>3. PageSize * (k + 1) <= PageSize * e /\ PageSize * (k + 1) = PageSize * k + PageSize
    BY <1>1, <1>2
<1>4. PageSize * e \in Int /\ PageSize * k \in Int
    BY <1>1
<1> QED
    BY <1>1, <1>3, <1>4


(* A range function that ends before it has all that was asked for skips   *)
(* only what cannot be read.                                               *)
SkipsBarren ==
    \/ pc' = "range" /\ io' = io
    \/ /\ pc' = "ranged"
       /\ \E next, result : /\ io' = [io EXCEPT !.next = next, !.result = result]
                            /\ result # "success" => StopsAt(range'.address, next)

LEMMA GrowsOn ==
    ASSUME NEW n, NEW width, At("range"), RangeGrows(n, width)
    PROVE  SkipsBarren
BY DEF RangeGrows, At, SkipsBarren

LEMMA EndsRange ==
    ASSUME NEW result, NEW next, RangeEnds(result, next),
           result # "success" => StopsAt(range.address, next)
    PROVE  SkipsBarren
BY DEF RangeEnds, Goto, SkipsBarren

(* The cases in which a page is not read. *)
LEMMA RangeCacheStops ==
    ASSUME MemInv, NoSurprise, RangeCache
    PROVE  SkipsBarren
<1> DEFINE here == range.address
<1>1. At("range") /\ kind = "physical_safe" /\ range.left > 0
    BY DEF RangeCache
<1>2. here \in Nat /\ PageOf(here) \in 0 .. Pages - 1 /\ here < Top
    <2>1. /\ here \in Nat /\ range.left \in Nat /\ here + range.left <= Top
          /\ PageOf(here) \in 0 .. Pages - 1
        BY <1>1, RangePlace
    <2> QED
        BY <1>1, <2>1, Sizes
<1>3. mem[PageOf(here)].cache # "unknown"
    BY <1>2 DEF NoSurprise
<1>4. CASE mem[PageOf(here)].cache = "guarded" /\ RangeEnds("protection", NextPage(here))
    <2>1. \A a \in Nat : PageOf(a) = PageOf(here) => ~Readable(a)
        BY <1>1, <1>4 DEF Readable
    <2>2. StopsAt(here, NextPage(here))
        BY <1>2, <2>1, BarrenPage
    <2> QED
        BY <1>4, <2>2, EndsRange
<1> QED
    BY <1>1, <1>3, <1>4, GrowsOn DEF RangeCache

LEMMA RangeAllStopsStops ==
    ASSUME MemInv, NoSurprise, RangeAllStops
    PROVE  SkipsBarren
<1> DEFINE here == range.address
           page == mem[PageOf(here)]
<1>1. At("range") /\ kind = "all" /\ range.left > 0
    BY DEF RangeAllStops
<1>2. here \in Nat /\ PageOf(here) \in 0 .. Pages - 1 /\ here < Top
      /\ mem[PageOf(here)] \in PageType
    <2>1. /\ here \in Nat /\ range.left \in Nat /\ here + range.left <= Top
          /\ PageOf(here) \in 0 .. Pages - 1 /\ mem[PageOf(here)] \in PageType
        BY <1>1, RangePlace
    <2> QED
        BY <1>1, <2>1, Sizes
<1>3. CASE access = 0 /\ page.virtual = 0 /\ RangeEnds("inaccessible", SpecialEnd)
    <2> DEFINE alike == {q \in 0 .. Pages - 1 : mem[q].virtual = page.virtual}
    <2>1. SpecialEnd = RunEnd(PageOf(here), alike) /\ alike \in SUBSET (0 .. Pages - 1)
        BY DEF SpecialEnd
    <2>2. \A q \in alike : mem[q].virtual = 0
        BY <1>3
    <2> HIDE DEF alike
    <2>3. PICK e \in PageOf(here) + 1 .. Pages :
                  /\ RunEnd(PageOf(here), alike) = PageSize * e
                  /\ \A q \in PageOf(here) + 1 .. e - 1 : q \in alike
        BY <1>2, <2>1, Run
    <2>4. ASSUME NEW a \in Nat, PageOf(here) <= PageOf(a), PageOf(a) < e PROVE ~Readable(a)
        <3>1. PageOf(a) \in Nat /\ e \in Nat
            BY <1>2, <2>3, PageBounds, Sizes
        <3>2. PageOf(a) = PageOf(here) \/ PageOf(a) \in PageOf(here) + 1 .. e - 1
            BY <1>2, <2>4, <3>1
        <3>3. mem[PageOf(a)].virtual = 0
            BY <1>3, <2>2, <2>3, <3>2
        <3> QED
            BY <1>1, <1>3, <3>3 DEF Readable
    <2>5. here < PageSize * e
        BY <1>2, <2>3, PageEnds
    <2>6. e \in 0 .. Pages
        BY <1>2, <2>3, Sizes
    <2>7. StopsAt(here, PageSize * e)
        BY <1>2, <2>4, <2>5, <2>6, BarrenPages
    <2> QED
        BY <1>3, <2>1, <2>3, <2>7, EndsRange
<1>4. CASE /\ \A a \in Nat : PageOf(a) = PageOf(here) => ~Readable(a)
           /\ \E result : RangeEnds(result, NextPage(here))
    <2>1. StopsAt(here, NextPage(here))
        BY <1>2, <1>4, BarrenPage
    <2> QED
        BY <1>4, <2>1, EndsRange
<1>5. CASE ~page.mapped /\ RangeEnds("unmapped", NextPage(here))
    <2>1. \A a \in Nat : PageOf(a) = PageOf(here) => ~Readable(a)
        BY <1>1, <1>5 DEF Readable
    <2> QED
        BY <1>4, <1>5, <2>1
<1>6. CASE /\ \/ Barred(page.physical)
              \/ page.physical # Ordinary /\ VirtualAccess \notin {0, page.physical}
           /\ RangeEnds("inaccessible", NextPage(here))
    <2>1. \/ access = 0 /\ page.physical = 0
          \/ page.physical # Ordinary /\ page.virtual \notin {Ordinary, 0, page.physical}
        BY <1>6 DEF Barred, VirtualAccess, InSpecial
    <2>2. \A a \in Nat : PageOf(a) = PageOf(here) => ~Readable(a)
        BY <1>1, <2>1 DEF Readable
    <2> QED
        BY <1>4, <1>6, <2>2
<1> QED
    BY <1>3, <1>5, <1>6 DEF RangeAllStops, Barred

(* The region ends, or the first page that is not mapped. *)
LEMMA RangeSafeStops ==
    ASSUME MemInv, RangeSafe
    PROVE  SkipsBarren
<1> DEFINE from == range.address
           here == PageOf(from)
           unmapped == {q \in here .. PageOf((from + ViableSize) - 1) : ~ mem[q].mapped}
           first == Min(unmapped)
           part == IF first * PageSize > from THEN first * PageSize - from ELSE 0
<1>1. At("range") /\ kind = "safe" /\ range.left > 0
    BY DEF RangeSafe
<1>2. \/ RangeGrows(ViableSize, 0)
      \/ /\ unmapped # {}
         /\ range' = [range EXCEPT !.address = @ + part, !.left = @ - part, !.size = @ + part]
         /\ io' = [io EXCEPT !.next = (first + 1) * PageSize, !.result = "unmapped"]
         /\ pc' = "ranged"
    BY DEF RangeSafe, Goto
<1>3. /\ from \in Nat /\ here \in 0 .. Pages - 1 /\ PageSize \in Nat /\ Pages \in Nat
      /\ range \in RangeType /\ range.left \in Nat /\ from + range.left <= Top
    BY <1>1, RangePlace, Sizes DEF MemInv, Types
<1>4. ViableSize \in 0 .. range.left /\ ViableSize > 0
    BY <1>1, RegionPlace
<1> HIDE DEF from, here
<1>5. CASE unmapped # {} /\ pc' = "ranged"
           /\ range' = [range EXCEPT !.address = @ + part, !.left = @ - part, !.size = @ + part]
           /\ io' = [io EXCEPT !.next = (first + 1) * PageSize, !.result = "unmapped"]
    <2>1. unmapped \in SUBSET Nat
        BY <1>3
    <2>2. first \in unmapped
        BY <1>5, <2>1, LeastOf
    <2> HIDE DEF first
    <2>3. /\ first \in Nat /\ here <= first /\ first <= PageOf((from + ViableSize) - 1)
          /\ ~mem[first].mapped
        BY <2>1, <2>2
    <2>4. PageOf((from + ViableSize) - 1) \in 0 .. Pages - 1
        <3>1. (from + ViableSize) - 1 \in Nat /\ (from + ViableSize) - 1 < Top
            BY <1>3, <1>4, Sizes
        <3> QED
            BY <3>1, PageInMemory
    <2>5. first + 1 \in 0 .. Pages
        BY <1>3, <2>3, <2>4
    <2>6. PageSize * first \in Nat /\ first * PageSize = PageSize * first
          /\ (first + 1) * PageSize = PageSize * (first + 1)
          /\ PageSize * (first + 1) = PageSize * first + PageSize
        BY <1>3, <2>3
    <2>7. part = IF PageSize * first > from THEN PageSize * first - from ELSE 0
        BY <2>6
    <2> HIDE DEF part
    <2>8. from + part \in Nat /\ PageSize * first <= from + part
        BY <1>3, <2>6, <2>7
    <2>9. from + part < PageSize * (first + 1)
        <3>1. CASE PageSize * first > from
            BY <1>3, <2>6, <2>7, <3>1, Sizes
        <3>2. CASE ~ (PageSize * first > from)
            <4>1. here < first + 1 /\ first + 1 \in Int
                BY <1>3, <2>3
            <4>2. from < PageSize * (first + 1)
                BY <1>3, <4>1, PageEnds DEF here
            <4> QED
                BY <1>3, <2>7, <3>2, <4>2
        <3> QED
            BY <3>1, <3>2
    <2>10. ASSUME NEW a \in Nat, PageOf(from + part) <= PageOf(a), PageOf(a) < first + 1
           PROVE  ~Readable(a)
        <3>1. first <= PageOf(from + part)
            BY <2>3, <2>8, PageAfter
        <3>2. PageOf(a) \in Nat /\ PageOf(from + part) \in Nat
            BY <2>8, PageBounds
        <3>3. PageOf(a) = first
            BY <2>3, <2>10, <3>1, <3>2
        <3> QED
            BY <1>1, <2>3, <3>3 DEF Readable
    <2>11. StopsAt(from + part, (first + 1) * PageSize)
        BY <2>5, <2>6, <2>8, <2>9, <2>10, BarrenPages
    <2>12. range'.address = from + part
        BY <1>3, <1>5 DEF RangeType, from
    <2> QED
        BY <1>5, <2>11, <2>12 DEF SkipsBarren
<1> QED
    BY <1>1, <1>2, <1>5, GrowsOn DEF from, here

(* Outside of the map and in a region that cannot be read, the pages up to *)
(* the next address are alike.                                             *)
LEMMA RegionBarren ==
    ASSUME NEW q \in 0 .. Pages - 1, kind = "safe", ~LooksSafe(q)
    PROVE  \E e \in q + 1 .. Pages : /\ RegionEnd(q) = PageSize * e
                                     /\ \A r \in q .. e - 1 : ~LooksSafe(r)
<1>1. PICK e \in q + 1 .. Pages :
              /\ RegionEnd(q) = PageSize * e
              /\ \A r \in q + 1 .. e - 1 : mem[r].vm = mem[q].vm
    BY RegionRun
<1>2. ASSUME NEW r \in q .. e - 1 PROVE ~LooksSafe(r)
    <2>1. r = q \/ r \in q + 1 .. e - 1
        BY Sizes
    <2> QED
        BY <1>1, <2>1 DEF LooksSafe
<1> QED
    BY <1>1, <1>2

LEMMA RangeOutsideMapStops ==
    ASSUME MemInv, NoSurprise, kind = "safe", RangeOutsideMap
    PROVE  SkipsBarren
<1> DEFINE from == range.address
           here == PageOf(from)
           above == {q \in InMap : q >= here}
           first == Min(above)
           behind == IF Viable(first) THEN first * PageSize ELSE RegionEnd(first)
<1>1. At("range") /\ range.left > 0
    BY DEF RangeOutsideMap
<1>2. /\ from \in Nat /\ here \in 0 .. Pages - 1 /\ PageSize \in Nat /\ Pages \in Nat
      /\ range.left \in Nat /\ from + range.left <= Top
    BY <1>1, RangePlace, Sizes
<1>3. mem[here].vm # "error"
    BY <1>2 DEF NoSurprise
<1>4. \/ above = {} /\ RangeEnds("unmapped", 0)
      \/ above # {} /\ first > here /\ RangeEnds("unmapped", behind)
      \/ ~Viable(here) /\ RangeEnds("protection", RegionEnd(here))
    BY <1>3 DEF RangeOutsideMap
<1>5. \A q : Viable(q) <=> LooksSafe(q)
    BY DEF Viable
<1>6. ASSUME NEW q \in 0 .. Pages - 1, q \notin InMap PROVE ~LooksSafe(q)
    BY <1>6 DEF InMap, LooksSafe
<1>7. \A a \in Nat : ~LooksSafe(PageOf(a)) => ~Readable(a)
    BY DEF Readable
<1> HIDE DEF from, here
<1>8. CASE above = {} /\ RangeEnds("unmapped", 0)
    <2>1. ASSUME NEW a \in from .. Top - 1 PROVE ~Readable(a)
        <3>1. a \in Nat /\ from <= a /\ a < Top
            BY <1>2, Sizes
        <3>2. here <= PageOf(a) /\ PageOf(a) \in 0 .. Pages - 1
            BY <1>2, <3>1, PagesInOrder, PageInMemory DEF here
        <3>3. PageOf(a) \notin InMap
            BY <1>2, <1>8, <3>2
        <3> QED
            BY <1>6, <1>7, <3>1, <3>2, <3>3
    <2>2. StopsAt(from, 0)
        BY <2>1 DEF StopsAt, Barren
    <2> QED
        BY <1>8, <2>2, EndsRange DEF from
<1>9. CASE above # {} /\ first > here /\ RangeEnds("unmapped", behind)
    <2>1. above \in SUBSET Nat /\ above \subseteq 0 .. Pages - 1
        BY DEF InMap
    <2>2. first \in above /\ \A q \in above : first <= q
        BY <1>9, <2>1, LeastOf
    <2> HIDE DEF above, first
    <2>3. first \in 0 .. Pages - 1
        BY <2>1, <2>2
    <2>4. ASSUME NEW q \in 0 .. Pages - 1, here <= q, q < first PROVE ~LooksSafe(q)
        <3>1. q \notin above
            BY <1>2, <2>2, <2>3, <2>4
        <3>2. q \notin InMap
            BY <1>2, <2>4, <3>1 DEF above
        <3> QED
            BY <1>6, <3>2
    <2>5. \E e \in first .. Pages : /\ behind = PageSize * e
                                    /\ \A q \in here .. e - 1 : ~LooksSafe(q)
        <3>1. CASE LooksSafe(first)
            <4>1. behind = PageSize * first
                BY <1>2, <1>5, <2>3, <3>1
            <4>2. \A q \in here .. first - 1 : q \in 0 .. Pages - 1 /\ q < first /\ here <= q
                BY <1>2, <2>3
            <4> QED
                BY <1>2, <2>4, <2>3, <4>1, <4>2
        <3>2. CASE ~LooksSafe(first)
            <4>1. PICK e \in first + 1 .. Pages :
                          /\ RegionEnd(first) = PageSize * e
                          /\ \A r \in first .. e - 1 : ~LooksSafe(r)
                BY <2>3, <3>2, RegionBarren
            <4>2. \A q \in here .. e - 1 : \/ q \in first .. e - 1
                                           \/ q \in 0 .. Pages - 1 /\ q < first /\ here <= q
                BY <1>2, <2>3
            <4>3. e \in first .. Pages
                BY <2>3
            <4> QED
                BY <1>5, <2>4, <3>2, <4>1, <4>2, <4>3
        <3> QED
            BY <3>1, <3>2
    <2> HIDE DEF behind
    <2>6. PICK e \in first .. Pages : /\ behind = PageSize * e
                                      /\ \A q \in here .. e - 1 : ~LooksSafe(q)
        BY <2>5
    <2>7. e \in 0 .. Pages /\ here < e /\ e \in Int
        BY <1>2, <1>9, <2>3
    <2>8. from < PageSize * e
        BY <1>2, <2>7, PageEnds DEF here
    <2>9. \A a \in Nat : here <= PageOf(a) /\ PageOf(a) < e => ~Readable(a)
        <3> SUFFICES ASSUME NEW a \in Nat, here <= PageOf(a), PageOf(a) < e
                     PROVE  ~Readable(a)
            OBVIOUS
        <3>1. PageOf(a) \in here .. e - 1
            BY <1>2, <2>7, PageBounds
        <3> QED
            BY <1>7, <2>6, <3>1
    <2>10. StopsAt(from, behind)
        BY <1>2, <2>6, <2>7, <2>8, <2>9, BarrenPages DEF here
    <2> QED
        BY <1>9, <2>10, EndsRange DEF from
<1>10. CASE ~Viable(here) /\ RangeEnds("protection", RegionEnd(here))
    <2>1. PICK e \in here + 1 .. Pages : /\ RegionEnd(here) = PageSize * e
                                         /\ \A r \in here .. e - 1 : ~LooksSafe(r)
        BY <1>2, <1>5, <1>10, RegionBarren
    <2>2. e \in 0 .. Pages /\ here < e /\ e \in Int
        BY <1>2
    <2>3. from < PageSize * e
        BY <1>2, <2>2, PageEnds DEF here
    <2>4. \A a \in Nat : here <= PageOf(a) /\ PageOf(a) < e => ~Readable(a)
        <3> SUFFICES ASSUME NEW a \in Nat, here <= PageOf(a), PageOf(a) < e
                     PROVE  ~Readable(a)
            OBVIOUS
        <3>1. PageOf(a) \in here .. e - 1
            BY <1>2, <2>2, PageBounds
        <3> QED
            BY <1>7, <2>1, <3>1
    <2>5. StopsAt(from, RegionEnd(here))
        BY <1>2, <2>1, <2>2, <2>3, <2>4, BarrenPages DEF here
    <2> QED
        BY <1>10, <2>5, EndsRange DEF from
<1> QED
    BY <1>4, <1>8, <1>9, <1>10

LEMMA RangeStops ==
    ASSUME MemInv, NoSurprise, kind \in {"safe", "all", "physical_safe"}, RangeAction
    PROVE  SkipsBarren
<1>1. CASE RangeComplete
    BY <1>1, EndsRange DEF RangeComplete
<1>2. CASE RangeWhole
    BY <1>2 DEF RangeWhole
<1>3. CASE RangeHeap
    BY <1>3 DEF RangeHeap
<1>4. CASE RangeAll
    BY <1>4, EndsRange, GrowsOn DEF RangeAll
<1>5. CASE RangeOutsideMap
    BY <1>5, RangeOutsideMapStops DEF RangeOutsideMap
<1> QED
    BY <1>1, <1>2, <1>3, <1>4, <1>5, RangeSafeStops, RangeAllStopsStops, RangeCacheStops
       DEF RangeAction

-----------------------------------------------------------------------------
LEMMA StopsLater ==
    ASSUME NEW e, NEW next, StopsAt(e, next), UNCHANGED request, Behind' = e, io'.next = next
    PROVE  StopsAt(Behind, io.next)'
<1>1. mem' = mem /\ kind' = kind /\ access' = access
    BY DEF request
<1>2. ASSUME NEW a PROVE Readable(a)' <=> Readable(a)
    BY <1>1 DEF Readable, LooksSafe
<1>3. ASSUME NEW a \in e .. (IF next = 0 THEN Top ELSE next) - 1 PROVE ~Readable(a)'
    BY <1>2, <1>3 DEF StopsAt, Barren
<1> QED
    BY <1>3 DEF StopsAt, Barren

(* While memory does what it says a transfer comes to its end. *)
LEMMA ChunkSkips ==
    ASSUME MemInv, NoSurprise, Skips, TransferPage \/ TransferWord \/ TransferComplete,
           UNCHANGED mcVars
    PROVE  Skips'
<1>1. pc = "transfer" /\ UNCHANGED request
    BY DEF TransferPage, TransferWord, TransferComplete, At
<1>2. /\ io \in IoType /\ tx \in TxType /\ cursor \in Nat /\ Wanted \in Int
      /\ io.address + io.left <= cursor + Wanted /\ cursor + Wanted <= Top
    <2>1. pc \in Transferring
        BY <1>1 DEF Transferring
    <2> QED
        BY <2>1, TransferPlace
<1>3. /\ io.address <= tx.address /\ tx.address + tx.left <= io.address + io.left
      /\ io.address \in Nat /\ io.left \in Nat /\ tx.address \in Nat /\ tx.left \in Nat
    BY <1>1, <1>2 DEF MemInv, Placed, IoType, TxType
<1>4. Wanted' = Wanted /\ cursor' = cursor
    BY DEF Wanted, mcVars
<1>5. /\ io.result = "success" => io.address + io.left = cursor + Wanted
      /\ io.result # "success" => /\ tx.address + tx.left = io.address + io.left
                                  /\ StopsAt(tx.address + tx.left, io.next)
    BY <1>1 DEF Skips, Behind
<1>6. ASSUME NEW n \in 0 .. tx.left, Advance(n), UNCHANGED <<pc, io>> PROVE Skips'
    <2>1. tx'.address = tx.address + n /\ tx'.left = tx.left - n
        BY <1>2, <1>6 DEF Advance, TxType
    <2>2. n \in Nat /\ tx'.address + tx'.left = tx.address + tx.left
        BY <1>3, <2>1
    <2>3. Behind' = tx.address + tx.left
        BY <1>1, <1>6, <2>2 DEF Behind
    <2>4. io.result # "success" => StopsAt(Behind, io.next)'
        BY <1>1, <1>5, <1>6, <2>3, StopsLater
    <2> QED
        BY <1>1, <1>4, <1>5, <1>6, <2>2, <2>4 DEF Skips
<1>7. CASE TransferComplete
    <2>1. /\ TransferReturns(tx.address - io.address, "success") /\ tx.left = 0
        BY <1>7 DEF TransferComplete
    <2>2. /\ pc' = "perform" /\ io'.address = io.address + (tx.address - io.address)
          /\ io'.left = io.left - (tx.address - io.address)
          /\ io'.next = io.next /\ io'.result = io.result
        BY <1>2, <2>1 DEF TransferReturns, Goto, IoType
    <2>3. io'.address = tx.address + tx.left /\ io'.address + io'.left = io.address + io.left
        BY <1>3, <2>1, <2>2
    <2>4. Behind' = tx.address + tx.left
        BY <2>2, <2>3 DEF Behind
    <2>5. io.result # "success" => /\ io'.left = 0
                                   /\ StopsAt(Behind, io.next)'
        BY <1>1, <1>3, <1>5, <2>1, <2>2, <2>4, StopsLater
    <2> QED
        BY <1>4, <1>5, <2>2, <2>3, <2>5 DEF Skips
<1>8. tx.left > 0 => ~mem[PageOf(tx.address)].fails
    <2> SUFFICES ASSUME tx.left > 0 PROVE ~mem[PageOf(tx.address)].fails
        OBVIOUS
    <2>1. tx.address < Top
        BY <1>2, <1>3, Sizes
    <2>2. PageOf(tx.address) \in 0 .. Pages - 1
        BY <1>3, <2>1, PageInMemory
    <2> QED
        BY <2>2 DEF NoSurprise
<1>9. CASE TransferPage
    <2>1. PageChunk \in 0 .. tx.left
        BY <1>2, PageChunkFits
    <2> QED
        BY <1>6, <1>8, <1>9, <2>1 DEF TransferPage
<1>10. CASE TransferWord
    <2>1. WordChunk \in 0 .. tx.left
        BY <1>2, <1>10, WordChunkFits DEF TransferWord
    <2> QED
        BY <1>6, <1>8, <1>10, <2>1 DEF TransferWord
<1> QED
    BY <1>7, <1>9, <1>10

LEMMA TransferSkips ==
    ASSUME MemInv, NoSurprise, kind \in {"safe", "all", "physical_safe"}, command.name = "f",
           pc \in Transferring, Skips, TransferStep, UNCHANGED mcVars
    PROVE  Skips'
<1>1. Wanted' = Wanted /\ cursor' = cursor
    BY DEF Wanted, mcVars
<1>2. /\ io \in IoType /\ range \in RangeType /\ io.address \in Nat /\ io.left \in Nat
      /\ cursor \in Nat
    BY TransferPlace DEF IoType
<1>3. CASE FindRange
    <2>1. /\ pc = "perform" /\ pc' = "range" /\ io.left > 0
          /\ io' = [io EXCEPT !.next = io.address + io.left]
        BY <1>3 DEF FindRange, At, Goto
    <2>2. io.result = "success" /\ io.address + io.left = cursor + Wanted
        BY <2>1 DEF Skips
    <2>3. io'.result = io.result /\ io'.address = io.address /\ io'.left = io.left
        BY <1>2, <2>1 DEF IoType
    <2> QED
        BY <1>1, <2>2, <2>3 DEF Skips
<1>4. CASE StartTransfer
    <2>1. /\ pc = "ranged" /\ pc' = "transfer" /\ UNCHANGED request
          /\ io' = [io EXCEPT !.left = IF io.result = "success" THEN @ ELSE range.size]
          /\ tx'.address = io.address /\ tx'.left = range.size
        BY <1>4 DEF StartTransfer, At, Goto
    <2>2. /\ io'.result = io.result /\ io'.address = io.address /\ io'.next = io.next
          /\ io'.left = IF io.result = "success" THEN io.left ELSE range.size
        BY <1>2, <2>1 DEF IoType
    <2>3. range.address = io.address + range.size
        BY <2>1 DEF MemInv, Placed
    <2>4. Behind = range.address /\ Behind' = range.address
        BY <2>1, <2>3 DEF Behind
    <2>5. io.result # "success" => StopsAt(Behind, io.next)'
        BY <2>1, <2>2, <2>4, StopsLater DEF Skips
    <2> QED
        BY <1>1, <2>1, <2>2, <2>5 DEF Skips
<1>5. CASE NothingToTransfer
    <2>1. /\ pc = "ranged" /\ pc' = "perform" /\ UNCHANGED request
          /\ io' = [io EXCEPT !.left = 0] /\ io.result # "success" /\ range.size = 0
        BY <1>5 DEF NothingToTransfer, At, Goto
    <2>2. io'.result = io.result /\ io'.address = io.address /\ io'.next = io.next /\ io'.left = 0
        BY <1>2, <2>1 DEF IoType
    <2>3. range.address = io.address
        BY <1>2, <2>1 DEF MemInv, Placed
    <2>4. Behind = range.address /\ Behind' = range.address
        BY <2>1, <2>2, <2>3 DEF Behind
    <2>5. StopsAt(Behind, io.next)'
        BY <2>1, <2>2, <2>4, StopsLater DEF Skips
    <2> QED
        BY <2>1, <2>2, <2>5 DEF Skips
<1>6. CASE RangeAction
    <2>1. pc = "range" /\ \E n, width : Asks(n, width)
        BY <1>6, RangeAsks DEF At
    <2>2. io.result = "success" /\ io.address + io.left = cursor + Wanted /\ UNCHANGED request
        BY <2>1 DEF Skips, Asks
    <2>3. SkipsBarren
        BY <1>6, RangeStops
    <2>4. CASE pc' = "range" /\ io' = io
        BY <1>1, <2>2, <2>4 DEF Skips
    <2>5. CASE pc' = "ranged"
        <3>1. PICK next, result : /\ io' = [io EXCEPT !.next = next, !.result = result]
                                  /\ result # "success" => StopsAt(range'.address, next)
            BY <2>3, <2>5 DEF SkipsBarren
        <3>2. io'.address = io.address /\ io'.left = io.left /\ io'.next = next
              /\ io'.result = result
            BY <1>2, <3>1 DEF IoType
        <3>3. Behind' = range'.address
            BY <2>5 DEF Behind
        <3>4. result # "success" => StopsAt(Behind, io.next)'
            BY <2>2, <3>1, <3>2, <3>3, StopsLater
        <3> QED
            BY <1>1, <2>2, <2>5, <3>2, <3>4 DEF Skips
    <2> QED
        BY <2>3, <2>4, <2>5 DEF SkipsBarren
<1> QED
    BY <1>3, <1>4, <1>5, <1>6, ChunkSkips DEF TransferStep, RangeAction

-----------------------------------------------------------------------------
(* The windows that a read lets f look at, and those that it skips.         *)

(* Multiples of an alignment; the sizes of words divide each other. *)
LEMMA Multiples ==
    ASSUME NEW w \in WordSizes
    PROVE  /\ w \in 1 .. Word /\ w \in Nat \ {0} /\ PageSize % w = 0
           /\ \A v \in WordSizes : w < v => v % w = 0
           /\ \A n \in Nat : (PageSize * n) % w = 0
           /\ \A a \in Nat : RoundUp(a, w) % w = 0
<1>1. w \in {1, 2, 4, 8} /\ w \in 1 .. Word /\ PageSize \in Nat /\ Word \in Nat
    BY Sizes DEF WordSizes
<1>2. PageSize % w = 0
    BY <1>1, PowersAssumption
<1>3. \A v \in WordSizes : w < v => v % w = 0
    BY <1>1 DEF WordSizes
<1>4. ASSUME NEW k \in Nat PROVE (w * k) % w = 0 /\ w * k = k * w
    BY <1>1
<1>5. ASSUME NEW n \in Nat PROVE (PageSize * n) % w = 0
    <2> DEFINE k == PageSize \div w
    <2>1. PageSize = w * k /\ k \in Nat
        BY <1>1, <1>2
    <2> HIDE DEF k
    <2>2. PageSize * n = w * (k * n) /\ k * n \in Nat
        BY <1>1, <2>1
    <2> QED
        BY <1>4, <2>2
<1>6. ASSUME NEW a \in Nat PROVE RoundUp(a, w) % w = 0
    <2>1. (a + w - 1) \div w \in Nat
        BY <1>1
    <2> QED
        BY <1>4, <2>1 DEF RoundUp
<1> QED
    BY <1>1, <1>2, <1>3, <1>5, <1>6

LEMMA AlignedSteps ==
    ASSUME NEW w \in WordSizes, NEW x \in Int, NEW y \in Int, x % w = 0, y % w = 0
    PROVE  (x + y) % w = 0 /\ (x - y) % w = 0 /\ (x < y => x + w <= y)
BY Sizes DEF WordSizes

(* Where f is, and how it aligns its windows. *)
LEMMA FindPlace ==
    ASSUME MemInv, WindowInv, command.name = "f", pc \in Active
    PROVE  /\ cursor \in Nat /\ command.start \in Nat /\ command.end \in Nat
           /\ command.end <= Top
           /\ command.width \in WordSizes /\ command.align \in WordSizes
           /\ command.width \in Nat \ {0} /\ command.align \in Nat \ {0} /\ p \in Int
BY CommandPlace, Multiples, Sizes DEF WindowInv, Kept

(* A window that could be read, up to the end of what was transferred, was *)
(* looked at before or is looked at now.                                   *)
LEMMA LooksAt ==
    ASSUME MemInv, WindowInv, Searched, FindWindows,
           NEW a \in command.start .. command.end - command.width, Aligned(a),
           \A i \in 0 .. command.width - 1 : Readable(a + i),
           a <= cursor + Transferred - command.width
    PROVE  \E w \in tested' : w.at = a
<1>1. /\ TransferDone /\ command.name = "f"
      /\ tested' = IF Transferred > 0 THEN tested \cup {Window(q) : q \in Windows} ELSE tested
    BY DEF FindWindows, HasRead
<1>2. pc \in Active /\ Transferred \in Nat
    BY <1>1, BytesRead
<1>3. /\ cursor \in Nat /\ command.start \in Nat /\ command.end \in Nat
      /\ command.width \in WordSizes /\ command.align \in WordSizes
      /\ command.width \in Nat \ {0} /\ command.align \in Nat \ {0} /\ p \in Int
    BY <1>1, <1>2, FindPlace
<1>4. /\ Aligned(cursor) /\ Tested(cursor + p)
      /\ p = 0 \/ (command.align < command.width /\ p = command.align - command.width)
    BY <1>2 DEF Searched
<1>5. a \in Int
    BY <1>3
<1>6. CASE a < cursor + p
    <2>1. \E w \in tested : w.at = a
        BY <1>4, <1>6 DEF Tested
    <2> QED
        BY <1>1, <2>1
<1>7. CASE cursor + p <= a
    <2> DEFINE q == a - cursor
    <2>1. q \in p .. Transferred - command.width /\ cursor + q = a
        BY <1>2, <1>3, <1>5, <1>7
    <2>2. p % command.align = 0
        <3>1. CASE p = 0
            <4>1. 0 % command.align = 0
                BY <1>3, Multiples
            <4> QED
                BY <3>1, <4>1
        <3>2. CASE command.align < command.width /\ p = command.align - command.width
            <4>1. command.width % command.align = 0 /\ command.align % command.align = 0
                  /\ command.width \in Int /\ command.align \in Int
                BY <1>3, <3>2, Multiples
            <4>2. (command.align - command.width) % command.align = 0
                BY <1>3, <4>1, AlignedSteps, Zenon
            <4> QED
                BY <3>2, <4>2
        <3> QED
            BY <1>4, <3>1, <3>2
    <2>3. (q - p) % command.align = 0
        <3>1. (a - cursor) % command.align = 0
            <4>1. a % command.align = 0 /\ cursor % command.align = 0 /\ cursor \in Int
                BY <1>3, <1>4 DEF Aligned
            <4> QED
                BY <1>3, <1>5, <4>1, AlignedSteps, Zenon
        <3>2. a - cursor \in Int
            BY <1>3, <1>5
        <3> QED
            BY <1>3, <1>5, <2>2, <3>1, <3>2, AlignedSteps
    <2>4. Transferred > 0
        BY <1>2, <1>3, <1>4, <2>1
    <2> HIDE DEF q
    <2>5. Window(q) \in tested' /\ Window(q).at = a
        BY <1>1, <2>1, <2>3, <2>4 DEF Windows, Window
    <2> QED
        BY <2>5
<1> QED
    BY <1>3, <1>5, <1>6, <1>7

(* No window that can be read reaches into what a transfer skips. *)
LEMMA Skipped ==
    ASSUME NEW from \in Nat, NEW next \in Nat, StopsAt(from, next),
           NEW width \in Nat \ {0}, NEW a \in Nat, a + width <= Top,
           \A i \in 0 .. width - 1 : Readable(a + i),
           next # 0 => a < next
    PROVE  a <= from - width
<1> SUFFICES ASSUME ~ (a <= from - width) PROVE FALSE
    OBVIOUS
<1>1. Top \in Nat /\ from < a + width
    BY Sizes
<1> DEFINE b == IF a < from THEN from ELSE a
<1>2. b \in Nat /\ a <= b /\ b < a + width /\ from <= b
    BY <1>1
<1>3. b < IF next = 0 THEN Top ELSE next
    BY <1>1, <1>2 DEF StopsAt
<1> HIDE DEF b
<1>4. b \in from .. (IF next = 0 THEN Top ELSE next) - 1
    BY <1>1, <1>2, <1>3
<1>5. ~Readable(b)
    BY <1>4 DEF StopsAt, Barren
<1>6. b - a \in 0 .. width - 1 /\ a + (b - a) = b
    BY <1>2
<1>7. Readable(a + (b - a))
    BY <1>6
<1> QED
    BY <1>5, <1>6, <1>7

LEMMA Lower ==
    ASSUME NEW a \in Int, NEW b \in Int, NEW c \in Int, c <= 0, a < b + c
    PROVE  a < b
OBVIOUS

(* The windows before an address, with what has been looked at by now. *)
TestedBy(end, looked) ==
    \A a \in command.start .. command.end - command.width :
        /\ a < end /\ Aligned(a)
        /\ \A i \in 0 .. command.width - 1 : Readable(a + i)
        => \E w \in looked : w.at = a

LEMMA SameReadable ==
    ASSUME UNCHANGED request
    PROVE  /\ \A a : Readable(a)' <=> Readable(a)
           /\ NoSurprise' <=> NoSurprise
<1>1. mem' = mem /\ kind' = kind /\ access' = access
    BY DEF request
<1>2. ASSUME NEW a PROVE Readable(a)' <=> Readable(a)
    BY <1>1 DEF Readable, LooksSafe
<1> QED
    BY <1>1, <1>2 DEF NoSurprise

LEMMA TestedLater ==
    ASSUME UNCHANGED request, command' = command
    PROVE  /\ TestedBy(cursor' + p', tested') => Tested(cursor + p)'
           /\ (\A e : TestedBy(e, tested')) => (\A e \in Int : Tested(e)')
<1>1. \A a : /\ Readable(a)' <=> Readable(a)
             /\ Aligned(a)' <=> Aligned(a)
    BY SameReadable DEF Aligned
<1> QED
    BY <1>1 DEF TestedBy, Tested

(* f goes on behind what it has transferred, or behind what it skips, and  *)
(* has looked at every window before the next one.                         *)
LEMMA FindWindowsSearches ==
    ASSUME MemInv, WindowInv, Skips, Searched, FindWindows
    PROVE  Searched'
<1> DEFINE from == cursor + Transferred
           next == io.next
           width == command.width
           align == command.align
<1>1. /\ TransferDone /\ command.name = "f" /\ UNCHANGED <<request, command>>
      /\ KeepLastWord \/ p' = 0
      /\ Transferred > 0 => KeepLastWord
      /\ \/ /\ next = 0 \/ next >= command.end
            /\ pc' = "end" /\ outcome' = "success"
         \/ /\ next # 0 /\ next < command.end
            /\ pc' = "loop" /\ cursor' = next
    <2>1. /\ TransferDone /\ command.name = "f" /\ UNCHANGED <<request, command>>
          /\ KeepLastWord \/ p' = 0
          /\ Transferred > 0 => KeepLastWord
          /\ IF next = 0 \/ next >= command.end
             THEN pc' = "end" /\ outcome' = "success"
             ELSE pc' = "loop" /\ cursor' = next
        BY DEF FindWindows, HasRead, Finish, Goto
    <2>2. next \in Nat /\ command.end \in Nat
        BY <2>1, BytesRead, CommandPlace DEF IoType
    <2> QED
        BY <2>1, <2>2
<1>2. pc \in Active /\ pc \in Transferring /\ pc = "perform" /\ Transferred \in Nat
      /\ Transferred <= PageSize
    BY <1>1, BytesRead DEF TransferDone, At
<1>3. /\ cursor \in Nat /\ command.start \in Nat /\ command.end \in Nat /\ command.end <= Top
      /\ width \in WordSizes /\ align \in WordSizes
      /\ width \in Nat \ {0} /\ align \in Nat \ {0} /\ p \in Int
      /\ PageSize \in Nat \ {0} /\ Top \in Nat
    BY <1>1, <1>2, FindPlace, Sizes
<1>4. /\ kind \in {"safe", "all", "physical_safe"} /\ Aligned(cursor)
    BY <1>2 DEF Searched
<1>5. /\ next \in Nat /\ io.address = from /\ io.left = 0 /\ Wanted \in Int
      /\ cursor < command.end /\ Behind = from
    <2>1. io \in IoType /\ io.start = cursor /\ cursor < command.end /\ Wanted \in Int
        BY <1>1, <1>2, TransferPlace DEF MemInv, Placed
    <2> QED
        BY <1>1, <1>2, <1>3, <2>1 DEF IoType, TransferDone, Transferred, Behind
<1>6. /\ io.result = "success" => Transferred = Wanted /\ next = from
      /\ io.result # "success" => StopsAt(from, next)
    <2>1. io.result = "success" => from + 0 = cursor + Wanted
        BY <1>5 DEF Skips
    <2>2. from = cursor + Wanted => next = from
        BY <1>1, <1>2, <1>5 DEF WindowInv, Follows
    <2>3. io.result # "success" => StopsAt(from, next)
        BY <1>5 DEF Skips
    <2> QED
        BY <1>2, <1>3, <1>5, <2>1, <2>2, <2>3
<1>7. Wanted = IF command.end - cursor < PageSize THEN command.end - cursor ELSE PageSize
    BY <1>1 DEF Wanted, Least
<1>8. p' \in Int /\ p' <= 0 /\ (p' = 0 \/ (align < width /\ p' = align - width))
    BY <1>1, <1>3 DEF KeepLastWord
<1>9. ASSUME NEW a \in command.start .. command.end - width, Aligned(a),
             \A i \in 0 .. width - 1 : Readable(a + i), a <= from - width
      PROVE  \E w \in tested' : w.at = a
    <2>1. a <= cursor + Transferred - command.width
        <3>1. a \in Int /\ a <= from - width
            BY <1>3, <1>9
        <3>2. from = cursor + Transferred /\ width = command.width
            OBVIOUS
        <3>3. cursor \in Int /\ Transferred \in Int /\ command.width \in Int
            BY <1>2, <1>3
        <3> HIDE DEF from, width
        <3> QED
            BY <3>1, <3>2, <3>3
    <2>2. \A i \in 0 .. command.width - 1 : Readable(a + i)
        BY <1>9
    <2>3. a \in command.start .. command.end - command.width
        OBVIOUS
    <2> QED
        BY <1>9, <2>1, <2>2, <2>3, LooksAt, Zenon
<1> HIDE DEF from, next, width, align
<1>10. CASE io.result # "success"
    <2>1. ASSUME NEW a \in command.start .. command.end - width, Aligned(a),
                 \A i \in 0 .. width - 1 : Readable(a + i), next # 0 => a < next
          PROVE  \E w \in tested' : w.at = a
        <3>1. a \in Nat /\ a + width <= Top
            BY <1>3
        <3>2. from \in Nat
            BY <1>2, <1>3 DEF from
        <3>3. a <= from - width
            BY <1>3, <1>5, <1>6, <1>10, <2>1, <3>1, <3>2, Skipped
        <3> QED
            BY <1>9, <2>1, <3>3
    <2>2. CASE pc' = "end" /\ (next = 0 \/ next >= command.end)
        <3>1. \A a \in command.start .. command.end - width : next # 0 => a < next
            BY <1>3, <1>5, <2>2
        <3>2. \A e : TestedBy(e, tested')
            BY <2>1, <3>1 DEF TestedBy, width
        <3> QED
            BY <1>1, <2>2, <3>2, TestedLater DEF Searched, Active, Transferring
    <2>3. CASE pc' = "loop" /\ cursor' = next /\ next # 0
        <3>1. ASSUME NEW a \in command.start .. command.end - width, a < cursor' + p'
              PROVE  a < next
            <4>1. a \in Int /\ next \in Int /\ p' \in Int
                BY <1>3, <1>5, <1>8
            <4>2. p' <= 0 /\ cursor' = next
                BY <1>8, <2>3
            <4>3. a < next + p'
                BY <3>1, <4>2
            <4> QED
                BY <4>1, <4>2, <4>3, Lower
        <3>2. TestedBy(cursor' + p', tested')
            BY <2>1, <3>1 DEF TestedBy, width
        <3>3. PICK n \in 0 .. Pages : next = PageSize * n
            BY <1>6, <1>10, <2>3 DEF StopsAt
        <3>4. Aligned(cursor')
            <4>1. n \in Nat
                BY Sizes
            <4>2. (PageSize * n) % align = 0
                BY <1>3, <4>1, Multiples
            <4> QED
                BY <2>3, <3>3, <4>2 DEF Aligned, align
        <3> QED
            BY <1>1, <1>4, <1>8, <2>3, <3>2, <3>4, TestedLater
               DEF Searched, Aligned, request, align, width
    <2> QED
        BY <1>1, <2>2, <2>3 DEF next
<1>11. CASE io.result = "success"
    <2>1. next = from /\ Transferred = Wanted /\ from = cursor + Transferred
        BY <1>6, <1>11 DEF from
    <2>2. next # 0
        BY <1>3, <1>5, <1>7, <2>1
    <2>3. CASE pc' = "end" /\ next >= command.end
        <3>1. \A a \in command.start .. command.end - width : a <= from - width
            BY <1>3, <1>5, <2>1, <2>3
        <3>2. \A e : TestedBy(e, tested')
            BY <1>9, <3>1 DEF TestedBy, width
        <3> QED
            BY <1>1, <2>3, <3>2, TestedLater DEF Searched, Active, Transferring
    <2>4. CASE pc' = "loop" /\ cursor' = next /\ next < command.end
        <3>1. Transferred = PageSize /\ cursor' = cursor + PageSize
            BY <1>2, <1>3, <1>5, <1>7, <2>1, <2>4
        <3>2. Aligned(cursor')
            <4>1. /\ cursor % align = 0 /\ PageSize % align = 0 /\ cursor \in Int
                  /\ PageSize \in Int
                BY <1>3, <1>4, Multiples DEF Aligned, align
            <4> QED
                BY <1>3, <3>1, <4>1, AlignedSteps DEF Aligned, align
        <3>3. /\ align < width => p' = align - width
              /\ ~ (align < width) => p' = 0
            BY <1>1, <1>3, <3>1 DEF KeepLastWord, align, width
        <3>4. ASSUME NEW a \in command.start .. command.end - width, Aligned(a), a < cursor' + p'
              PROVE  a <= from - width
            <4>1. /\ a \in Int /\ from \in Int /\ p' \in Int /\ cursor' = from
                  /\ width \in Int /\ align \in Int
                BY <1>3, <1>5, <1>8, <2>1, <2>4
            <4>2. a % align = 0 /\ from % align = 0
                BY <3>2, <3>4, <4>1 DEF Aligned, align
            <4>3. CASE align < width
                <5>1. width % align = 0
                    BY <1>3, <4>3, Multiples
                <5>2. (from - width) % align = 0
                    BY <1>3, <4>1, <4>2, <5>1, AlignedSteps
                <5>4. from - width \in Int
                    BY <4>1
                <5>3. from - width < a => (from - width) + align <= a
                    BY <1>3, <4>1, <4>2, <5>2, <5>4, AlignedSteps
                <5> QED
                    BY <3>3, <3>4, <4>1, <4>3, <5>3
            <4>4. CASE ~ (align < width)
                <5>1. a < from => a + align <= from
                    BY <1>3, <4>1, <4>2, AlignedSteps
                <5> QED
                    BY <3>3, <3>4, <4>1, <4>4, <5>1
            <4> QED
                BY <4>3, <4>4
        <3>5. TestedBy(cursor' + p', tested')
            BY <1>9, <3>4 DEF TestedBy, width
        <3> QED
            BY <1>1, <1>4, <1>8, <2>4, <3>2, <3>5, TestedLater
               DEF Searched, Aligned, request, align, width
    <2> QED
        BY <1>1, <2>2, <2>3, <2>4 DEF next
<1> QED
    BY <1>10, <1>11

-----------------------------------------------------------------------------
(* Nothing but FindWindows changes what has been searched. *)
LEMMA SearchedStays ==
    ASSUME Searched, pc \in Active, pc' \in Active, UNCHANGED request, UNCHANGED mcVars
    PROVE  Searched'
<1>1. /\ command' = command /\ cursor' = cursor /\ p' = p /\ tested' = tested /\ kind' = kind
    BY DEF mcVars, request
<1>2. Tested(cursor + p) /\ Aligned(cursor)
    BY DEF Searched
<1>3. Tested(cursor + p)'
    BY <1>1, <1>2, TestedLater DEF TestedBy, Tested
<1>4. Aligned(cursor)'
    BY <1>1, <1>2 DEF Aligned
<1>5. pc' # "end"
    BY DEF Active, Transferring
<1> QED
    BY <1>1, <1>3, <1>4, <1>5 DEF Searched

LEMMA FindReadSearches ==
    ASSUME MemInv, Searched, FindRead
    PROVE  Skips' /\ Searched'
<1>1. /\ pc = "loop" /\ pc' = "perform" /\ command.name = "f" /\ ~ RangeTooSmall
      /\ io' = [start |-> cursor, address |-> cursor, left |-> Wanted,
                next |-> 0, result |-> "success"]
      /\ command' = command /\ cursor' = cursor /\ size' = size
      /\ UNCHANGED request /\ UNCHANGED mcVars
    BY DEF FindRead, Running, PerformTransfer, At, Goto, mcVars, Wanted
<1>2. pc \in Active /\ pc' \in Active
    BY <1>1 DEF Active, Transferring
<1>3. Wanted' = Wanted
    BY <1>1 DEF Wanted
<1> QED
    BY <1>1, <1>2, <1>3, SearchedStays DEF Skips

LEMMA TransferSearches ==
    ASSUME MemInv, command.name = "f", NoSurprise, pc \in Transferring => Skips, Searched,
           TransferStep, UNCHANGED mcVars
    PROVE  Skips' /\ Searched'
<1>1. pc \in Transferring /\ pc' \in Transferring /\ UNCHANGED request
    BY DEF TransferStep, FindRange, RangeComplete, RangeWhole, RangeOutsideMap, RangeHeap,
           RangeSafe, RangeAllStops, RangeAll, RangeCache, StartTransfer, NothingToTransfer,
           TransferPage, TransferWord, TransferComplete, RangeEnds, RangeGrows, TransferReturns, Transferring,
           At, Goto
<1>2. pc \in Active /\ pc' \in Active
    BY <1>1 DEF Active
<1>3. kind \in {"safe", "all", "physical_safe"}
    BY <1>2 DEF Searched
<1> QED
    BY <1>1, <1>2, <1>3, TransferSkips, SearchedStays

(* A range too small for a window has none. *)
LEMMA FindNothingSearches ==
    ASSUME MemInv, WindowInv, FindNothing
    PROVE  Searched'
<1>1. /\ pc = "loop" /\ pc' = "end" /\ command.name = "f" /\ RangeTooSmall
      /\ command' = command
    BY DEF FindNothing, Running, At, Finish, Goto
<1>2. pc \in Active /\ pc' \notin Active
    BY <1>1 DEF Active, Transferring
<1>3. command.start \in Nat /\ command.end \in Nat /\ command.width \in Nat
      /\ command.start + command.width - 1 >= command.end
    BY <1>1, <1>2, FindPlace DEF RangeTooSmall
<1>4. command.start .. command.end - command.width = {}
    BY <1>3
<1>5. \A e \in Int : Tested(e)'
    BY <1>1, <1>4 DEF Tested
<1> QED
    BY <1>2, <1>5 DEF Searched

LEMMA CommandSearches ==
    ASSUME MemInv, WindowInv, command.name = "f", pc \in Transferring => Skips, Searched,
           CommandStep
    PROVE  (pc' \in Transferring => Skips') /\ Searched'
<1>1. CASE Interrupted
    <2>1. pc' = "end" /\ outcome' = "interrupted"
        BY <1>1 DEF Interrupted, Finish, Goto
    <2> QED
        BY <2>1 DEF Searched, Active, Transferring
<1>2. CASE FindNothing
    <2>1. pc' = "end"
        BY <1>2 DEF FindNothing, Finish, Goto
    <2> QED
        BY <1>2, <2>1, FindNothingSearches DEF Transferring
<1>3. CASE FindWindows
    <2>1. pc \in Transferring
        BY <1>3 DEF FindWindows, HasRead, TransferDone, At, Transferring
    <2>2. pc' \in {"loop", "end"}
        BY <1>3 DEF FindWindows, Finish, Goto
    <2> QED
        BY <1>3, <2>1, <2>2, FindWindowsSearches DEF Transferring
<1>4. ~ (Read \/ NothingLeft \/ InterruptedPrinting \/ PrintWords \/ DumpBinary \/ DumpLines
         \/ Disassemble \/ ReadString)
    BY DEF Read, NothingLeft, InterruptedPrinting, PrintWords, DumpBinary, DumpLines,
           Disassemble, ReadString, Running, HasRead, Readers
<1> QED
    BY <1>1, <1>2, <1>3, <1>4, FindReadSearches DEF CommandStep

(* f begins at an aligned address, with nothing looked at. *)
LEMMA RequestSearches ==
    ASSUME WindowInv, ReadCommand \/ FindCommand, command'.name = "f"
    PROVE  (pc' \in Transferring => Skips') /\ Searched'
<1>1. FindCommand
    <2>1. ASSUME ReadCommand PROVE FALSE
        <3>1. PICK functions \in Availability, force \in BOOLEAN, physical \in BOOLEAN,
                   safe_memory \in BOOLEAN, name \in Readers, span \in Spans :
                 Request(SelectFn(functions, force, physical, safe_memory),
                         [name |-> name, start |-> span[1], end |-> span[2]])
            BY <2>1 DEF ReadCommand
        <3>2. command'.name = name
            BY <3>1 DEF Request
        <3> QED
            BY <3>2 DEF Readers
    <2> QED
        BY <2>1
<1>2. PICK functions \in Availability, physical \in BOOLEAN, heap \in BOOLEAN, span \in Spans,
           width \in WordSizes, align \in WordSizes :
           Request(FindFn(functions, physical, heap),
                   [name |-> "f", start |-> RoundUp(span[1], align), end |-> span[2],
                    width |-> width, align |-> align])
    BY <1>1 DEF FindCommand
<1> DEFINE fn == FindFn(functions, physical, heap)
           new == [name |-> "f", start |-> RoundUp(span[1], align), end |-> span[2],
                   width |-> width, align |-> align]
<1>3. fn \in {"safe", "all", "physical_safe", None}
    BY DEF FindFn
<1>4. /\ new.start = RoundUp(span[1], align) /\ new.align = align
      /\ RoundUp(span[1], align) \in Nat /\ RoundUp(span[1], align) % align = 0
    <2>1. span \in (0 .. Top) \X (0 .. Top)
        BY SpansAssumption
    <2>2. span[1] \in Nat
        BY <2>1, Sizes
    <2> QED
        BY <2>2, Multiples, RoundedUp
<1>5. Request(fn, new)
    BY <1>2
<1> HIDE DEF fn, new
<1>6. /\ command' = new /\ kind' = fn /\ p' = 0
      /\ \/ pc' = "end" /\ outcome' = "failure"
         \/ pc' = "loop" /\ cursor' = new.start /\ fn # None
    <2>1. pc = "command"
        BY <1>1 DEF FindCommand, At
    <2> QED
        BY <1>5, <2>1 DEF Request, Finish, Goto, WindowInv
<1>7. CASE pc' = "end" /\ outcome' = "failure"
    BY <1>7 DEF Searched, Active, Transferring
<1>8. CASE pc' = "loop" /\ cursor' = new.start /\ fn # None
    <2>1. Aligned(cursor)'
        BY <1>4, <1>6, <1>8 DEF Aligned
    <2>2. Tested(cursor + p)'
        <3>1. cursor' + p' = command'.start /\ command'.start \in Nat
            BY <1>4, <1>6, <1>8
        <3>2. \A a \in command'.start .. command'.end - command'.width : ~ (a < cursor' + p')
            BY <3>1
        <3> QED
            BY <3>2 DEF Tested
    <2> QED
        BY <1>3, <1>6, <1>8, <2>1, <2>2 DEF Searched, Transferring
<1> QED
    BY <1>6, <1>7, <1>8

LEMMA NextSearches ==
    ASSUME MemInv, WindowInv, SearchInv, [Next]_vars
    PROVE  SearchInv'
<1> SUFFICES ASSUME command'.name = "f", NoSurprise'
             PROVE  (pc' \in Transferring => Skips') /\ Searched'
    BY DEF SearchInv
<1>1. CASE ReadCommand \/ FindCommand
    BY <1>1, RequestSearches
<1>2. ASSUME UNCHANGED request, command' = command
      PROVE  (pc \in Transferring => Skips) /\ Searched /\ NoSurprise /\ command.name = "f"
    BY <1>2, SameReadable DEF SearchInv
<1>3. CASE CommandStep
    <2>1. UNCHANGED request /\ command' = command
        BY <1>3 DEF CommandStep, Read, NothingLeft, Interrupted, InterruptedPrinting, PrintWords,
                    DumpBinary, DumpLines, Disassemble, ReadString, Continue, FindNothing,
                    FindRead, FindWindows, mcVars
    <2> QED
        BY <1>2, <1>3, <2>1, CommandSearches
<1>4. CASE TransferStep /\ UNCHANGED mcVars
    <2>1. UNCHANGED request /\ command' = command
        BY <1>4 DEF mcVars, TransferStep, FindRange, RangeComplete, RangeWhole, RangeOutsideMap,
                    RangeHeap, RangeSafe, RangeAllStops, RangeAll, RangeCache, StartTransfer,
                    NothingToTransfer, TransferPage, TransferWord, TransferComplete, RangeEnds,
                    RangeGrows
    <2> QED
        BY <1>2, <1>4, <2>1, TransferSearches
<1>5. CASE UNCHANGED vars
    <2>1. /\ UNCHANGED request /\ UNCHANGED mcVars /\ command' = command
          /\ pc' = pc /\ io' = io /\ range' = range /\ tx' = tx /\ cursor' = cursor /\ size' = size
          /\ outcome' = outcome /\ tested' = tested /\ p' = p /\ kind' = kind
        BY <1>5 DEF vars, kmVars, mcVars, request
    <2>2. (pc \in Transferring => Skips) /\ Searched
        BY <1>2, <2>1
    <2>3. \A a : (Readable(a)' <=> Readable(a))
        BY <2>1, SameReadable
    <2>4. Behind' = Behind /\ Wanted' = Wanted
        BY <2>1 DEF Behind, Wanted
    <2>5. Skips => Skips'
        <3>1. ASSUME StopsAt(Behind, io.next) PROVE StopsAt(Behind, io.next)'
            BY <2>1, <2>4, <3>1, StopsLater
        <3> QED
            BY <2>1, <2>4, <3>1 DEF Skips
    <2>6. Searched'
        <3>1. \A e : Tested(e) => Tested(e)'
            BY <2>1, <2>3 DEF Tested, Aligned
        <3> QED
            BY <2>1, <2>2, <3>1 DEF Searched, Aligned
    <2> QED
        BY <2>1, <2>2, <2>5, <2>6
<1> QED
    BY <1>1, <1>3, <1>4, <1>5 DEF Next

(***************************************************************************)
(* f looks at every aligned window of its range whose bytes can all be     *)
(* read, whatever it has to skip and wherever a read begins and ends, if   *)
(* no transfer of memory that looks readable fails and no lookup does; and *)
(* at none wrongly but for the bytes of a page whose transfer fails        *)
(* (find.c, memctl_find; kernel_memory.c, the next addresses of the        *)
(* transfer_range functions).                                              *)
(***************************************************************************)
THEOREM FindIsExact == Spec => []FindExact
<1>1. Init => SearchInv
    <2>1. None # "f"
        BY DEF None
    <2> QED
        BY <2>1 DEF Init, SearchInv
<1>2. MemInv /\ WindowInv /\ SearchInv /\ [Next]_vars => SearchInv'
    BY NextSearches
<1>3. MemInv /\ WindowInv /\ SearchInv => FindExact
    <2> SUFFICES ASSUME MemInv, SearchInv, command.name = "f", outcome = "success", NoSurprise,
                        NEW a \in command.start .. command.end - command.width,
                        a % command.align = 0,
                        \A i \in 0 .. command.width - 1 : Readable(a + i)
                 PROVE  \E w \in tested : w.at = a
        BY DEF FindExact, WindowInv
    <2>1. pc = "end"
        BY DEF MemInv, Types
    <2>2. Tested(a + 1)
        BY <2>1 DEF SearchInv, Searched
    <2> QED
        BY <2>2 DEF Tested, Aligned
<1> QED
    BY <1>1, <1>2, <1>3, MemInvHolds, WindowInvHolds, PTL DEF Spec
===============================================================================
