---------------------------- MODULE LibmemctlProofs ----------------------------
(***************************************************************************)
(* Two small parts of libmemctl that need no other.                        *)
(*                                                                         *)
(* open_service_with_known_connection_id finds the right ID and leaves no  *)
(* client behind: for any number of registry entry IDs and of tries, and   *)
(* whatever other processes open and close meanwhile.                      *)
(*                                                                         *)
(* The error stack keeps room for one more error and its data one owner:   *)
(* for any set of data blocks, any growth of at least 2 and any depth of   *)
(* errors and of stopped regions.                                          *)
(***************************************************************************)
EXTENDS OpenClient, ErrorStack, FiniteSetTheorems, SequenceTheorems, TLAPS

(* The IDs of a listing, which are finitely many. *)
ListingTypeOK ==
    /\ children \subseteq Ids /\ always \subseteq Ids /\ ever \subseteq Ids
    /\ old \subseteq Ids /\ new \subseteq Ids

(* The connection of this try is a child that was not there before. *)
Connected == ours = {connect} /\ connect \in children /\ connect \notin old

(***************************************************************************)
(* While the second listing goes on our client stays: nobody else closes   *)
(* it, so that it is among the children that every listing contains.       *)
(***************************************************************************)
Progress ==
    /\ pc \in {"list_old", "open", "failed"} => ours = {}
    /\ pc = "list_new" => Connected /\ connect \in always
    /\ pc = "compare" => Connected /\ connect \in new
    /\ pc = "opened" => ours = {connect} /\ connection_id = connect

IInv == ListingTypeOK /\ Progress

-----------------------------------------------------------------------------
LEMMA InitInv == Init => IInv
BY DEF Init, IInv, ListingTypeOK, Progress

(* Other processes touch neither our client nor what was listed. *)
LEMMA OthersPreserve ==
    ASSUME IInv, OtherOpens \/ OtherCloses
    PROVE  IInv'
<1>1. CASE OtherOpens
    <2>1. PICK c \in NewIds : children' = children \cup {c} /\ ever' = ever \cup {c}
        BY <1>1 DEF OtherOpens
    <2>2. c \in Ids
        BY <2>1 DEF NewIds
    <2> QED
        BY <1>1, <2>1, <2>2 DEF OtherOpens, IInv, ListingTypeOK, Progress, Connected
<1>2. CASE OtherCloses
    <2>1. PICK c \in children \ ours : children' = children \ {c} /\ always' = always \ {c}
        BY <1>2 DEF OtherCloses
    <2> QED
        BY <1>2, <2>1 DEF OtherCloses, IInv, ListingTypeOK, Progress, Connected
<1> QED
    BY <1>1, <1>2

(* The only new child is the one that was opened. *)
LEMMA OneNewChild ==
    ASSUME IInv, pc = "compare", Cardinality(Fresh) = 1
    PROVE  Fresh = {connect}
<1>1. connect \in Fresh
    BY DEF IInv, Progress, Connected, Fresh
<1>2. IsFiniteSet(Fresh)
    BY IdsAssumption, FS_Subset DEF IInv, ListingTypeOK, Fresh
<1> QED
    BY <1>1, <1>2, FS_Singleton

(* Closing the connection leaves no client of ours. *)
LEMMA CloseLeavesNone ==
    ASSUME IInv, CloseConnect, Connected
    PROVE  ours' = {} /\ children' \subseteq Ids
BY DEF IInv, ListingTypeOK, CloseConnect, Connected

LEMMA StepPreserves ==
    ASSUME IInv, Step
    PROVE  IInv'
<1>1. CASE ListOld
    <2>1. old' \subseteq Ids
        BY <1>1 DEF ListOld, Listings, IInv, ListingTypeOK
    <2> QED
        BY <1>1, <2>1 DEF ListOld, IInv, ListingTypeOK, Progress
<1>2. CASE OpenService
    <2>1. CASE pc' = "failed"
        BY <1>2, <2>1 DEF OpenService, StartListing, IInv, ListingTypeOK, Progress
    <2>2. CASE pc' # "failed"
        <3>1. PICK c \in NewIds : /\ connect' = c
                                  /\ ours' = ours \cup {c}
                                  /\ children' = children \cup {c}
                                  /\ StartListing("list_new")
            BY <1>2, <2>2 DEF OpenService
        <3>2. c \in Ids /\ c \notin old
            BY <3>1 DEF NewIds
        <3>3. ours = {} /\ old' = old /\ new' = new
            BY <1>2 DEF OpenService, IInv, Progress
        <3> QED
            BY <3>1, <3>2, <3>3 DEF StartListing, IInv, ListingTypeOK, Progress, Connected
    <2> QED
        BY <2>1, <2>2
<1>3. CASE ListNew
    <2>1. Connected /\ connect \in always
        BY <1>3 DEF ListNew, IInv, Progress
    <2>2. CASE new' \in Listings /\ pc' = "compare" /\ UNCHANGED <<children, ours, connect>>
        <3>1. new' \subseteq Ids /\ connect \in new'
            BY <2>1, <2>2 DEF Listings, IInv, ListingTypeOK
        <3> QED
            BY <1>3, <2>1, <2>2, <3>1 DEF ListNew, IInv, ListingTypeOK, Progress, Connected
    <2>3. CASE CloseConnect /\ pc' = "failed" /\ UNCHANGED new
        BY <1>3, <2>1, <2>3, CloseLeavesNone DEF ListNew, IInv, ListingTypeOK, Progress
    <2> QED
        BY <1>3, <2>2, <2>3 DEF ListNew
<1>4. CASE Success
    <2>1. Fresh = {connect}
        BY <1>4, OneNewChild DEF Success
    <2> QED
        BY <1>4, <2>1 DEF Success, IInv, ListingTypeOK, Progress, Connected
<1>5. CASE Retry
    <2>1. Connected
        BY <1>5 DEF Retry, IInv, Progress
    <2>2. ours' = {} /\ children' \subseteq Ids
        BY <1>5, <2>1, CloseLeavesNone DEF Retry
    <2> QED
        BY <1>5, <2>2 DEF Retry, StartListing, IInv, ListingTypeOK, Progress
<1> QED
    BY <1>1, <1>2, <1>3, <1>4, <1>5 DEF Step

LEMMA Invariance == Spec => []IInv
<1>1. IInv /\ UNCHANGED vars => IInv'
    BY DEF IInv, ListingTypeOK, Progress, Connected, vars
<1>2. IInv /\ [Next]_vars => IInv'
    BY <1>1, OthersPreserve, StepPreserves DEF Next
<1> QED
    BY InitInv, <1>2, PTL DEF Spec

-----------------------------------------------------------------------------
(***************************************************************************)
(* The ID that open_service_with_known_connection_id reports is that of    *)
(* the client it opened, and its assert that a child is new never fails.   *)
(***************************************************************************)
THEOREM FindsTheClient == Spec => []RightClient
<1>1. IInv => RightClient
    BY DEF IInv, Progress, Connected, RightClient, Fresh
<1> QED
    BY Invariance, <1>1, PTL

(***************************************************************************)
(* However many tries it takes and wherever one fails, no client but the   *)
(* reported one stays open.                                                *)
(***************************************************************************)
THEOREM ClosesTheOthers == Spec => []NoClientLeft
<1>1. IInv => NoClientLeft
    BY DEF IInv, Progress, NoClientLeft
<1> QED
    BY Invariance, <1>1, PTL

-----------------------------------------------------------------------------
(* What the operations do to the sequence of errors. *)
LEMMA StackOperations ==
    /\ <<>> \in Seq(ErrorData)
    /\ Len(<<>>) = 0
    /\ DataOf(<<>>) = {}
    /\ \A s \in Seq(ErrorData) : Len(s) \in Nat /\ (s # <<>> => Len(s) > 0)
<1>1. DataOf(<<>>) = {}
  BY DEF DataOf
<1> QED
  BY <1>1, EmptySeq, LenProperties

LEMMA PushOperation ==
    ASSUME NEW s \in Seq(ErrorData), NEW data \in ErrorData
    PROVE  /\ Append(s, data) \in Seq(ErrorData)
           /\ Len(Append(s, data)) = Len(s) + 1
           /\ DataOf(Append(s, data)) = DataOf(s) \cup ({data} \ {NoData})
           /\ \A i \in 1 .. Len(s) : Append(s, data)[i] = s[i]
           /\ Append(s, data)[Len(s) + 1] = data
<1>1. /\ Append(s, data) \in Seq(ErrorData)
      /\ Len(Append(s, data)) = Len(s) + 1
      /\ \A i \in 1 .. Len(s) : Append(s, data)[i] = s[i]
      /\ Append(s, data)[Len(s) + 1] = data
  BY AppendProperties
<1>2. DOMAIN s = 1 .. Len(s) /\ DOMAIN Append(s, data) = 1 .. Len(s) + 1
  BY <1>1, LenProperties
<1>3. DataOf(Append(s, data)) \subseteq DataOf(s) \cup ({data} \ {NoData})
  <2> SUFFICES ASSUME NEW i \in 1 .. Len(s) + 1, Append(s, data)[i] # NoData
               PROVE  Append(s, data)[i] \in DataOf(s) \cup ({data} \ {NoData})
    BY <1>2 DEF DataOf
  <2>1. CASE i \in 1 .. Len(s)
    BY <2>1, <1>1, <1>2 DEF DataOf
  <2>2. CASE i = Len(s) + 1
    BY <2>2, <1>1
  <2> QED
    BY <2>1, <2>2, LenProperties
<1>4. DataOf(s) \cup ({data} \ {NoData}) \subseteq DataOf(Append(s, data))
  <2>1. ASSUME NEW i \in 1 .. Len(s), s[i] # NoData
        PROVE  s[i] \in DataOf(Append(s, data))
    <3>1. i \in 1 .. Len(s) + 1 /\ Append(s, data)[i] = s[i]
      BY <1>1, LenProperties
    <3> QED
      BY <3>1, <2>1, <1>2 DEF DataOf
  <2>2. data # NoData => data \in DataOf(Append(s, data))
    <3>1. Len(s) + 1 \in 1 .. Len(s) + 1
      BY LenProperties
    <3> QED
      BY <3>1, <1>1, <1>2 DEF DataOf
  <2> QED
    BY <2>1, <2>2, <1>2 DEF DataOf
<1> QED
  BY <1>1, <1>3, <1>4

(***************************************************************************)
(* Type correctness: every call of error.c keeps the state of the stack in *)
(* its type; in particular stop_count never underflows.                    *)
(***************************************************************************)
THEOREM ErrorStackTypeCorrect == ErrorStackSpec => []ErrorStackTypeOK
<1>1. ErrorStackInit => ErrorStackTypeOK
  BY StackOperations DEF ErrorStackInit, ErrorStackTypeOK
<1>2. ErrorStackTypeOK /\ [ErrorStackNext]_errorVars => ErrorStackTypeOK'
  <2> SUFFICES ASSUME ErrorStackTypeOK, [ErrorStackNext]_errorVars PROVE ErrorStackTypeOK'
    OBVIOUS
  <2> USE GrowthAssumption DEF ErrorStackTypeOK
  <2>1. CASE ErrorInit
    BY <2>1, StackOperations DEF ErrorInit
  <2>2. CASE ErrorFree
    BY <2>2, StackOperations DEF ErrorFree
  <2>3. CASE ErrorStop
    BY <2>3 DEF ErrorStop
  <2>4. CASE ErrorStart
    BY <2>4 DEF ErrorStart
  <2>5. ASSUME NEW data \in Allocated, ErrorPush(data) PROVE ErrorStackTypeOK'
    <3>1. data \in ErrorData
      BY DEF Allocated, ErrorData
    <3> QED
      BY <2>5, <3>1, NoDataAssumption, PushOperation
      DEF ErrorPush, Reserve, Allocated
  <2>6. CASE ErrorPushNoMemory
    BY <2>6 DEF ErrorPushNoMemory, Reserve
  <2>7. CASE ErrorPushAborts
    BY <2>7 DEF ErrorPushAborts
  <2>8. CASE ErrorPop
    BY <2>8 DEF ErrorPop, FreeData
  <2>9. CASE ErrorClear
    BY <2>9, StackOperations DEF ErrorClear
  <2>10. CASE UNCHANGED errorVars
    BY <2>10 DEF errorVars
  <2> QED
    BY <2>1, <2>2, <2>3, <2>4, <2>5, <2>6, <2>7, <2>8, <2>9, <2>10 DEF ErrorStackNext
<1> QED
  BY <1>1, <1>2, PTL DEF ErrorStackSpec

(***************************************************************************)
(* The invariant that reserve's note claims: there is always room for one  *)
(* more error.                                                             *)
(***************************************************************************)
THEOREM AlwaysRoomForOne == ErrorStackSpec => []RoomForOne
<1>1. ErrorStackInit => RoomForOne
  BY DEF ErrorStackInit, RoomForOne, Usable
<1>2. ErrorStackTypeOK /\ RoomForOne /\ [ErrorStackNext]_errorVars => RoomForOne'
  <2> SUFFICES ASSUME ErrorStackTypeOK, RoomForOne, [ErrorStackNext]_errorVars PROVE RoomForOne'
    OBVIOUS
  <2> USE GrowthAssumption DEF ErrorStackTypeOK, RoomForOne, Usable
  <2>1. CASE ErrorInit
    BY <2>1, StackOperations DEF ErrorInit
  <2>2. CASE ErrorFree
    BY <2>2, StackOperations DEF ErrorFree
  <2>3. CASE ErrorStop
    BY <2>3 DEF ErrorStop
  <2>4. CASE ErrorStart
    BY <2>4 DEF ErrorStart
  <2>5. ASSUME NEW data \in Allocated, ErrorPush(data) PROVE RoomForOne'
    <3>1. Len(stack') = Len(stack) + 1 /\ Len(stack) \in Nat
      <4>1. data \in ErrorData
        BY DEF Allocated, ErrorData
      <4> QED
        BY <2>5, <4>1, PushOperation, StackOperations DEF ErrorPush
    <3>2. CASE Enough(Len(stack))
      BY <2>5, <3>1, <3>2 DEF ErrorPush, Reserve, Enough
    <3>3. CASE ~Enough(Len(stack))
      BY <2>5, <3>1, <3>3 DEF ErrorPush, Reserve, Enough
    <3> QED
      BY <3>2, <3>3
  <2>6. CASE ErrorPushNoMemory
    BY <2>6 DEF ErrorPushNoMemory, Reserve, Enough
  <2>7. CASE ErrorPushAborts
    BY <2>7 DEF ErrorPushAborts
  <2>8. CASE ErrorPop
    BY <2>8 DEF ErrorPop
  <2>9. CASE ErrorClear
    BY <2>9, StackOperations DEF ErrorClear
  <2>10. CASE UNCHANGED errorVars
    BY <2>10 DEF errorVars
  <2> QED
    BY <2>1, <2>2, <2>3, <2>4, <2>5, <2>6, <2>7, <2>8, <2>9, <2>10 DEF ErrorStackNext
<1> QED
  BY <1>1, <1>2, ErrorStackTypeCorrect, PTL DEF ErrorStackSpec

(* What popping does to the errors that stay. *)
LEMMA PopOperation ==
    ASSUME NEW s \in Seq(ErrorData), s # <<>>
    PROVE  LET t == SubSeq(s, 1, Len(s) - 1)
           IN  /\ t \in Seq(ErrorData)
               /\ DOMAIN t = 1 .. Len(s) - 1
               /\ \A i \in 1 .. Len(s) - 1 : t[i] = s[i]
               /\ DOMAIN s = 1 .. Len(s)
               /\ Len(s) \in Nat \ {0}
<1>1. Len(s) \in Nat \ {0} /\ DOMAIN s = 1 .. Len(s)
  BY LenProperties, EmptySeq
<1>2. \A i \in 1 .. Len(s) - 1 : s[i] \in ErrorData
  BY <1>1, ElementOfSeq
<1>3. /\ SubSeq(s, 1, Len(s) - 1) \in Seq(ErrorData)
      /\ Len(SubSeq(s, 1, Len(s) - 1)) = Len(s) - 1
      /\ \A i \in 1 .. Len(s) - 1 : SubSeq(s, 1, Len(s) - 1)[i] = s[i]
  BY <1>1, <1>2, SubSeqProperties
<1> QED
  BY <1>1, <1>3, LenProperties

(***************************************************************************)
(* Data blocks neither leak nor have two owners, so that destroying the    *)
(* errors of the stack frees every block once.                             *)
(***************************************************************************)
THEOREM DataIsOwnedOnce == ErrorStackSpec => []DataOwnedOnce
<1>1. ErrorStackInit => DataOwnedOnce
  BY StackOperations DEF ErrorStackInit, DataOwnedOnce
<1>2. ErrorStackTypeOK /\ RoomForOne /\ DataOwnedOnce /\ [ErrorStackNext]_errorVars => DataOwnedOnce'
  <2> SUFFICES ASSUME ErrorStackTypeOK, RoomForOne, DataOwnedOnce, [ErrorStackNext]_errorVars
               PROVE  DataOwnedOnce'
    OBVIOUS
  <2>a. stack' = stack /\ heap' = heap => DataOwnedOnce'
    BY DEF DataOwnedOnce, DataOf
  <2>b. ASSUME stack' = <<>>, heap' = heap \ DataOf(stack) PROVE DataOwnedOnce'
    <3>1. DataOf(stack') = {} /\ heap' = {} /\ DOMAIN stack' = {}
      BY <2>b, StackOperations DEF DataOwnedOnce
    <3> QED
      BY <3>1 DEF DataOwnedOnce, DataOf
  <2>1. CASE ErrorInit
    BY <2>1, <2>a DEF ErrorInit, RoomForOne
  <2>2. CASE ErrorFree
    BY <2>2, <2>b DEF ErrorFree
  <2>3. CASE ErrorStop
    BY <2>3, <2>a DEF ErrorStop
  <2>4. CASE ErrorStart
    BY <2>4, <2>a DEF ErrorStart
  <2>5. ASSUME NEW data \in Allocated, ErrorPush(data) PROVE DataOwnedOnce'
    <3>1. data \in ErrorData /\ stack \in Seq(ErrorData)
      BY DEF Allocated, ErrorData, ErrorStackTypeOK
    <3>2. stack' = Append(stack, data) /\ heap' = heap \cup ({data} \ {NoData})
      BY <2>5 DEF ErrorPush
    <3>3. heap' = DataOf(stack')
      BY <3>1, <3>2, PushOperation DEF DataOwnedOnce
    <3>4. ASSUME NEW i \in DOMAIN stack, stack[i] = data PROVE data = NoData
      BY <3>4, NoDataAssumption DEF DataOwnedOnce, DataOf, Allocated
    <3>5. DOMAIN stack = 1 .. Len(stack) /\ DOMAIN stack' = 1 .. Len(stack) + 1
          /\ Len(stack) \in Nat
      BY <3>1, <3>2, PushOperation, LenProperties
    <3>6. ASSUME NEW i \in DOMAIN stack', NEW j \in DOMAIN stack', stack'[i] = stack'[j]
          PROVE  i = j \/ stack'[i] = NoData
      <4>1. CASE i \in DOMAIN stack /\ j \in DOMAIN stack
        BY <4>1, <3>1, <3>2, <3>5, <3>6, PushOperation DEF DataOwnedOnce
      <4>2. CASE i \notin DOMAIN stack /\ j \notin DOMAIN stack
        BY <4>2, <3>5
      <4>3. CASE i \in DOMAIN stack /\ j \notin DOMAIN stack
        BY <4>3, <3>1, <3>2, <3>4, <3>5, <3>6, PushOperation
      <4>4. CASE i \notin DOMAIN stack /\ j \in DOMAIN stack
        BY <4>4, <3>1, <3>2, <3>4, <3>5, <3>6, PushOperation
      <4> QED
        BY <4>1, <4>2, <4>3, <4>4
    <3> QED
      BY <3>3, <3>6 DEF DataOwnedOnce
  <2>6. CASE ErrorPushNoMemory
    BY <2>6, <2>a DEF ErrorPushNoMemory
  <2>7. CASE ErrorPushAborts
    BY <2>7, <2>a DEF ErrorPushAborts
  <2>8. CASE ErrorPop
    <3> DEFINE last == stack[Len(stack)]
    <3>1. stack \in Seq(ErrorData) /\ stack # <<>>
          /\ stack' = SubSeq(stack, 1, Len(stack) - 1) /\ heap' = heap \ {last}
      BY <2>8 DEF ErrorPop, FreeData, ErrorStackTypeOK
    <3>2. /\ DOMAIN stack' = 1 .. Len(stack) - 1
          /\ \A i \in 1 .. Len(stack) - 1 : stack'[i] = stack[i]
          /\ DOMAIN stack = 1 .. Len(stack)
          /\ Len(stack) \in Nat \ {0}
      BY <3>1, PopOperation
    <3>3. heap' \subseteq DataOf(stack')
      <4> SUFFICES ASSUME NEW i \in DOMAIN stack, stack[i] # NoData, stack[i] # last
                   PROVE  stack[i] \in DataOf(stack')
        BY <3>1 DEF DataOwnedOnce, DataOf
      <4>1. i \in 1 .. Len(stack) - 1
        BY <3>2
      <4> QED
        BY <4>1, <3>2 DEF DataOf
    <3>4. DataOf(stack') \subseteq heap'
      <4> SUFFICES ASSUME NEW i \in 1 .. Len(stack) - 1, stack[i] # NoData
                   PROVE  stack[i] \in heap \ {last}
        BY <3>1, <3>2 DEF DataOf
      <4> HIDE DEF last
      <4>1. Len(stack) \in Nat /\ Len(stack) # 0 /\ DOMAIN stack = 1 .. Len(stack)
        BY <3>2
      <4>2. i \in DOMAIN stack /\ Len(stack) \in DOMAIN stack /\ i # Len(stack)
        <5>1. \A n \in Nat : \A k \in 1 .. n - 1 : k \in 1 .. n /\ n \in 1 .. n /\ k # n
          OBVIOUS
        <5> QED
          BY <4>1, <5>1
      <4>3. stack[i] \in heap
        BY <4>2 DEF DataOwnedOnce, DataOf
      <4>4. stack[i] # stack[Len(stack)]
        BY <4>2 DEF DataOwnedOnce
      <4> QED
        BY <4>3, <4>4 DEF last
    <3>5. \A i, j \in DOMAIN stack' : stack'[i] = stack'[j] => i = j \/ stack'[i] = NoData
      BY <3>2 DEF DataOwnedOnce
    <3> QED
      BY <3>3, <3>4, <3>5 DEF DataOwnedOnce
  <2>9. CASE ErrorClear
    BY <2>9, <2>b DEF ErrorClear
  <2>10. CASE UNCHANGED errorVars
    BY <2>10, <2>a DEF errorVars
  <2> QED
    BY <2>1, <2>2, <2>3, <2>4, <2>5, <2>6, <2>7, <2>8, <2>9, <2>10 DEF ErrorStackNext
<1> QED
  BY <1>1, <1>2, ErrorStackTypeCorrect, AlwaysRoomForOne, PTL DEF ErrorStackSpec

===============================================================================
