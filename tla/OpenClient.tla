------------------------------ MODULE OpenClient ------------------------------
(***************************************************************************)
(* open_service_with_known_connection_id of libmemctl/kernel_call.c: how   *)
(* the hook learns the registry entry ID of the user client it has just    *)
(* opened.  IOServiceOpen does not tell: the children of the service are   *)
(* listed before and after, and a single new one must be the client.       *)
(* Other processes open and close clients of the same service meanwhile,   *)
(* also while the children are being listed, without a limit.              *)
(*                                                                         *)
(* The kernel never uses a registry entry ID twice.  Here an ID may be     *)
(* used again when nothing remembers it any more, which cannot be told     *)
(* from a new one and keeps the IDs finite.                                *)
(*                                                                         *)
(* A listing contains every child that was there from its beginning to its *)
(* end; one that came or went meanwhile may be in it or not.               *)
(***************************************************************************)
EXTENDS Naturals, FiniteSets

CONSTANTS
    Ids,    \* bound: registry entry IDs remembered at a time
    None,   \* no ID
    Tries   \* how often a connection is tried (5 in the code)

ASSUME TriesAssumption == Tries \in Nat \ {0}
ASSUME IdsAssumption == IsFiniteSet(Ids) /\ None \notin Ids

VARIABLES
    children,      \* kernel: the service's user clients
    ours,          \* kernel: those that are connections of this process
    pc,
    tries,
    always, ever,  \* children during the whole of, or some of, the listing
    old, new,      \* old_child_ids, new_child_ids
    connect,       \* the client opened in this try
    connection_id  \* the ID reported for it

vars == <<children, ours, pc, tries, always, ever, old, new, connect, connection_id>>

Init ==
    /\ children \in SUBSET Ids /\ ours = {}
    /\ pc = "list_old" /\ tries = 0
    /\ always = children /\ ever = children
    /\ old = {} /\ new = {}
    /\ connect = None /\ connection_id = None

(* The IDs that may be given to a new client. *)
NewIds == Ids \ (children \cup ever \cup old \cup new \cup {connect, connection_id})

-----------------------------------------------------------------------------
(* Other processes. *)
OtherOpens ==
    /\ \E c \in NewIds :
          /\ children' = children \cup {c}
          /\ ever' = ever \cup {c}
    /\ UNCHANGED <<ours, pc, tries, always, old, new, connect, connection_id>>

OtherCloses ==
    /\ \E c \in children \ ours :
          /\ children' = children \ {c}
          /\ always' = always \ {c}
    /\ UNCHANGED <<ours, pc, tries, ever, old, new, connect, connection_id>>

-----------------------------------------------------------------------------
(* What get_child_ids can return. *)
Listings == {s \in SUBSET ever : always \subseteq s}

(* A listing starts with the children there are. *)
StartListing(step) == pc' = step /\ always' = children' /\ ever' = children'

(* IOServiceClose. *)
CloseConnect ==
    /\ children' = children \ {connect}
    /\ ours' = ours \ {connect}
    /\ connect' = None

(* The first get_child_ids; when it fails nothing has been opened yet. *)
ListOld ==
    /\ pc = "list_old"
    /\ \/ old' \in Listings /\ pc' = "open"
       \/ pc' = "failed" /\ UNCHANGED old
    /\ UNCHANGED <<children, ours, tries, always, ever, new, connect, connection_id>>

OpenService ==
    /\ pc = "open"
    /\ \/ \E c \in NewIds :
             /\ connect' = c
             /\ ours' = ours \cup {c}
             /\ children' = children \cup {c}
             /\ StartListing("list_new")
       \/ /\ pc' = "failed"
          /\ UNCHANGED <<connect, ours, children, always, ever>>
    /\ UNCHANGED <<tries, old, new, connection_id>>

(* The second get_child_ids; when it fails there is no other try. *)
ListNew ==
    /\ pc = "list_new"
    /\ \/ /\ new' \in Listings
          /\ pc' = "compare"
          /\ UNCHANGED <<children, ours, connect>>
       \/ /\ CloseConnect
          /\ pc' = "failed"
          /\ UNCHANGED new
    /\ UNCHANGED <<tries, always, ever, old, connection_id>>

Fresh == new \ old

(* One new child: it is ours. *)
SuccessFirst ==
    /\ pc = "compare" /\ Fresh # {}
    /\ connection_id' \in Fresh
    /\ pc' = "opened"
    /\ UNCHANGED <<children, ours, tries, always, ever, old, new, connect>>
Success ==
    /\ pc = "compare" /\ Cardinality(Fresh) = 1
    /\ connection_id' \in Fresh
    /\ pc' = "opened"
    /\ UNCHANGED <<children, ours, tries, always, ever, old, new, connect>>

(* More than one: the connection is closed and another one tried. *)
RetryOpen ==
    /\ pc = "compare" /\ Cardinality(Fresh) > 1
    /\ connect' = None
    /\ tries' = tries + 1
    /\ UNCHANGED <<children, ours, connection_id>>
    /\ IF tries' < Tries THEN StartListing("list_old") /\ old' = {} /\ new' = {}
       ELSE pc' = "failed" /\ UNCHANGED <<always, ever, old, new>>
RetryForever ==
    /\ pc = "compare" /\ Cardinality(Fresh) > 1
    /\ CloseConnect
    /\ StartListing("list_old") /\ old' = {} /\ new' = {}
    /\ UNCHANGED <<tries, connection_id>>
Retry ==
    /\ pc = "compare" /\ Cardinality(Fresh) > 1
    /\ CloseConnect
    /\ tries' = tries + 1
    /\ IF tries' < Tries
       THEN StartListing("list_old") /\ old' = {} /\ new' = {}
       ELSE pc' = "failed" /\ UNCHANGED <<always, ever, old, new>>
    /\ UNCHANGED connection_id

Step == ListOld \/ OpenService \/ ListNew \/ Success \/ Retry

Next == Step \/ OtherOpens \/ OtherCloses

Spec == Init /\ [][Next]_vars
FairSpec == Spec /\ WF_vars(Step)

-----------------------------------------------------------------------------
(* The ID that open_service_with_known_connection_id reports is that of    *)
(* the connection it reports, whatever other processes open and close:     *)
(* the hook patches the registry entry with this ID.  The assert that some *)
(* child is new (kernel_call.c:248) never fails.                           *)
RightClient ==
    /\ pc = "compare" => Fresh # {}
    /\ pc = "opened" => connection_id = connect

(* When the function returns, the only client this process has is the one  *)
(* it returns, and after a failure there is none.                          *)
NoClientLeft ==
    /\ pc = "opened" => ours = {connect}
    /\ pc = "failed" => ours = {}

(* The function returns, even if other processes open clients forever. *)
Returns == <>(pc \in {"opened", "failed"})

=============================================================================
