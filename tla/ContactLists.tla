---------------------------- MODULE ContactLists ----------------------------
(***************************************************************************)
(* Contacts over many requests, and the list of one of them in the making. *)
(* A walk changes nothing that starting a chat reads, and what a request   *)
(* merges is its own.  So either chats are started, as many at once as     *)
(* there are requests, or a client walks while a few of them are, or one   *)
(* request merges whatever its sources may tell.                           *)
(***************************************************************************)
EXTENDS Contacts, ContactMerge

CONSTANTS
  MaxBegun,              (* bound on the chats started during a walk       *)
  WalkAccounts           (* bound: the accounts logged in during a walk    *)

VARIABLE part            (* what goes on                                   *)

listsVars == <<vars, mergeVars, part>>

ListsInit ==
  /\ Init /\ MergeInit
  /\ \/ part = "chats" /\ ~query /\ cloud = {}
     \/ part = "walk" /\ ~query /\ configured \subseteq WalkAccounts
     \/ /\ part = "merging"
        /\ configured = {} /\ cloud = {} /\ room[Before] = NoRoom

Begun == {q \in Requests : request[q].pc # "new"}

ListsNext ==
  \/ part = "chats" /\ ChatNext /\ UNCHANGED <<cloud, walkVars, mergeVars, part>>
  \/ /\ part = "walk" /\ Next /\ UNCHANGED <<mergeVars, part>>
     /\ Cardinality(Begun') <= MaxBegun /\ configured' \subseteq WalkAccounts
  \/ part = "merging" /\ AddCandidate /\ UNCHANGED <<vars, part>>

ListsSpec == ListsInit /\ [][ListsNext]_listsVars
=============================================================================
