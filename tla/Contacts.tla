------------------------------ MODULE Contacts ------------------------------
(***************************************************************************)
(* Lists of contacts: listContacts of internal/server/search_actions.go,   *)
(* over the chats that StartChat makes.  Each request collects the people  *)
(* in the rooms of the account and the contacts the bridge has, merges the *)
(* entries of one person, sorts them by score and name, and answers with a *)
(* page of the list.  (A query adds two more sources, of higher scores,    *)
(* and leaves out who does not match; the pages are the same.  How the     *)
(* entries of one person are merged is in ContactMerge.)                   *)
(*                                                                         *)
(* A cursor is an index into the list of the request before, while chats,  *)
(* accounts, and what the bridge answers, change.                          *)
(***************************************************************************)
EXTENDS StartChat

CONSTANTS
  Limit                  (* contacts in a page                             *)

ASSUME LimitAssumption == Limit \in Nat \ {0}

VARIABLES
  cloud,                 (* the contacts of the bridge                     *)
  walk,                  (* the client: phase, account, direction, cursor, *)
                         (*   and whether it went up from no cursor (blind)*)
  owed                   (* history: contacts the walk should still return,*)
                         (* each with its place in the last list           *)

walkVars == <<walk, owed>>
vars == <<chatVars, cloud, walkVars>>

IdleWalk ==
  [phase |-> "idle", account |-> None, direction |-> "before", cursor |-> None, blind |-> FALSE]

Init ==
  /\ ChatInit
  /\ cloud \in SUBSET Users
  /\ walk = IdleWalk
  /\ owed = <<>>
-----------------------------------------------------------------------------
(* The list of one request.                                                *)

Participants(account) ==
  {room[r].user : r \in {s \in Listed : Attributed(s, LoadedAccounts) = account}}

(* loadAccountContacts, merged by mergeContactCandidates: one for each ID. *)
Contacts(account, known) == Participants(account) \union known

(* A participant scores more than a contact of the bridge, and one that is *)
(* both counts as the better.  Equal scores are sorted by name.            *)
Precedes(u, v, members) ==
  \/ u \in members /\ v \notin members
  \/ (u \in members <=> v \in members) /\ u < v

PlaceOf(u, contacts, members) == Cardinality({v \in contacts : Precedes(v, u, members)})

(* The place the page begins at, and the one after it, in a list of n.     *)
NoMore(a, b) == IF a < b THEN a ELSE b
Back(a, n) == IF a > n THEN a - n ELSE 0

(* cursor is one more than the index of a page's last contact when paging  *)
(* down, and the index of its first when paging up.  Without a cursor a    *)
(* page is the first, in both directions.                                  *)
Place(cursor, n) == IF cursor = None THEN 0 ELSE NoMore(cursor, n)

(* Mutant of FirstPlace: one more than the place after the last page.      *)
FirstPlaceSkip(direction, cursor, n) ==
  IF direction = "before" THEN Place(IF cursor = None THEN None ELSE cursor + 1, n)
  ELSE Back(Place(cursor, n), Limit)

FirstPlace(direction, cursor, n) ==
  IF direction = "before" THEN Place(cursor, n) ELSE Back(Place(cursor, n), Limit)

EndPlace(direction, cursor, n) ==
  IF direction = "before" \/ cursor = None
  THEN NoMore(FirstPlace(direction, cursor, n) + Limit, n) ELSE Place(cursor, n)
-----------------------------------------------------------------------------
(* Requests.  A bridge that does not answer counts as one without contacts.*)
(* Who moved towards the part already walked is owed no more.              *)

Page(account, direction, cursor, begins) ==
  \E known \in {cloud, {}} :
    LET contacts == Contacts(account, known)
        n == Cardinality(contacts)
        At(u) == PlaceOf(u, contacts, Participants(account))
        first == FirstPlace(direction, cursor, n)
        end == EndPlace(direction, cursor, n)
        more == IF direction = "before" \/ cursor = None THEN end < n ELSE first > 0
        blind == IF begins THEN direction = "after" /\ cursor = None ELSE walk.blind
        Ahead(u) == \/ cursor = None
                    \/ IF direction = "before" THEN At(u) >= cursor ELSE At(u) < cursor
        due == IF begins THEN {u \in contacts : Ahead(u)}
               ELSE {u \in contacts \intersect DOMAIN owed :
                       IF direction = "before" THEN At(u) >= owed[u] ELSE At(u) <= owed[u]}
    IN /\ walk' = IF more
                  THEN [phase |-> "walking", account |-> account, direction |-> direction,
                        cursor |-> IF direction = "before" THEN end ELSE first,
                        blind |-> blind]
                  ELSE [IdleWalk EXCEPT !.phase = "done", !.blind = blind]
       /\ owed' = [u \in {v \in due : At(v) < first \/ At(v) >= end} |-> At(u)]

(* From the top, or up from a place that an earlier page began at.         *)
Begin ==
  /\ walk.phase = "idle"
  /\ \E account \in LoadedAccounts :
       \/ \E direction \in {"before", "after"} : Page(account, direction, None, TRUE)
       \/ \E cursor \in 0..Cardinality(Users)-1 : Page(account, "after", cursor, TRUE)
  /\ UNCHANGED <<chatVars, cloud>>

(* The account may be gone, and then there is no answer.                   *)
NextPage ==
  /\ walk.phase = "walking" /\ walk.account \in LoadedAccounts
  /\ Page(walk.account, walk.direction, walk.cursor, FALSE)
  /\ UNCHANGED <<chatVars, cloud>>

CloudChanges ==
  /\ changes < MaxChanges /\ changes' = changes + 1
  /\ cloud' \in SUBSET Users \ {cloud}
  /\ UNCHANGED <<configured, room, request, found, walkVars>>
-----------------------------------------------------------------------------
Next ==
  \/ ChatNext /\ UNCHANGED <<cloud, walkVars>>
  \/ Begin \/ NextPage \/ CloudChanges

Spec == Init /\ [][Next]_vars
-----------------------------------------------------------------------------
(* Properties.                                                             *)

TypeOK ==
  /\ ChatTypes
  /\ cloud \subseteq Users
  /\ walk.phase \in {"idle", "walking", "done"}
  /\ walk.account \in Accounts \union {Matrix, None}
  /\ walk.direction \in {"before", "after"}
  /\ walk.cursor \in 0..Cardinality(Users) \union {None} /\ walk.blind \in BOOLEAN
  /\ DOMAIN owed \subseteq Users /\ \A u \in DOMAIN owed : owed[u] < Cardinality(Users)

(* A walk to the end of the list returns everybody who was in every list   *)
(* it saw, except who moved towards the part that was already walked:      *)
(* because somebody else left the list or was not in it while the bridge   *)
(* did not answer, or because a chat was started with them.  It does not if*)
(* it went up without a cursor: it got the first page, with the word that  *)
(* there is more, and the next is empty, with the word that there is not   *)
(* (search_actions.go:223-262, 710-716).                                   *)
NobodyPassedOver == walk.phase = "done" /\ ~walk.blind => DOMAIN owed = {}
=============================================================================
