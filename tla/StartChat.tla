----------------------------- MODULE StartChat -----------------------------
(***************************************************************************)
(* createChat of internal/server/search_actions.go: mode "start" looks for *)
(* a chat with the user and makes one if there is none, mode "create"      *)
(* always makes one.  The room is made on the homeserver and is found by   *)
(* later requests only when gomuks has synced it; that its first message   *)
(* failed is reported as a failure, and the room stays.                    *)
(*                                                                         *)
(* Accounts are the bridges' logins, several of one bridge among them, or  *)
(* the Matrix account if there is no login.  A room belongs to the account *)
(* its server part names, or to the first of the bridge it names; rooms    *)
(* that name neither, as those made here on the user's own homeserver,     *)
(* belong to the first of the list.  (A server names one bridge at most.)  *)
(***************************************************************************)
EXTENDS Naturals, FiniteSets

CONSTANTS
  Users,                 (* numbered in the order of their names           *)
  Localpart,             (* the localpart of each                          *)
  Accounts,              (* in the order of their IDs                      *)
  Bridge,                (* the bridge each is a login of                  *)
  Requests,
  MaxChanges,            (* bound: changes of accounts and of contacts     *)
  None

ASSUME StartChatAssumption ==
  /\ Users \subseteq Nat \ {0} /\ IsFiniteSet(Users)
  /\ Accounts \subseteq Nat \ {0} /\ IsFiniteSet(Accounts)
  /\ None \notin Nat /\ 0 \notin Requests
  /\ \A a \in Accounts : Bridge[a] # None
  /\ MaxChanges \in Nat

VARIABLES
  configured,            (* the bridge accounts that are logged in now     *)
  room,                  (* what each request made, and one room before all*)
  request,               (* each request: where it is, and what it read    *)
  found,                 (* history: requests that had a chat to find when *)
                         (* they began                                     *)
  changes                (* for the bound                                  *)

chatVars == <<configured, room, request, found, changes>>

Before == 0              (* names the room that was there at the start     *)
Rooms == {Before} \union Requests
(* With whom a room is, and the account (of) and bridge its server names.  *)
NoRoom == [user |-> None, of |-> None, bridge |-> None, listed |-> FALSE]
Idle(pc) == [pc |-> pc, account |-> None, user |-> None, accounts |-> {}]

ChatInit ==
  /\ configured \in SUBSET Accounts
  /\ request = [q \in Requests |-> Idle("new")]
  /\ found = {}
  /\ changes = 0
  /\ \E before \in {NoRoom} \union
         [user : Users, of : Accounts \union {None},
          bridge : {Bridge[a] : a \in Accounts} \union {None}, listed : {TRUE}] :
       /\ before.of # None => before.bridge = Bridge[before.of]
       /\ room = [r \in Rooms |-> IF r = Before THEN before ELSE NoRoom]
-----------------------------------------------------------------------------
(* loadAccounts, from the bridge state in the account data of gomuks.      *)
Matrix == 0
LoadedAccounts == IF configured = {} THEN {Matrix} ELSE configured

First(list) == CHOOSE a \in list : \A b \in list : a <= b

(* lookup.ByBridge                                                         *)
LoginsOf(bridge, list) == {a \in list \ {Matrix} : Bridge[a] = bridge}

(* inferAccountForRoom                                                     *)
Attributed(r, list) ==
  LET logins == LoginsOf(room[r].bridge, list)
  IN IF room[r].of \in list THEN room[r].of
     ELSE First(IF logins = {} THEN list ELSE logins)

(* userIDMatches: the localpart is enough, whatever the server.            *)
Matches(u, v) == Localpart[u] = Localpart[v]

Listed == {r \in Rooms : room[r].listed}

(* Mutant of Existing: rooms made here are of no account.                  *)
ExistingBridged(q) ==
  {r \in Listed : room[r].of = request[q].account /\ Matches(room[r].user, request[q].user)}

(* findExistingSingleChat: the rooms are read at once, and then looked at. *)
Existing(q) ==
  {r \in Listed :
     /\ Attributed(r, request[q].accounts) = request[q].account
     /\ Matches(room[r].user, request[q].user)}

Create(u) == [Idle("create") EXCEPT !.user = u]
Become(q, r) == request' = [request EXCEPT ![q] = r]

(* An answer or an error, which makes no difference to anybody else.       *)
End(q) == Become(q, Idle("ended"))

(* A room that a start for account a and user u, with the accounts of      *)
(* list, is to find: one that names a, or that names only its bridge, of   *)
(* which a is the first, or that was made here, if a is the first of all.  *)
ToFind(a, u, list) ==
  \E r \in Listed :
    /\ Matches(room[r].user, u)
    /\ \/ room[r].of = a
       \/ /\ room[r].of = None /\ a # Matrix /\ Bridge[a] = room[r].bridge
          /\ a = First(LoginsOf(Bridge[a], list))
       \/ room[r].of = None /\ room[r].bridge = None /\ a = First(list)

(* The accounts are read once; resolveStartChatUserID then finds a user in *)
(* the directory of the homeserver, whoever that is.  (Which account is    *)
(* asked to create makes no difference, and groups are left out.)          *)
Ask(q) ==
  /\ request[q].pc = "new"
  /\ \E u \in Users :
       \/ \E a \in LoadedAccounts :
            /\ Become(q, [pc |-> "find", account |-> a, user |-> u, accounts |-> LoadedAccounts])
            /\ found' = IF ToFind(a, u, LoadedAccounts) THEN found \union {q} ELSE found
       \/ Become(q, Create(u)) /\ UNCHANGED found
  /\ UNCHANGED <<configured, room, changes>>

FindExisting(q) ==
  /\ request[q].pc = "find"
  /\ Become(q, IF Existing(q) = {} THEN Create(request[q].user) ELSE Idle("ended"))
  /\ UNCHANGED <<configured, room, found, changes>>

(* The homeserver makes the room, or does not, or its answer is lost.  An  *)
(* error of it, or of the first message, may leave the room behind.        *)
CreateRoom(q) ==
  /\ request[q].pc = "create"
  /\ \/ /\ room' = [room EXCEPT ![q] = [NoRoom EXCEPT !.user = request[q].user]]
        /\ Become(q, Idle("send")) \/ End(q)
     \/ End(q) /\ UNCHANGED room
  /\ UNCHANGED <<configured, found, changes>>

(* The first message, if there is one.                                     *)
SendFirst(q) ==
  /\ request[q].pc = "send" /\ End(q)
  /\ UNCHANGED <<configured, room, found, changes>>

(* gomuks syncs a new room, and a bridge is logged in or out.              *)
SyncRoom(r) ==
  /\ room[r].user # None /\ ~room[r].listed
  /\ room' = [room EXCEPT ![r].listed = TRUE]
  /\ UNCHANGED <<configured, request, found, changes>>

LogInOrOut ==
  /\ changes < MaxChanges /\ changes' = changes + 1
  /\ configured' \in SUBSET Accounts \ {configured}
  /\ UNCHANGED <<room, request, found>>

ChatNext ==
  \/ \E q \in Requests : Ask(q) \/ FindExisting(q) \/ CreateRoom(q) \/ SendFirst(q)
  \/ \E r \in Rooms : SyncRoom(r)
  \/ LogInOrOut

ChatSpec == ChatInit /\ [][ChatNext]_chatVars
-----------------------------------------------------------------------------
(* Properties.                                                             *)

ChatTypes ==
  /\ configured \in SUBSET Accounts
  /\ changes \in 0..MaxChanges
  /\ \A r \in Rooms :
       /\ room[r].user \in Users \union {None} /\ room[r].of \in Accounts \union {None}
       /\ room[r].bridge \in {Bridge[a] : a \in Accounts} \union {None}
       /\ room[r].of # None => room[r].bridge = Bridge[room[r].of]
       /\ room[r].listed \in BOOLEAN /\ (room[r].listed => room[r].user # None)
  /\ \A q \in Requests :
       /\ request[q].pc \in {"new", "find", "create", "send", "ended"}
       /\ request[q].account \in request[q].accounts \union {None}
       /\ request[q].user \in Users \union {None}
       /\ request[q].accounts \subseteq Accounts \union {Matrix}
  /\ found \subseteq Requests

(* A start makes no room if one with that user was synced when it began    *)
(* that names its account or, for the first account of a bridge, just the  *)
(* bridge, or, for the first of all, that was made here, however other     *)
(* requests, failures and lost answers made it.  For any other account it  *)
(* makes one each time (a room that names only the bridge is not found for *)
(* its second login), and requests that overlap make one each              *)
(* (search_actions.go:398-423, 541-571, accounts_chats.go:553-586).        *)
OneChat == \A q \in found : room[q] = NoRoom
=============================================================================
