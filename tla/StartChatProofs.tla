-------------------------- MODULE StartChatProofs --------------------------
(***************************************************************************)
(* Proofs about createChat and listContacts, for any number of requests,   *)
(* users, accounts and candidates, pages of any length, and whatever the   *)
(* bounds on changes: no second chat, walks that pass nobody over, and     *)
(* what is merged of one person.                                           *)
(***************************************************************************)
EXTENDS ContactLists, FiniteSetTheorems, TLAPS

RequestStates ==
  [pc : {"new", "find", "create", "send", "ended"}, account : Nat \union {None},
   user : Users \union {None}, accounts : SUBSET Nat]
RoomStates ==
  [user : Users \union {None}, of : Accounts \union {None},
   bridge : {Bridge[a] : a \in Accounts} \union {None}, listed : BOOLEAN]

Shape ==
  /\ configured \subseteq Accounts
  /\ request \in [Requests -> RequestStates]
  /\ room \in [Rooms -> RoomStates]
  /\ found \subseteq Requests
  /\ \A q \in Requests : request[q].pc = "find" =>
       /\ request[q].account \in request[q].accounts
       /\ request[q].accounts \subseteq Accounts \union {Matrix}

(* Request q looks for a chat of a and u among the accounts of list.       *)
LooksFor(q, a, u, list) ==
  /\ request[q].pc = "find"
  /\ a = request[q].account /\ u = request[q].user /\ list = request[q].accounts

(* A request makes no room before it creates, and one that has a chat to   *)
(* find does not get there: it still has it when it looks.                 *)
Searching ==
  /\ \A q \in Requests : request[q].pc \in {"new", "find", "create"} => room[q] = NoRoom
  /\ \A q \in Requests : request[q].pc = "new" => q \notin found
  /\ \A q \in found :
       /\ request[q].pc \in {"find", "ended"}
       /\ \A a, u, list : LooksFor(q, a, u, list) => ToFind(a, u, list)

Inv == Shape /\ Searching /\ OneChat
-----------------------------------------------------------------------------
LEMMA RoomNames == Requests \subseteq Rooms /\ Before \in Rooms /\ Before \notin Requests
BY StartChatAssumption DEF Rooms, Before

(* What is to be found is found: inferAccountForRoom gives a room that a   *)
(* login made to its account, one that names just a bridge to the first    *)
(* login of it, and any other to the first account.                        *)
LEMMA FoundByStart ==
  ASSUME Shape, NEW q \in Requests, request[q].pc = "find",
         ToFind(request[q].account, request[q].user, request[q].accounts)
  PROVE  Existing(q) # {}
<1> DEFINE list == request[q].accounts a == request[q].account
<1>1. PICK r \in Listed :
        /\ Matches(room[r].user, request[q].user)
        /\ \/ room[r].of = a
           \/ /\ room[r].of = None /\ a # Matrix /\ Bridge[a] = room[r].bridge
              /\ a = First(LoginsOf(Bridge[a], list))
           \/ room[r].of = None /\ room[r].bridge = None /\ a = First(list)
  BY DEF ToFind
<1>2. a \in list /\ list \subseteq Accounts \union {Matrix} /\ None \notin list
  BY StartChatAssumption DEF Shape, Matrix
<1>3. Attributed(r, list) = a
  <2>1. CASE room[r].of = a
    BY <1>2, <2>1 DEF Attributed
  <2>2. CASE /\ room[r].of = None /\ a # Matrix /\ Bridge[a] = room[r].bridge
             /\ a = First(LoginsOf(Bridge[a], list))
    <3>1. a \in LoginsOf(room[r].bridge, list)
      BY <1>2, <2>2 DEF LoginsOf
    <3> QED BY <1>2, <2>2, <3>1 DEF Attributed
  <2>3. CASE room[r].of = None /\ room[r].bridge = None /\ a = First(list)
    <3>1. LoginsOf(None, list) = {}
      BY <1>2, StartChatAssumption DEF LoginsOf
    <3> QED BY <1>2, <2>3, <3>1 DEF Attributed
  <2> QED BY <1>1, <2>1, <2>2, <2>3
<1>4. QED
  BY <1>1, <1>3 DEF Existing

(* No room is unlisted, so what can be found stays so.                     *)
LEMMA FoundLater ==
  ASSUME NEW a, NEW u, NEW list, ToFind(a, u, list),
         \A r \in Listed : r \in Listed' /\ room'[r].user = room[r].user
                                         /\ room'[r].of = room[r].of
                                         /\ room'[r].bridge = room[r].bridge
  PROVE  ToFind(a, u, list)'
BY DEF ToFind, Matches

LEMMA RoomBefore ==
  ASSUME ChatInit
  PROVE  \E before \in RoomStates :
           /\ before = NoRoom \/ before.user \in Users
           /\ room = [r \in Rooms |-> IF r = Before THEN before ELSE NoRoom]
<1> DEFINE Known == [user : Users, of : Accounts \union {None},
                     bridge : {Bridge[a] : a \in Accounts} \union {None}, listed : {TRUE}]
<1>1. PICK before \in {NoRoom} \union Known :
        room = [r \in Rooms |-> IF r = Before THEN before ELSE NoRoom]
  BY DEF ChatInit
<1>2. NoRoom \in RoomStates
  BY DEF NoRoom, RoomStates
<1>3. \A k \in Known : k \in RoomStates /\ k.user \in Users
  BY DEF RoomStates
<1> HIDE DEF Known
<1> QED BY <1>1, <1>2, <1>3

LEMMA InitInv == ChatInit => Inv
<1> SUFFICES ASSUME ChatInit PROVE Inv
  OBVIOUS
<1>1. PICK before \in RoomStates : room = [r \in Rooms |-> IF r = Before THEN before ELSE NoRoom]
  BY RoomBefore
<1>2. room \in [Rooms -> RoomStates]
  BY <1>1 DEF RoomStates, NoRoom
<1>3. request \in [Requests -> RequestStates]
  BY DEF ChatInit, Idle, RequestStates
<1>4. \A q \in Requests : request[q].pc = "new" /\ room[q] = NoRoom
  BY <1>1, RoomNames DEF ChatInit, Idle
<1>5. QED
  BY <1>2, <1>3, <1>4 DEF ChatInit, Inv, Shape, Searching, OneChat
-----------------------------------------------------------------------------
(* Steps of one request, which leave the others alone.                     *)

LEMMA BecomeFacts ==
  ASSUME Shape, NEW q \in Requests, NEW s \in RequestStates, Become(q, s)
  PROVE  /\ request' \in [Requests -> RequestStates]
         /\ request'[q] = s
         /\ \A p \in Requests \ {q} : request'[p] = request[p]
BY DEF Become, Shape

LEMMA States ==
  /\ Idle("ended") \in RequestStates
  /\ Idle("send") \in RequestStates
  /\ \A u \in Users \union {None} : Create(u) \in RequestStates
BY DEF Idle, Create, RequestStates

LEMMA AskStep ==
  ASSUME Inv, NEW q \in Requests, Ask(q)
  PROVE  Inv'
<1> USE DEF Inv
<1>1. LoadedAccounts \subseteq Nat /\ LoadedAccounts \subseteq Accounts \union {Matrix}
  BY StartChatAssumption DEF LoadedAccounts, Matrix, Shape
<1>2. UNCHANGED <<configured, room>> /\ request[q].pc = "new"
  BY DEF Ask
<1>3. \A a, u, list : ToFind(a, u, list) => ToFind(a, u, list)'
  BY <1>2 DEF ToFind, Listed
<1>4. room[q] = NoRoom /\ q \notin found
  BY <1>2 DEF Searching
<1>5. PICK u \in Users :
        \/ \E a \in LoadedAccounts :
             /\ Become(q, [pc |-> "find", account |-> a, user |-> u, accounts |-> LoadedAccounts])
             /\ found' = IF ToFind(a, u, LoadedAccounts) THEN found \union {q} ELSE found
        \/ Become(q, Create(u)) /\ UNCHANGED found
  BY DEF Ask
<1>6. CASE Become(q, Create(u)) /\ UNCHANGED found
  <2>1. /\ request' \in [Requests -> RequestStates] /\ request'[q] = Create(u)
        /\ \A p \in Requests \ {q} : request'[p] = request[p]
    BY <1>6, States, BecomeFacts
  <2>2. request'[q].pc = "create"
    BY <2>1 DEF Create, Idle
  <2>3. Shape'
    BY <1>2, <1>6, <2>1, <2>2 DEF Shape
  <2>4. Searching'
    BY <1>2, <1>3, <1>4, <1>6, <2>1, <2>2 DEF Searching, Shape, LooksFor
  <2>5. QED
    BY <1>2, <1>6, <2>3, <2>4 DEF OneChat
<1>7. ASSUME NEW a \in LoadedAccounts,
             Become(q, [pc |-> "find", account |-> a, user |-> u, accounts |-> LoadedAccounts]),
             found' = IF ToFind(a, u, LoadedAccounts) THEN found \union {q} ELSE found
      PROVE  Inv'
  <2> DEFINE s == [pc |-> "find", account |-> a, user |-> u, accounts |-> LoadedAccounts]
  <2>1. s \in RequestStates
    BY <1>1 DEF RequestStates
  <2>2. /\ request' \in [Requests -> RequestStates] /\ request'[q] = s
        /\ \A p \in Requests \ {q} : request'[p] = request[p]
    BY <1>7, <2>1, BecomeFacts
  <2>3. /\ request'[q].pc = "find" /\ request'[q].account = a
        /\ request'[q].user = u /\ request'[q].accounts = LoadedAccounts
    BY <2>2
  <2>4. /\ found' \subseteq found \union {q}
        /\ q \in found' => ToFind(a, u, LoadedAccounts)
    BY <1>4, <1>7
  <2> HIDE DEF s
  <2>5. Shape'
    BY <1>1, <1>2, <2>2, <2>3, <2>4 DEF Shape
  <2>6. q \in found' => \A b, v, list : LooksFor(q, b, v, list)' => ToFind(b, v, list)'
    BY <1>3, <2>3, <2>4 DEF LooksFor
  <2>7. Searching'
    <3>1. \A p \in Requests : request'[p].pc \in {"new", "find", "create"} => room'[p] = NoRoom
      BY <1>2, <1>4, <2>2, <2>3 DEF Searching
    <3>2. \A p \in Requests : request'[p].pc = "new" => p \notin found'
      BY <2>2, <2>3, <2>4 DEF Searching
    <3>3. ASSUME NEW p \in found', p # q
          PROVE  /\ request'[p].pc \in {"find", "ended"}
                 /\ \A b, v, list : LooksFor(p, b, v, list)' => ToFind(b, v, list)'
      BY <1>3, <2>2, <2>4, <3>3 DEF Searching, Shape, LooksFor
    <3>4. QED
      BY <2>3, <2>6, <3>1, <3>2, <3>3 DEF Searching
  <2>8. QED
    BY <1>2, <1>4, <2>4, <2>5, <2>7 DEF OneChat
<1>8. QED
  BY <1>5, <1>6, <1>7

(* A request that goes on without touching the rooms.                      *)
LEMMA QuietStep ==
  ASSUME Inv, NEW q \in Requests, NEW s \in RequestStates, Become(q, s),
         s.pc \in {"create", "send", "ended"},
         s.pc = "create" => request[q].pc \in {"new", "find", "create"} /\ q \notin found,
         s.pc = "send" => q \notin found,
         UNCHANGED <<configured, room, found>>
  PROVE  Inv'
<1> USE DEF Inv
<1>1. /\ request' \in [Requests -> RequestStates] /\ request'[q] = s
      /\ \A p \in Requests \ {q} : request'[p] = request[p]
  BY BecomeFacts
<1>2. \A a, u, list : ToFind(a, u, list) => ToFind(a, u, list)'
  BY DEF ToFind, Listed
<1>3. Shape'
  BY <1>1 DEF Shape
<1>4. Searching'
  BY <1>1, <1>2 DEF Searching, Shape, LooksFor
<1>5. QED
  BY <1>3, <1>4 DEF OneChat

LEMMA FindStep ==
  ASSUME Inv, NEW q \in Requests, FindExisting(q)
  PROVE  Inv'
<1> USE DEF Inv
<1>1. CASE Existing(q) = {}
  <2>1. q \notin found
    BY <1>1, FoundByStart DEF FindExisting, Searching, LooksFor
  <2>2. request[q].user \in Users \union {None}
    BY DEF Shape, RequestStates
  <2>3. Create(request[q].user).pc = "create"
    BY DEF Create, Idle
  <2>4. Become(q, Create(request[q].user)) /\ request[q].pc = "find"
    BY <1>1 DEF FindExisting
  <2>5. QED
    BY <2>1, <2>2, <2>3, <2>4, States, QuietStep DEF FindExisting
<1>2. CASE Existing(q) # {}
  <2>1. Become(q, Idle("ended")) /\ Idle("ended").pc = "ended"
    BY <1>2 DEF FindExisting, Idle
  <2>2. QED
    BY <2>1, States, QuietStep DEF FindExisting
<1>3. QED
  BY <1>1, <1>2

LEMMA SendStep ==
  ASSUME Inv, NEW q \in Requests, SendFirst(q)
  PROVE  Inv'
<1>1. Become(q, Idle("ended")) /\ Idle("ended").pc = "ended"
  BY DEF SendFirst, End, Idle
<1>2. QED
  BY <1>1, States, QuietStep DEF SendFirst

LEMMA CreateStep ==
  ASSUME Inv, NEW q \in Requests, CreateRoom(q)
  PROVE  Inv'
<1> USE DEF Inv
<1> DEFINE new == [NoRoom EXCEPT !.user = request[q].user]
<1>1. request[q].pc = "create" /\ q \notin found /\ room[q] = NoRoom
  BY DEF CreateRoom, Searching
<1>2. CASE End(q) /\ UNCHANGED room
  <2>1. Become(q, Idle("ended")) /\ Idle("ended").pc = "ended"
    BY <1>2 DEF End, Idle
  <2>2. QED
    BY <1>2, <2>1, States, QuietStep DEF CreateRoom
<1>3. CASE /\ room' = [room EXCEPT ![q] = new]
           /\ Become(q, Idle("send")) \/ End(q)
  <2>1. PICK s \in RequestStates : Become(q, s) /\ s.pc \in {"send", "ended"}
    BY <1>3, States DEF End, Idle
  <2>2. /\ request' \in [Requests -> RequestStates] /\ request'[q] = s
        /\ \A p \in Requests \ {q} : request'[p] = request[p]
    BY <2>1, BecomeFacts
  <2>3. new \in RoomStates
    BY DEF NoRoom, RoomStates, Shape, RequestStates
  <2>4. /\ room' \in [Rooms -> RoomStates]
        /\ \A r \in Rooms \ {q} : room'[r] = room[r]
    BY <1>3, <2>3 DEF Shape
  <2>5. UNCHANGED <<configured, found>>
    BY DEF CreateRoom
  <2>6. q \notin Listed
    BY <1>1 DEF Listed, NoRoom
  <2>7. \A r \in Listed : r \in Listed' /\ room'[r].user = room[r].user
                                        /\ room'[r].of = room[r].of
                                        /\ room'[r].bridge = room[r].bridge
    BY <2>4, <2>6 DEF Listed
  <2>8. Shape'
    BY <2>1, <2>2, <2>4, <2>5 DEF Shape
  <2>9. Searching'
    <3>1. \A p \in Requests : request'[p].pc \in {"new", "find", "create"} => room'[p] = NoRoom
      BY <2>1, <2>2, <2>4, RoomNames DEF Searching
    <3>2. \A p \in Requests : request'[p].pc = "new" => p \notin found'
      BY <2>1, <2>2, <2>5 DEF Searching
    <3>3. ASSUME NEW p \in found'
          PROVE  /\ request'[p].pc \in {"find", "ended"}
                 /\ \A b, v, list : LooksFor(p, b, v, list)' => ToFind(b, v, list)'
      <4>1. p \in found /\ p # q /\ p \in Requests
        BY <1>1, <2>5 DEF Shape
      <4>2. request'[p] = request[p]
        BY <2>2, <4>1
      <4>3. QED
        BY <2>7, <4>1, <4>2, FoundLater DEF Searching, LooksFor
    <3>4. QED
      BY <3>1, <3>2, <3>3 DEF Searching
  <2>10. OneChat'
    BY <1>1, <2>4, <2>5, RoomNames DEF OneChat, Shape
  <2>11. QED
    BY <2>8, <2>9, <2>10
<1>4. QED
  BY <1>2, <1>3 DEF CreateRoom

(* gomuks and the bridges.                                                 *)
LEMMA SyncStep ==
  ASSUME Inv, NEW r \in Rooms, SyncRoom(r)
  PROVE  Inv'
<1> USE DEF Inv
<1>1. UNCHANGED <<configured, request, found>> /\ room[r].user # None
  BY DEF SyncRoom
<1>2. /\ room' \in [Rooms -> RoomStates]
      /\ \A s \in Rooms \ {r} : room'[s] = room[s]
      /\ room'[r].user = room[r].user /\ room'[r].of = room[r].of
      /\ room'[r].bridge = room[r].bridge /\ room'[r].listed
  BY DEF SyncRoom, Shape, RoomStates
<1>3. \A s \in Rooms : room[s] = NoRoom => room'[s] = NoRoom
  BY <1>1, <1>2 DEF NoRoom
<1>4. \A s \in Listed : s \in Listed' /\ room'[s].user = room[s].user
                                      /\ room'[s].of = room[s].of
                                      /\ room'[s].bridge = room[s].bridge
  BY <1>2 DEF Listed
<1>5. Shape'
  BY <1>1, <1>2 DEF Shape
<1>6. \A a, u, list : ToFind(a, u, list) => ToFind(a, u, list)'
  BY <1>4, FoundLater
<1>7. Searching'
  BY <1>1, <1>3, <1>6, RoomNames DEF Searching, Shape, LooksFor
<1>8. QED
  BY <1>1, <1>3, <1>5, <1>7, RoomNames DEF OneChat, Shape

LEMMA OtherStep ==
  ASSUME Inv, UNCHANGED <<room, request, found>>, configured' \subseteq Accounts
  PROVE  Inv'
<1>1. \A a, u, list : ToFind(a, u, list) => ToFind(a, u, list)'
  BY DEF ToFind, Listed
<1>2. QED
  BY <1>1 DEF Inv, Shape, Searching, OneChat, LooksFor

LEMMA ChatStep == Inv /\ [ChatNext]_chatVars => Inv'
<1> SUFFICES ASSUME Inv, [ChatNext]_chatVars PROVE Inv'
  OBVIOUS
<1>1. CASE LogInOrOut \/ UNCHANGED chatVars
  BY <1>1, OtherStep DEF Inv, Shape, LogInOrOut, chatVars
<1>2. QED
  BY <1>1, AskStep, FindStep, CreateStep, SendStep, SyncStep DEF ChatNext
-----------------------------------------------------------------------------
(* A start that had a chat to find makes no second one, as OneChat says,   *)
(* for any number of bridges and of logins of each, however many requests  *)
(* overlap and fail, and however rooms are synced and bridges log in       *)
(* (search_actions.go:398-423, accounts_chats.go:553-586).                 *)
THEOREM NoSecondChat == ChatSpec => []OneChat
<1>1. Inv => OneChat
  BY DEF Inv
<1>2. QED
  BY InitInv, ChatStep, <1>1, PTL DEF ChatSpec

(* Walks through the contacts meanwhile change nothing of that             *)
(* (search_actions.go:198-283).                                            *)
THEOREM NoSecondChatWithWalks == Spec => []OneChat
<1>1. Inv /\ [Next]_vars => Inv'
  <2> SUFFICES ASSUME Inv, [Next]_vars PROVE Inv'
    OBVIOUS
  <2>1. CASE Begin \/ NextPage \/ CloudChanges
    BY <2>1, OtherStep DEF Begin, NextPage, CloudChanges, chatVars, Inv, Shape
  <2>2. CASE ChatNext \/ UNCHANGED vars
    BY <2>2, ChatStep DEF vars
  <2>3. QED
    BY <2>1, <2>2 DEF Next
<1>2. Inv => OneChat
  BY DEF Inv
<1>3. QED
  BY InitInv, <1>1, <1>2, PTL DEF Spec, Init
-----------------------------------------------------------------------------
(* Walks through a list of contacts.                                       *)

(* The rooms that are in a list are with somebody.                         *)
Peopled == \A r \in Listed : room[r].user \in Users

(* The contacts that are owed are all on the side where the walk goes on.  *)
OnItsSide(place, direction, cursor) ==
  /\ place \in Nat
  /\ cursor = None \/ IF direction = "before" THEN place >= cursor ELSE place < cursor

Owing ==
  /\ walk.phase \in {"idle", "walking", "done"}
  /\ walk.phase = "walking" =>
       /\ walk.cursor \in Nat /\ walk.direction \in {"before", "after"}
       /\ ~walk.blind => \A u \in DOMAIN owed : OnItsSide(owed[u], walk.direction, walk.cursor)
  /\ walk.phase = "done" /\ ~walk.blind => DOMAIN owed = {}

WalkInv == Inv /\ Peopled /\ cloud \subseteq Users /\ Owing

LEMMA InitWalk == Init => WalkInv
<1> SUFFICES ASSUME Init PROVE WalkInv
  OBVIOUS
<1>1. Peopled
  <2>1. PICK before \in RoomStates :
          /\ before = NoRoom \/ before.user \in Users
          /\ room = [r \in Rooms |-> IF r = Before THEN before ELSE NoRoom]
    BY RoomBefore DEF Init
  <2> QED BY <2>1 DEF Peopled, Listed, NoRoom
<1>2. Owing
  BY DEF Init, Owing, IdleWalk
<1> QED BY <1>1, <1>2, InitInv DEF WalkInv, Init

LEMMA PeopledStep ==
  ASSUME Inv, Peopled, [ChatNext]_chatVars
  PROVE  Peopled'
<1>1. CASE UNCHANGED room
  BY <1>1 DEF Peopled, Listed
<1>2. ASSUME NEW q \in Requests, CreateRoom(q)
      PROVE  Peopled'
  <2> DEFINE new == [NoRoom EXCEPT !.user = request[q].user]
  <2>1. ~new.listed
    BY DEF NoRoom
  <2> HIDE DEF new
  <2>2. UNCHANGED room \/ room' = [room EXCEPT ![q] = new]
    BY <1>2 DEF CreateRoom, new
  <2> QED BY <1>1, <2>1, <2>2 DEF Peopled, Listed, Inv, Shape
<1>3. ASSUME NEW r \in Rooms, SyncRoom(r)
      PROVE  Peopled'
  BY <1>3 DEF SyncRoom, Peopled, Listed, Inv, Shape, RoomStates
<1>4. ASSUME NEW q \in Requests, Ask(q) \/ FindExisting(q) \/ SendFirst(q)
      PROVE  Peopled'
  BY <1>1, <1>4 DEF Ask, FindExisting, SendFirst
<1>5. CASE LogInOrOut
  BY <1>1, <1>5 DEF LogInOrOut
<1>6. CASE UNCHANGED chatVars
  BY <1>1, <1>6 DEF chatVars
<1> QED BY <1>2, <1>3, <1>4, <1>5, <1>6 DEF ChatNext

(* Everybody in a list has a place in it: less than its length.            *)
LEMMA Placed ==
  ASSUME NEW contacts \in SUBSET Users, NEW members, NEW u \in contacts
  PROVE  /\ IsFiniteSet(contacts) /\ Cardinality(contacts) \in Nat
         /\ PlaceOf(u, contacts, members) \in Nat
         /\ PlaceOf(u, contacts, members) < Cardinality(contacts)
<1> DEFINE before == {v \in contacts : Precedes(v, u, members)}
           rest == contacts \ {u}
<1>1. IsFiniteSet(contacts) /\ Cardinality(contacts) \in Nat
  BY StartChatAssumption, FS_Subset, FS_CardinalityType
<1>2. IsFiniteSet(rest) /\ Cardinality(rest) = Cardinality(contacts) - 1
  BY <1>1, FS_RemoveElement
<1>3. u \notin before
  BY StartChatAssumption DEF Precedes
<1>4. before \in SUBSET rest
  BY <1>3
<1> HIDE DEF before, rest
<1>5. IsFiniteSet(before) /\ Cardinality(before) <= Cardinality(rest)
  BY <1>2, <1>4, FS_Subset
<1>6. Cardinality(before) \in Nat /\ Cardinality(rest) \in Nat
  BY <1>2, <1>5, FS_CardinalityType
<1>7. PlaceOf(u, contacts, members) = Cardinality(before)
  BY DEF PlaceOf, before
<1> QED BY <1>1, <1>2, <1>5, <1>6, <1>7

LEMMA ContactsFinite ==
  ASSUME Peopled, NEW account, NEW known \in SUBSET Users
  PROVE  Contacts(account, known) \in SUBSET Users
BY DEF Peopled, Contacts, Participants

(* A page returns everybody who is due and not on the side it goes on to,  *)
(* and the last page leaves no such side; but for the page that a walk gets*)
(* that goes up without a cursor.                                          *)
LEMMA PageStep ==
  ASSUME Peopled, cloud \subseteq Users, NEW account, NEW direction \in {"before", "after"},
         NEW cursor \in Nat \union {None}, NEW begins \in BOOLEAN,
         Page(account, direction, cursor, begins),
         begins \/ (cursor # None
                    /\ (walk.blind \/ \A u \in DOMAIN owed : OnItsSide(owed[u], direction, cursor)))
  PROVE  Owing'
<1> USE LimitAssumption
<1>1. PICK known \in {cloud, {}} :
        LET contacts == Contacts(account, known)
            n == Cardinality(contacts)
            At(u) == PlaceOf(u, contacts, Participants(account))
            first == FirstPlace(direction, cursor, n)
            end == EndPlace(direction, cursor, n)
            more == IF direction = "before" \/ cursor = None THEN end < n ELSE first > 0
            blind == IF begins THEN direction = "after" /\ cursor = None ELSE walk.blind
            Ahead(u) == \/ cursor = None
                        \/ IF direction = "before" THEN At(u) >= cursor ELSE At(u) < cursor
            due == IF begins THEN {u \in contacts : Ahead(u)}
                   ELSE {u \in contacts \intersect DOMAIN owed :
                           IF direction = "before" THEN At(u) >= owed[u] ELSE At(u) <= owed[u]}
        IN /\ walk' = IF more
                      THEN [phase |-> "walking", account |-> account, direction |-> direction,
                            cursor |-> IF direction = "before" THEN end ELSE first,
                            blind |-> blind]
                      ELSE [IdleWalk EXCEPT !.phase = "done", !.blind = blind]
           /\ owed' = [u \in {v \in due : At(v) < first \/ At(v) >= end} |-> At(u)]
  BY DEF Page
<1> DEFINE contacts == Contacts(account, known)
           n == Cardinality(contacts)
           At(u) == PlaceOf(u, contacts, Participants(account))
           first == FirstPlace(direction, cursor, n)
           end == EndPlace(direction, cursor, n)
           more == IF direction = "before" \/ cursor = None THEN end < n ELSE first > 0
           blind == IF begins THEN direction = "after" /\ cursor = None ELSE walk.blind
           Ahead(u) == \/ cursor = None
                       \/ IF direction = "before" THEN At(u) >= cursor ELSE At(u) < cursor
           due == IF begins THEN {u \in contacts : Ahead(u)}
                  ELSE {u \in contacts \intersect DOMAIN owed :
                          IF direction = "before" THEN At(u) >= owed[u] ELSE At(u) <= owed[u]}
           left == {v \in due : At(v) < first \/ At(v) >= end}
           next == IF direction = "before" THEN end ELSE first
<1>2. contacts \in SUBSET Users
  BY ContactsFinite
<1>3. n \in Nat
  BY <1>2, StartChatAssumption, FS_Subset, FS_CardinalityType
<1>4. \A u \in contacts : At(u) \in Nat /\ At(u) < n
  BY <1>2, Placed
<1>5. ~blind => \A u \in due : u \in contacts /\ OnItsSide(At(u), direction, cursor)
  BY <1>4 DEF OnItsSide
<1>6. owed' = [u \in left |-> At(u)]
  BY <1>1
<1>7. walk' = IF more
              THEN [phase |-> "walking", account |-> account, direction |-> direction,
                    cursor |-> next, blind |-> blind]
              ELSE [IdleWalk EXCEPT !.phase = "done", !.blind = blind]
  BY <1>1
<1>8. first \in Nat /\ end \in Nat /\ next \in Nat /\ next # None
  <2>1. Place(cursor, n) \in Nat
    BY <1>3 DEF Place, NoMore
  <2>2. first \in Nat
    BY <2>1 DEF FirstPlace, Back
  <2> HIDE DEF first
  <2>3. end \in Nat
    BY <1>3, <2>1, <2>2 DEF EndPlace, NoMore, first
  <2> QED BY <2>2, <2>3, StartChatAssumption
<1>9. ASSUME ~blind, NEW u \in left
      PROVE  more /\ OnItsSide(At(u), direction, next)
  <2>1. /\ u \in contacts /\ OnItsSide(At(u), direction, cursor)
        /\ At(u) < first \/ At(u) >= end
    BY <1>5, <1>9
  <2>2. At(u) \in Nat /\ At(u) < n
    BY <1>4, <2>1
  <2>3. cursor = None => direction = "before"
    BY <1>9
  <2> HIDE DEF At, contacts, due, left
  <2>4. CASE direction = "before" /\ cursor = None
    BY <1>3, <1>8, <2>1, <2>2, <2>4 DEF OnItsSide, FirstPlace, EndPlace, Place, NoMore
  <2>5. CASE direction = "before" /\ cursor # None
    BY <1>3, <1>8, <2>1, <2>2, <2>5 DEF OnItsSide, FirstPlace, EndPlace, Place, NoMore
  <2>6. CASE direction = "after"
    BY <1>3, <1>8, <2>1, <2>2, <2>3, <2>6 DEF OnItsSide, FirstPlace, EndPlace, Place, NoMore, Back
  <2> QED BY <2>4, <2>5, <2>6
<1> HIDE DEF contacts, n, At, first, end, more, blind, Ahead, due, left, next
<1>10. DOMAIN owed' = left /\ \A u \in left : owed'[u] = At(u)
  BY <1>6
<1>11. CASE more
  <2>1. /\ walk'.phase = "walking" /\ walk'.direction = direction
        /\ walk'.cursor = next /\ walk'.blind = blind
    BY <1>7, <1>11
  <2> QED BY <1>8, <1>9, <1>10, <2>1 DEF Owing
<1>12. CASE ~more
  <2>1. walk'.phase = "done" /\ walk'.blind = blind
    BY <1>7, <1>12 DEF IdleWalk
  <2>2. ~blind => left = {}
    BY <1>9, <1>12
  <2> QED BY <1>10, <2>1, <2>2 DEF Owing
<1> QED BY <1>11, <1>12

LEMMA WalkStep ==
  ASSUME WalkInv, [Next]_vars
  PROVE  WalkInv'
<1> USE DEF WalkInv
<1>1. CASE ChatNext /\ UNCHANGED <<cloud, walkVars>>
  <2>1. Inv' /\ Peopled'
    BY <1>1, ChatStep, PeopledStep
  <2> QED BY <1>1, <2>1 DEF walkVars, Owing
<1>2. CASE UNCHANGED vars
  <2>1. Inv' /\ Peopled'
    BY <1>2, ChatStep, PeopledStep DEF vars
  <2> QED BY <1>2, <2>1 DEF vars, walkVars, Owing
<1>3. CASE Begin \/ NextPage \/ CloudChanges
  <2>1. UNCHANGED <<configured, room, request, found>>
    BY <1>3 DEF Begin, NextPage, CloudChanges, chatVars
  <2>2. Inv' /\ Peopled'
    BY <2>1, OtherStep DEF Inv, Shape, Peopled, Listed
  <2>3. CASE Begin
    <3>0. PICK account \in LoadedAccounts :
            \/ \E direction \in {"before", "after"} : Page(account, direction, None, TRUE)
            \/ \E cursor \in 0..Cardinality(Users)-1 : Page(account, "after", cursor, TRUE)
      BY <2>3 DEF Begin
    <3>1. PICK direction \in {"before", "after"}, cursor \in Nat \union {None} :
            Page(account, direction, cursor, TRUE)
      <4>1. ASSUME NEW d \in {"before", "after"}, Page(account, d, None, TRUE)
            PROVE  \E direction \in {"before", "after"}, cursor \in Nat \union {None} :
                     Page(account, direction, cursor, TRUE)
        <5>1. None \in Nat \union {None}
          OBVIOUS
        <5> QED BY <4>1, <5>1, Zenon
      <4>2. ASSUME NEW c \in 0..Cardinality(Users)-1, Page(account, "after", c, TRUE)
            PROVE  \E direction \in {"before", "after"}, cursor \in Nat \union {None} :
                     Page(account, direction, cursor, TRUE)
        <5>1. c \in Nat \union {None} /\ "after" \in {"before", "after"}
          OBVIOUS
        <5> QED BY <4>2, <5>1, Zenon
      <4> QED BY <3>0, <4>1, <4>2, Zenon
    <3>2. PICK begins \in BOOLEAN : begins = TRUE /\ Page(account, direction, cursor, begins)
      BY <3>1
    <3>3. Page(account, direction, cursor, begins)
      BY <3>2
    <3>4. Owing'
      BY <3>2, <3>3, PageStep
    <3> QED BY <2>2, <2>3, <3>4 DEF Begin
  <2>4. CASE NextPage
    <3>1. /\ walk.phase = "walking" /\ cloud' = cloud
          /\ Page(walk.account, walk.direction, walk.cursor, FALSE)
      BY <2>4 DEF NextPage
    <3>2. walk.cursor \in Nat /\ walk.cursor # None
      BY <3>1, StartChatAssumption DEF Owing
    <3>3. Owing'
      BY <3>1, <3>2, PageStep DEF Owing
    <3> QED BY <2>2, <3>1, <3>3
  <2>5. CASE CloudChanges
    BY <2>2, <2>5 DEF CloudChanges, walkVars, Owing
  <2> QED BY <1>3, <2>3, <2>4, <2>5
<1> QED BY <1>1, <1>2, <1>3 DEF Next

(* A walk to the end of a list of contacts passes nobody over who was in   *)
(* every list and moved towards nothing already walked, for lists and      *)
(* pages of any length, from the top or up from a cursor, whatever chats,  *)
(* accounts and contacts of the bridge change in between; one that goes up *)
(* without a cursor gets the first page and no more                        *)
(* (search_actions.go:223-262, 710-716).                                   *)
THEOREM WalkPassesNobody == Spec => []NobodyPassedOver
<1>1. WalkInv => NobodyPassedOver
  BY DEF WalkInv, Owing, NobodyPassedOver
<1> QED BY InitWalk, WalkStep, <1>1, PTL DEF Spec
-----------------------------------------------------------------------------
(* What is merged of one person.                                           *)

Detailed(k) == {i \in Of(k) : heard[i].detail # NoDetail}
Named(k) == {i \in Of(k) : heard[i].name # heard[i].id}

HasLast(S) == LastOf(S) \in S /\ \A i \in S : i <= LastOf(S)
HasFirst(S) == FirstOf(S) \in S /\ \A i \in S : FirstOf(S) <= i

(* What MergedRight says of a contact m, merged of the candidates of h at  *)
(* the places all: some were the best when they came, some have a detail,  *)
(* some a name.  The last and the first of them that it chooses exist.     *)
BestRight(m, h, all, best) ==
  /\ HasLast(best)
  /\ m.id = h[LastOf(best)].id
  /\ m.score = h[LastOf(best)].score
  /\ \A i \in all : h[i].score <= m.score

DetailRight(m, h, best, detailed) ==
  /\ best \intersect detailed # {} => HasLast(best \intersect detailed)
  /\ detailed # {} => HasFirst(detailed)
  /\ m.detail =
       IF detailed = {} THEN NoDetail
       ELSE h[IF best \intersect detailed # {} THEN LastOf(best \intersect detailed)
              ELSE FirstOf(detailed)].detail

NameRight(m, h, all, named) ==
  m.name \in Spellings =>
    /\ \E i \in all : h[i].id = m.name
    /\ named # {} => \E i, j \in all : h[i].id # h[j].id

Describes(m, h, all, best, detailed, named) ==
  /\ m \in Candidates
  /\ BestRight(m, h, all, best)
  /\ DetailRight(m, h, best, detailed)
  /\ NameRight(m, h, all, named)

MergedAt(k) ==
  IF Of(k) = {} THEN merged[k] = Nobody
  ELSE Describes(merged[k], heard, Of(k), Best(k), Detailed(k), Named(k))

MergeInv ==
  /\ query \in BOOLEAN
  /\ heard \in Seq(Candidates)
  /\ merged \in [Keys -> Candidates \union {Nobody}]
  /\ \A i \in DOMAIN heard : heard[i].name \in Spellings => heard[i].name = heard[i].id
  /\ \A k \in Keys : MergedAt(k)
-----------------------------------------------------------------------------
(* The last and the first of a set with one place more, after all others.  *)
LEMMA LastAdded ==
  ASSUME NEW S \in SUBSET Nat, NEW n \in Nat, \A i \in S : i < n
  PROVE  LastOf(S \union {n}) = n /\ HasLast(S \union {n})
<1>1. n \in S \union {n} /\ \A j \in S \union {n} : j <= n
  OBVIOUS
<1>2. \A i \in S \union {n} : (\A j \in S \union {n} : j <= i) => i = n
  OBVIOUS
<1> QED BY <1>1, <1>2 DEF LastOf, HasLast

LEMMA FirstAdded ==
  ASSUME NEW S \in SUBSET Nat, NEW n \in Nat, \A i \in S : i < n, S # {} => HasFirst(S)
  PROVE  /\ HasFirst(S \union {n})
         /\ FirstOf(S \union {n}) = IF S = {} THEN n ELSE FirstOf(S)
<1> DEFINE m == IF S = {} THEN n ELSE FirstOf(S)
<1>1. m \in S \union {n} /\ \A j \in S \union {n} : m <= j
  <2>1. CASE S = {}
    BY <2>1
  <2>2. CASE S # {}
    <3>1. FirstOf(S) \in S /\ FirstOf(S) \in Nat /\ FirstOf(S) < n
      BY <2>2 DEF HasFirst
    <3> QED BY <2>2, <3>1 DEF HasFirst
  <2> QED BY <2>1, <2>2
<1>2. m \in Nat
  BY <1>1
<1> HIDE DEF m
<1>3. \A i \in S \union {n} : (\A j \in S \union {n} : i <= j) => i = m
  BY <1>1, <1>2
<1>4. FirstOf(S \union {n}) = m
  BY <1>1, <1>3 DEF FirstOf
<1> QED BY <1>1, <1>4 DEF HasFirst, m

(* Only the candidates at their places count.                              *)
LEMMA SameHeard ==
  ASSUME NEW m, NEW h, NEW g, NEW all, NEW best \in SUBSET all, NEW detailed \in SUBSET all,
         NEW named, \A i \in all : g[i] = h[i],
         Describes(m, h, all, best, detailed, named)
  PROVE  Describes(m, g, all, best, detailed, named)
<1>1. BestRight(m, g, all, best)
  BY DEF Describes, BestRight, HasLast
<1>2. DetailRight(m, g, best, detailed)
  BY DEF Describes, DetailRight, HasLast, HasFirst
<1>3. NameRight(m, g, all, named)
  BY DEF Describes, NameRight
<1> QED BY <1>1, <1>2, <1>3 DEF Describes

With(S, n, is) == IF is THEN S \union {n} ELSE S

(* A person's first candidate.                                             *)
LEMMA FirstCandidate ==
  ASSUME NEW new \in Candidates, NEW h, NEW n \in Nat, h[n] = new,
         new.name \in Spellings => new.name = new.id
  PROVE  Describes(new, h, {n}, {n}, With({}, n, new.detail # NoDetail),
                   With({}, n, new.name # new.id))
<1>1. LastOf({n}) = n /\ HasLast({n}) /\ FirstOf({n}) = n /\ HasFirst({n})
  BY LastAdded, FirstAdded DEF LastOf, HasLast, FirstOf, HasFirst
<1>2. new.score \in Nat
  BY DEF Candidates
<1>3. BestRight(new, h, {n}, {n})
  BY <1>1, <1>2 DEF BestRight
<1>4. DetailRight(new, h, {n}, With({}, n, new.detail # NoDetail))
  <2>1. CASE new.detail = NoDetail
    BY <2>1 DEF DetailRight, With
  <2>2. CASE new.detail # NoDetail
    <3>1. With({}, n, new.detail # NoDetail) = {n} /\ {n} \intersect {n} = {n}
      BY <2>2 DEF With
    <3> QED BY <1>1, <3>1 DEF DetailRight
  <2> QED BY <2>1, <2>2
<1>5. NameRight(new, h, {n}, With({}, n, new.name # new.id))
  BY DEF NameRight, With
<1> QED BY <1>3, <1>4, <1>5 DEF Describes

(* One that is better than all before.                                     *)
LEMMA BetterCandidate ==
  ASSUME NEW new \in Candidates, NEW m, NEW h, NEW n \in Nat, h[n] = new,
         new.name \in Spellings => new.name = new.id, new.score > m.score,
         NEW all \in SUBSET Nat, NEW best \in SUBSET all, NEW detailed \in SUBSET all,
         NEW named, \A i \in all : i < n /\ h[i] \in Candidates,
         Describes(m, h, all, best, detailed, named)
  PROVE  Describes(MergeUsers(new, m), h, all \union {n}, best \union {n},
                   With(detailed, n, new.detail # NoDetail), With(named, n, new.name # new.id))
<1> DEFINE w == MergeUsers(new, m)
           D == With(detailed, n, new.detail # NoDetail)
<1>1. /\ m \in Candidates /\ m.score \in Nat /\ new.score \in Nat
      /\ new.name \in Spellings \union Nat /\ new.id \in Spellings
  BY DEF Describes, Candidates
<1>2. /\ w \in Candidates /\ w.id = new.id /\ w.score = new.score
      /\ w.detail = IF new.detail = NoDetail THEN m.detail ELSE new.detail
      /\ w.name = IF new.name = new.id THEN m.name ELSE new.name
  BY <1>1 DEF MergeUsers, Candidates
<1> HIDE DEF w
<1>3. LastOf(best \union {n}) = n /\ HasLast(best \union {n})
  BY LastAdded
<1>4. BestRight(w, h, all \union {n}, best \union {n})
  <2>1. \A i \in all : h[i].score \in Nat /\ h[i].score <= m.score
    BY DEF Describes, BestRight, Candidates
  <2> QED BY <1>1, <1>2, <1>3, <2>1 DEF BestRight
<1>5. DetailRight(w, h, best \union {n}, D)
  <2>1. CASE new.detail = NoDetail
    <3>1. D = detailed /\ (best \union {n}) \intersect detailed = best \intersect detailed
      BY <2>1 DEF With
    <3>2. w.detail = m.detail /\ DetailRight(m, h, best, detailed)
      BY <1>2, <2>1 DEF Describes
    <3> QED BY <3>1, <3>2 DEF DetailRight
  <2>2. CASE new.detail # NoDetail
    <3>1. /\ D = detailed \union {n}
          /\ (best \union {n}) \intersect D = (best \intersect detailed) \union {n}
      BY <2>2 DEF With
    <3>2. /\ LastOf((best \intersect detailed) \union {n}) = n
          /\ HasLast((best \intersect detailed) \union {n})
      BY LastAdded
    <3>3. HasFirst(detailed \union {n})
      BY FirstAdded DEF Describes, DetailRight
    <3>4. w.detail = h[n].detail
      BY <1>2, <2>2
    <3> HIDE DEF D
    <3> QED BY <3>1, <3>2, <3>3, <3>4 DEF DetailRight
  <2> QED BY <2>1, <2>2
<1>6. NameRight(w, h, all \union {n}, With(named, n, new.name # new.id))
  <2>1. CASE new.name = new.id
    BY <1>2, <2>1 DEF NameRight, With, Describes
  <2>2. CASE new.name # new.id
    BY <1>2, <2>2 DEF NameRight
  <2> QED BY <2>1, <2>2
<1> QED BY <1>2, <1>4, <1>5, <1>6 DEF Describes, w, D

(* One that is not.                                                        *)
LEMMA WorseCandidate ==
  ASSUME NEW new \in Candidates, NEW m, NEW h, NEW n \in Nat, h[n] = new,
         new.name \in Spellings => new.name = new.id, ~(new.score > m.score),
         NEW all \in SUBSET Nat, NEW best \in SUBSET all, NEW detailed \in SUBSET all,
         NEW named, \A i \in all : i < n /\ h[i] \in Candidates,
         \A i \in detailed : h[i].detail # NoDetail,
         Describes(m, h, all, best, detailed, named)
  PROVE  Describes(MergeUsers(m, new), h, all \union {n}, best,
                   With(detailed, n, new.detail # NoDetail), With(named, n, new.name # new.id))
<1> DEFINE w == MergeUsers(m, new)
           D == With(detailed, n, new.detail # NoDetail)
<1>1. /\ m \in Candidates /\ m.score \in Nat /\ new.score \in Nat
      /\ m.name \in Spellings \union Nat /\ m.id \in Spellings
  BY DEF Describes, Candidates
<1>2. /\ w \in Candidates /\ w.id = m.id /\ w.score = m.score
      /\ w.detail = IF m.detail = NoDetail THEN new.detail ELSE m.detail
      /\ w.name = IF m.name = m.id THEN new.name ELSE m.name
  BY <1>1 DEF MergeUsers, Candidates
<1> HIDE DEF w
<1>3. HasLast(best) /\ n \notin all
  BY DEF Describes, BestRight
<1>4. BestRight(w, h, all \union {n}, best)
  BY <1>1, <1>2, <1>3 DEF BestRight, Describes, HasLast
<1>5. DetailRight(w, h, best, D)
  <2>1. CASE new.detail = NoDetail
    <3>1. D = detailed
      BY <2>1 DEF With
    <3>2. w.detail = m.detail /\ DetailRight(m, h, best, detailed)
      BY <1>2, <2>1 DEF Describes
    <3> QED BY <3>1, <3>2 DEF DetailRight
  <2>2. CASE new.detail # NoDetail
    <3>1. D = detailed \union {n} /\ best \intersect D = best \intersect detailed /\ D # {}
      BY <1>3, <2>2 DEF With
    <3>2. /\ HasFirst(detailed \union {n})
          /\ FirstOf(detailed \union {n}) = IF detailed = {} THEN n ELSE FirstOf(detailed)
      BY FirstAdded DEF Describes, DetailRight
    <3>3. m.detail = NoDetail <=> detailed = {}
      BY DEF Describes, DetailRight, HasLast, HasFirst
    <3> HIDE DEF D
    <3>4. CASE detailed = {}
      BY <1>2, <3>1, <3>2, <3>3, <3>4 DEF DetailRight
    <3>5. CASE detailed # {}
      <4>1. DetailRight(m, h, best, detailed) /\ w.detail = m.detail
        BY <1>2, <3>3, <3>5 DEF Describes
      <4> QED BY <3>1, <3>2, <3>5, <4>1 DEF DetailRight
    <3> QED BY <3>4, <3>5
  <2> QED BY <2>1, <2>2
<1>6. NameRight(w, h, all \union {n}, With(named, n, new.name # new.id))
  <2>1. CASE m.name = m.id
    <3>1. NameRight(m, h, all, named)
      BY DEF Describes
    <3> QED BY <1>1, <1>2, <2>1, <3>1 DEF NameRight, With
  <2>2. CASE m.name # m.id
    <3> SUFFICES ASSUME m.name \in Spellings
                 PROVE  /\ \E i \in all : h[i].id = m.name
                        /\ \E i, j \in all : h[i].id # h[j].id
      BY <1>2, <2>2 DEF NameRight
    <3>1. PICK i \in all : h[i].id = m.name
      BY DEF Describes, NameRight
    <3>2. LastOf(best) \in all /\ h[LastOf(best)].id = m.id
      BY <1>3 DEF Describes, BestRight, HasLast
    <3> QED BY <2>2, <3>1, <3>2
  <2> QED BY <2>1, <2>2
<1> QED BY <1>2, <1>4, <1>5, <1>6 DEF Describes, w, D
-----------------------------------------------------------------------------
(* One candidate more, at place n.                                         *)
Heard(new, n) ==
  /\ heard \in Seq(Candidates) /\ heard' \in Seq(Candidates)
  /\ n \in Nat /\ DOMAIN heard' = DOMAIN heard \union {n}
  /\ DOMAIN heard \subseteq Nat /\ \A i \in DOMAIN heard : i < n
  /\ heard'[n] = new
  /\ \A i \in DOMAIN heard : heard'[i] = heard[i]

LEMMA HeardStep ==
  ASSUME NEW new \in Candidates, heard \in Seq(Candidates), heard' = Append(heard, new)
  PROVE  Heard(new, Len(heard) + 1)
BY DEF Heard

LEMMA OfStep ==
  ASSUME NEW new \in Candidates, NEW n, Heard(new, n), NEW k
  PROVE  /\ Of(k)' = With(Of(k), n, Lower[new.id] = k)
         /\ n \notin Of(k) /\ Of(k) \subseteq Nat
         /\ \A i \in Of(k) : i < n /\ heard'[i] = heard[i] /\ heard[i] \in Candidates
BY DEF Heard, Of, With

(* Who was the best when they came still was.                              *)
LEMMA BestStep ==
  ASSUME NEW new \in Candidates, NEW n, Heard(new, n), NEW k
  PROVE  Best(k)' = With(Best(k), n, Lower[new.id] = k
                                     /\ \A i \in Of(k) : heard[i].score < new.score)
<1>1. /\ Of(k)' = With(Of(k), n, Lower[new.id] = k)
      /\ n \notin Of(k) /\ Of(k) \subseteq Nat /\ \A i \in Of(k) : i < n /\ heard'[i] = heard[i]
      /\ n \in Nat /\ heard'[n] = new
  BY OfStep DEF Heard
<1>2. Best(k)' = {i \in Of(k)' : \A j \in Of(k)' : j < i => heard'[j].score < heard'[i].score}
  BY DEF Best
<1>3. ASSUME NEW i \in Of(k) PROVE i \in Best(k)' <=> i \in Best(k)
  BY <1>1, <1>2 DEF Best, With
<1>4. n \in Best(k)' <=> Lower[new.id] = k /\ \A i \in Of(k) : heard[i].score < new.score
  BY <1>1, <1>2 DEF With
<1> QED BY <1>1, <1>2, <1>3, <1>4 DEF Best, With

LEMMA DetailedStep ==
  ASSUME NEW new \in Candidates, NEW n, Heard(new, n), NEW k
  PROVE  Detailed(k)' = With(Detailed(k), n, Lower[new.id] = k /\ new.detail # NoDetail)
<1>1. Detailed(k)' = {i \in Of(k)' : heard'[i].detail # NoDetail}
  BY DEF Detailed
<1> QED BY OfStep, <1>1 DEF Detailed, Heard, With

LEMMA NamedStep ==
  ASSUME NEW new \in Candidates, NEW n, Heard(new, n), NEW k
  PROVE  Named(k)' = With(Named(k), n, Lower[new.id] = k /\ new.name # new.id)
<1>1. Named(k)' = {i \in Of(k)' : heard'[i].name # heard'[i].id}
  BY DEF Named
<1> QED BY OfStep, <1>1 DEF Named, Heard, With

LEMMA KeyStep ==
  ASSUME NEW new \in Candidates, NEW n, Heard(new, n), NEW k, MergedAt(k),
         new.name \in Spellings => new.name = new.id,
         merged'[k] = IF Lower[new.id] = k THEN Merge(new, merged[k]) ELSE merged[k]
  PROVE  MergedAt(k)'
<1> DEFINE all == Of(k) best == Best(k) detailed == Detailed(k) named == Named(k)
<1>1. /\ all \in SUBSET Nat /\ best \in SUBSET all /\ detailed \in SUBSET all /\ n \in Nat
      /\ n \notin all /\ heard'[n] = new /\ \A i \in all : heard'[i] = heard[i]
      /\ \A i \in all : i < n /\ heard'[i] \in Candidates
      /\ \A i \in detailed : heard'[i].detail # NoDetail
  BY OfStep DEF Best, Detailed, Heard
<1>2. MergedAt(k)' = IF Of(k)' = {} THEN merged'[k] = Nobody
                     ELSE Describes(merged'[k], heard', Of(k)', Best(k)', Detailed(k)', Named(k)')
  BY DEF MergedAt, Describes, BestRight, DetailRight, NameRight, HasLast, HasFirst, LastOf, FirstOf
<1>3. CASE Lower[new.id] # k
  <2>1. Of(k)' = all /\ Best(k)' = best /\ Detailed(k)' = detailed /\ Named(k)' = named
    BY <1>3, OfStep, BestStep, DetailedStep, NamedStep DEF With
  <2>2. CASE all = {}
    BY <1>2, <1>3, <2>1, <2>2 DEF MergedAt
  <2>3. CASE all # {}
    <3>1. Describes(merged[k], heard, all, best, detailed, named)
      BY <2>3 DEF MergedAt
    <3> HIDE DEF all, best, detailed, named
    <3>2. Describes(merged[k], heard', all, best, detailed, named)
      BY <1>1, <3>1, SameHeard
    <3> QED BY <1>2, <1>3, <2>1, <2>3, <3>2
  <2> QED BY <2>2, <2>3
<1>4. CASE Lower[new.id] = k
  <2>1. /\ Of(k)' = all \union {n} /\ Of(k)' # {}
        /\ Best(k)' = With(best, n, \A i \in all : heard[i].score < new.score)
        /\ Detailed(k)' = With(detailed, n, new.detail # NoDetail)
        /\ Named(k)' = With(named, n, new.name # new.id)
    BY <1>4, OfStep, BestStep, DetailedStep, NamedStep DEF With
  <2>2. CASE all = {}
    <3>1. best = {} /\ detailed = {} /\ named = {} /\ merged'[k] = new
      BY <1>4, <2>2 DEF Best, Detailed, Named, MergedAt, Merge
    <3>2. Best(k)' = {n} /\ Of(k)' = {n}
      BY <2>1, <2>2, <3>1 DEF With
    <3>3. Describes(new, heard', {n}, {n}, With({}, n, new.detail # NoDetail),
                    With({}, n, new.name # new.id))
      BY <1>1, FirstCandidate
    <3>4. /\ Detailed(k)' = With({}, n, new.detail # NoDetail)
          /\ Named(k)' = With({}, n, new.name # new.id)
      BY <2>1, <3>1
    <3> HIDE DEF all, best, detailed, named
    <3> QED BY <1>2, <2>1, <3>1, <3>2, <3>3, <3>4
  <2>3. CASE all # {}
    <3>1. Describes(merged[k], heard, all, best, detailed, named)
      BY <2>3 DEF MergedAt
    <3> HIDE DEF all, best, detailed, named
    <3>2. Describes(merged[k], heard', all, best, detailed, named)
      BY <1>1, <3>1, SameHeard
    <3>3. merged[k] \in Candidates /\ merged[k] # Nobody
      BY <3>1, MergeAssumption DEF Describes
    <3>4. (\A i \in all : heard[i].score < new.score) <=> new.score > merged[k].score
      <4>1. /\ LastOf(best) \in all /\ merged[k].score = heard[LastOf(best)].score
            /\ \A i \in all : heard[i].score <= merged[k].score /\ heard[i].score \in Nat
        BY <1>1, <3>1 DEF Describes, BestRight, HasLast, Candidates
      <4>2. new.score \in Nat
        BY DEF Candidates
      <4> QED BY <4>1, <4>2
    <3>5. CASE new.score > merged[k].score
      <4>1. Best(k)' = best \union {n} /\ merged'[k] = MergeUsers(new, merged[k])
        BY <1>4, <2>1, <3>3, <3>4, <3>5 DEF With, Merge, Preferred
      <4>2. Describes(MergeUsers(new, merged[k]), heard', all \union {n}, best \union {n},
                      With(detailed, n, new.detail # NoDetail), With(named, n, new.name # new.id))
        BY <1>1, <3>2, <3>5, BetterCandidate
      <4> QED BY <1>2, <2>1, <4>1, <4>2
    <3>6. CASE ~(new.score > merged[k].score)
      <4>1. Best(k)' = best /\ merged'[k] = MergeUsers(merged[k], new)
        BY <1>4, <2>1, <3>3, <3>4, <3>6 DEF With, Merge, Preferred
      <4>2. Describes(MergeUsers(merged[k], new), heard', all \union {n}, best,
                      With(detailed, n, new.detail # NoDetail), With(named, n, new.name # new.id))
        BY <1>1, <3>2, <3>6, WorseCandidate
      <4> QED BY <1>2, <2>1, <4>1, <4>2
    <3> QED BY <3>5, <3>6
  <2> QED BY <2>2, <2>3
<1> QED BY <1>3, <1>4

LEMMA MergeStep ==
  ASSUME MergeInv, [AddCandidate]_mergeVars
  PROVE  MergeInv'
<1> USE DEF MergeInv
<1>1. CASE UNCHANGED mergeVars
  BY <1>1 DEF mergeVars, MergedAt, Of, Best, Detailed, Named
<1>2. CASE AddCandidate
  <2>1. PICK s \in Sources, id \in Spellings :
          \E score \in Scores(s), name \in {NoName, Len(heard) + 1},
             detail \in {NoDetail, Len(heard) + 1} :
            LET new == Normalized([id |-> id, name |-> name, detail |-> detail, score |-> score])
            IN /\ s >= source /\ source' = s
               /\ heard' = Append(heard, new)
               /\ merged' = [merged EXCEPT ![Lower[id]] = Merge(new, @)]
    BY <1>2 DEF AddCandidate
  <2>2. PICK score \in Scores(s), name \in {NoName, Len(heard) + 1},
             detail \in {NoDetail, Len(heard) + 1} :
          LET new == Normalized([id |-> id, name |-> name, detail |-> detail, score |-> score])
          IN /\ heard' = Append(heard, new)
             /\ merged' = [merged EXCEPT ![Lower[id]] = Merge(new, @)]
    BY <2>1
  <2> DEFINE new == Normalized([id |-> id, name |-> name, detail |-> detail, score |-> score])
  <2>3. /\ heard' = Append(heard, new)
        /\ merged' = [merged EXCEPT ![Lower[id]] = Merge(new, @)]
    BY <2>2
  <2>4. score \in Nat
    BY MergeAssumption DEF Scores, Sources, BaseScore
  <2>5. /\ new.id = id /\ new.detail = detail /\ new.score = score
        /\ new.name = IF name = NoName THEN id ELSE name
        /\ new = [id |-> id, name |-> new.name, detail |-> detail, score |-> score]
    BY DEF Normalized
  <2> HIDE DEF new
  <2>6. Len(heard) + 1 \in Nat
    OBVIOUS
  <2>7. new \in Candidates /\ (new.name \in Spellings => new.name = new.id)
    BY <2>4, <2>5, <2>6, MergeAssumption DEF Candidates
  <2>8. PICK n : n = Len(heard) + 1 /\ Heard(new, n)
    BY <2>3, <2>7, HeardStep
  <2>9. ASSUME NEW k \in Keys PROVE MergedAt(k)'
    <3>1. merged'[k] = IF Lower[new.id] = k THEN Merge(new, merged[k]) ELSE merged[k]
      BY <2>3, <2>5
    <3> QED BY <2>7, <2>8, <2>9, <3>1, KeyStep
  <2>10. merged' \in [Keys -> Candidates \union {Nobody}]
    <3>1. merged' = [merged EXCEPT ![Lower[id]] = Merge(new, merged[Lower[id]])]
      BY <2>3
    <3>2. ASSUME NEW k \in Keys PROVE merged'[k] \in Candidates \union {Nobody}
      BY <2>9 DEF MergedAt, Describes
    <3> QED BY <3>1, <3>2
  <2>11. \A i \in DOMAIN heard' : heard'[i].name \in Spellings => heard'[i].name = heard'[i].id
    BY <2>7, <2>8 DEF Heard
  <2> QED BY <1>2, <2>8, <2>9, <2>10, <2>11 DEF AddCandidate, Heard
<1> QED BY <1>1, <1>2

LEMMA MergeStart == MergeInit => MergeInv
<1> SUFFICES ASSUME MergeInit PROVE MergeInv
  OBVIOUS
<1>1. \A k : Of(k) = {}
  BY DEF MergeInit, Of
<1> QED BY <1>1 DEF MergeInit, MergeInv, MergedAt

(* What a request has merged of a person, from any number of candidates:   *)
(* the contact is the first of those with the highest score, and its       *)
(* detail and its name are the ones that MergedRight says                  *)
(* (search_actions.go:738-757, 835-861).                                   *)
THEOREM MergesRight == MergeSpec => []MergedRight
<1>1. MergeInv => MergedRight
  <2> SUFFICES ASSUME MergeInv, NEW k \in Keys, Of(k) # {}
               PROVE  /\ merged[k].id = heard[LastOf(Best(k))].id
                      /\ merged[k].score = heard[LastOf(Best(k))].score
                      /\ \A i \in Of(k) : heard[i].score <= heard[LastOf(Best(k))].score
                      /\ merged[k].detail =
                           IF Detailed(k) = {} THEN NoDetail
                           ELSE heard[IF Best(k) \intersect Detailed(k) # {}
                                      THEN LastOf(Best(k) \intersect Detailed(k))
                                      ELSE FirstOf(Detailed(k))].detail
                      /\ merged[k].name \in Spellings /\ Named(k) # {} =>
                           \E i, j \in Of(k) : heard[i].id # heard[j].id
    BY DEF MergedRight, MergeInv, MergedAt, Detailed, Named
  <2>1. Describes(merged[k], heard, Of(k), Best(k), Detailed(k), Named(k))
    BY DEF MergeInv, MergedAt
  <2> QED BY <2>1 DEF Describes, BestRight, DetailRight, NameRight
<1> QED BY MergeStart, MergeStep, <1>1, PTL DEF MergeSpec
-----------------------------------------------------------------------------
(* Lists of contacts in the making, walks through them and chats that are  *)
(* started implement each of the two, so that all of the above holds of    *)
(* them together (search_actions.go:198-283, 398-423).                     *)
THEOREM ListsAreBoth == ListsSpec => Spec /\ MergeSpec
<1>1. ListsInit => Init /\ MergeInit
  BY DEF ListsInit
<1>2. [ListsNext]_listsVars => [Next]_vars /\ [AddCandidate]_mergeVars
  BY DEF ListsNext, listsVars, Next
<1> QED BY <1>1, <1>2, PTL DEF ListsSpec, Spec, MergeSpec
=============================================================================
