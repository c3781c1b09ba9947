------------------------------ MODULE ChatList ------------------------------
(***************************************************************************)
(* Lists of chats: listChats of internal/server/accounts_chats.go and      *)
(* searchChatsCore of search_actions.go, over the database that gomuks     *)
(* keeps up to date, and the archived state of a chat, which archiveChat   *)
(* and other clients write to the account data on the homeserver.          *)
(*                                                                         *)
(* A page is computed by one request, which reads the rooms and then their *)
(* account data.  Neither depends on the other, so data that is synced     *)
(* between the two might as well have come before both, and an event after *)
(* both: a page is one step.                                               *)
(* A client walks down the list with the oldest cursor of each page, while *)
(* rooms get new activity and their account data changes, and afterwards   *)
(* asks for what is newer than the first page.  Only the inbox filter is   *)
(* modelled: the others (account, type, unread, muted, dates, words) also  *)
(* look at one chat at a time.                                             *)
(***************************************************************************)
EXTENDS Naturals, FiniteSets

CONSTANTS
  Rooms,                 (* room IDs, numbered in their string order       *)
  LowPriority,           (* rooms tagged m.lowpriority                     *)
  ChatPageSize,          (* chatPageSize, or the limit of a search         *)
  MaxTime,               (* bound on all timestamps                        *)
  Edited,                (* rooms whose account data changes (a bound)     *)
  MaxActs,               (* bound on the writes of account data            *)
  NoValue,
  ByOrder                (* an archive with at_order and no updated_ts     *)

ASSUME ChatListAssumption ==
  /\ Rooms \subseteq Nat \ {0} /\ IsFiniteSet(Rooms)
  /\ ChatPageSize \in Nat \ {0} /\ Edited \subseteq Rooms
  /\ MaxTime \in Nat /\ MaxActs \in Nat
  /\ NoValue \notin Nat /\ ByOrder \notin Nat /\ NoValue # ByOrder
  /\ NoValue \notin [ts : Nat, room : Nat]

VARIABLES
  sortingTS,             (* sorting_timestamp of each room, 0 if unlisted  *)
  remote,                (* account data of each room on the homeserver    *)
  local,                 (* its copy in the database                       *)
  now,                   (* the clock of all clients                       *)
  walk,                  (* the client: phase, inbox, cursors              *)
  returned,              (* rooms a page of this walk has had              *)
  moved,                 (* history: rooms active since they were returned *)
  active,                (* history: rooms with an event during this walk  *)
  joined,                (* history: rooms whose data took them into its   *)
                         (* inbox during this walk                         *)
  repeated,              (* history: rooms returned again without activity *)
  wanted,                (* history: rooms last archived, not un- or marked*)
  untimed,               (* history: rooms marked without a timestamp      *)
  acts                   (* writes of account data so far                  *)

listVars == <<sortingTS, local>>
walkVars == <<walk, returned, repeated>>
actVars == <<remote, now, wanted, untimed, acts>>
chatListVars == <<listVars, walkVars, actVars, moved, active, joined>>

Times == 1..MaxTime
Inboxes == {"any", "primary", "low-priority", "archive"}

(* com.beeper.inbox.done (its updated_ts, or only at_order), and the ts of *)
(* m.marked_unread, which is 0 when there is none.                         *)
NoData == [done |-> NoValue, unread |-> 0]
Idle == [phase |-> "idle", inbox |-> "any", cursor |-> NoValue, first |-> NoValue]

ListInit ==
  /\ sortingTS \in [Rooms -> 0..MaxTime]
  /\ remote = [r \in Rooms |-> NoData] /\ local = remote
  /\ now = 1
  /\ walk = Idle
  /\ returned = {} /\ moved = {} /\ active = {} /\ joined = {} /\ repeated = {}
  /\ wanted = {} /\ untimed = {} /\ acts = 0
-----------------------------------------------------------------------------
(* The archived state.                                                     *)

(* Mutant of EffectiveArchived: the time of the archive is not compared.   *)
ArchivedAtAll(d) == d.done # NoValue

(* An archive counts unless the chat was marked later; one that has no     *)
(* time counts whenever the mark was.                                      *)
EffectiveArchived(d) ==
  /\ d.done # NoValue
  /\ d.done # ByOrder => d.done >= d.unread

InInbox(r, inbox) ==
  CASE inbox = "any" -> TRUE
    [] inbox = "primary" -> ~EffectiveArchived(local[r]) /\ r \notin LowPriority
    [] inbox = "low-priority" -> r \in LowPriority
    [] inbox = "archive" -> EffectiveArchived(local[r])

(* Clients write account data to the homeserver: this API archives with    *)
(* the current time or takes that back (archiveChat), others also archive  *)
(* by order, and mark a chat read or unread, with or without the time.     *)
Archive(r) ==
  /\ \E at \in {now, ByOrder} : remote' = [remote EXCEPT ![r].done = at]
  /\ wanted' = wanted \union {r}
  /\ UNCHANGED untimed

Unarchive(r) ==
  /\ remote' = [remote EXCEPT ![r].done = NoValue]
  /\ wanted' = wanted \ {r}
  /\ UNCHANGED untimed

Mark(r) ==
  /\ \E at \in {0, now} :
       /\ remote' = [remote EXCEPT ![r].unread = at]
       /\ untimed' = IF at = 0 THEN untimed \union {r} ELSE untimed
  /\ wanted' = wanted \ {r}

Act ==
  /\ acts < MaxActs
  /\ acts' = acts + 1
  /\ \E r \in Edited : Archive(r) \/ Unarchive(r) \/ Mark(r)
  /\ now' \in {now, now + 1} \intersect Times
  /\ UNCHANGED <<listVars, walkVars, moved, active, joined>>

(* gomuks syncs the account data of a room.                                *)
SyncData(r) ==
  /\ local[r] # remote[r]
  /\ local' = [local EXCEPT ![r] = remote[r]]
  /\ UNCHANGED <<sortingTS, walkVars, actVars, moved, active>>
  /\ joined' = IF InInbox(r, walk.inbox)' /\ ~InInbox(r, walk.inbox)
               THEN joined \union {r} ELSE joined

(* A room gets an event, of any later time: servers' clocks differ.        *)
Activity(r) ==
  /\ \E t \in (sortingTS[r] + 1)..MaxTime : sortingTS' = [sortingTS EXCEPT ![r] = t]
  /\ moved' = moved \union {r}
  /\ active' = active \union {r}
  /\ UNCHANGED <<local, walkVars, actVars, joined>>
-----------------------------------------------------------------------------
(* Pages.                                                                  *)

(* ORDER BY sorting_timestamp DESC, room_id ASC.                           *)
Precedes(a, b) == a.ts > b.ts \/ (a.ts = b.ts /\ a.room < b.room)
Place(r) == [ts |-> sortingTS[r], room |-> r]

(* The rooms of the query.                                                 *)
Listed == {r \in Rooms : sortingTS[r] > 0}

(* Mutants of IsOlder: ties are not told apart, or count twice.            *)
IsOlderByTime(r, cursor) == sortingTS[r] < cursor.ts
IsOlderOrSame(r, cursor) == sortingTS[r] <= cursor.ts

IsOlder(r, cursor) == Precedes(cursor, Place(r))
IsNewer(r, cursor) == Precedes(Place(r), cursor)

Candidates(direction, inbox, cursor) ==
  {r \in Listed :
     /\ cursor # NoValue /\ direction = "before" => IsOlder(r, cursor)
     /\ cursor # NoValue /\ direction = "after" => IsNewer(r, cursor)
     /\ InInbox(r, inbox)}

(* The first ChatPageSize of them in the order of the list, whatever the   *)
(* direction, and whether there are more.                                  *)
Items(candidates) ==
  {r \in candidates :
     Cardinality({s \in candidates : Precedes(Place(s), Place(r))}) < ChatPageSize}

(* Mutant of HasMore: one too few.                                         *)
HasMoreLate(candidates) == Cardinality(candidates) > ChatPageSize + 1

HasMore(candidates) == Cardinality(candidates) > ChatPageSize

NewestCursor(items) ==
  IF items = {} THEN NoValue
  ELSE Place(CHOOSE r \in items : \A s \in items : ~Precedes(Place(s), Place(r)))
OldestCursor(items) ==
  IF items = {} THEN NoValue
  ELSE Place(CHOOSE r \in items : \A s \in items : ~Precedes(Place(r), Place(s)))

Return(items) ==
  /\ returned' = returned \union items
  /\ repeated' = repeated \union ((items \intersect returned) \ moved)
  /\ moved' = moved \ items

(* The first page of a walk, which forgets the one before.                 *)
Begin ==
  \E inbox \in Inboxes :
    LET candidates == Candidates("before", inbox, NoValue)
        items == Items(candidates)
    IN /\ walk' = [phase |-> IF HasMore(candidates) THEN "walking" ELSE "walked",
                   inbox |-> inbox, cursor |-> OldestCursor(items),
                   first |-> NewestCursor(items)]
       /\ returned' = items
       /\ repeated' = {} /\ moved' = {} /\ active' = {} /\ joined' = {}
       /\ UNCHANGED <<listVars, actVars>>

(* The next page, from the oldest cursor of the last.                      *)
NextPage ==
  /\ walk.phase = "walking"
  /\ LET candidates == Candidates("before", walk.inbox, walk.cursor)
         items == Items(candidates)
     IN /\ walk' = [walk EXCEPT
             !.phase = IF HasMore(candidates) THEN "walking" ELSE "walked",
             !.cursor = IF items = {} THEN NoValue ELSE OldestCursor(items)]
        /\ Return(items)
  /\ UNCHANGED <<listVars, actVars, active, joined>>

(* What is newer than the newest cursor of the first page.                 *)
Poll ==
  /\ walk.phase = "walked"
  /\ LET candidates == Candidates("after", walk.inbox, walk.first)
         items == Items(candidates)
     IN /\ walk' = [walk EXCEPT !.phase = IF HasMore(candidates) THEN "gap" ELSE "polled"]
        /\ Return(items)
  /\ UNCHANGED <<listVars, actVars, active, joined>>
-----------------------------------------------------------------------------
ListNext ==
  \/ Act \/ Begin \/ NextPage \/ Poll
  \/ \E r \in Rooms : SyncData(r) \/ Activity(r)

ListSpec == ListInit /\ [][ListNext]_chatListVars
-----------------------------------------------------------------------------
(* Properties.                                                             *)

Data == [done : Times \union {NoValue, ByOrder}, unread : 0..MaxTime]
Cursors == [ts : Times, room : Rooms] \union {NoValue}

ListTypeOK ==
  /\ sortingTS \in [Rooms -> 0..MaxTime]
  /\ remote \in [Rooms -> Data] /\ local \in [Rooms -> Data]
  /\ now \in Times /\ acts \in 0..MaxActs
  /\ walk.phase \in {"idle", "walking", "walked", "polled", "gap"}
  /\ walk.inbox \in Inboxes
  /\ walk.cursor \in Cursors /\ walk.first \in Cursors
  /\ returned \subseteq Rooms /\ repeated \subseteq returned
  /\ moved \subseteq Rooms /\ active \subseteq Rooms /\ joined \subseteq Rooms
  /\ wanted \subseteq Rooms /\ untimed \subseteq Rooms

(* A room is returned again only if it had activity since it was returned, *)
(* however the list changes between two pages (accounts_chats.go:286-333,  *)
(* 424-450).                                                               *)
ReturnedOnce == repeated = {}

(* Rooms that were not where they are now all through this walk.           *)
Changed == active \union joined

(* A walk that is told there is no more has returned every room that was in*)
(* the inbox all along and had no event meanwhile, rooms with equal times  *)
(* included (accounts_chats.go:285-313, search_actions.go:1164-1222).      *)
WalkComplete ==
  walk.phase = "walked" =>
    {r \in Listed \ Changed : InInbox(r, walk.inbox)} \subseteq returned

(* When what is newer than the first page fits in one page, the walk and   *)
(* the poll have together returned every room of the inbox, also those that*)
(* moved up while the client walked.  Two kinds of rooms that are not      *)
(* before the first one of the walk may be missed, for a poll looks at the *)
(* time of the last event alone: those that an event with an old time took *)
(* there, and those that account data took into the inbox, unarchived say, *)
(* where the walk had passed (accounts_chats.go:287-295).                  *)
PollCatchesUp ==
  [][Poll /\ walk'.phase = "polled" =>
       \A r \in Listed : InInbox(r, walk.inbox) =>
         \/ r \in returned'
         \/ r \in Changed /\ walk.first # NoValue /\ ~IsNewer(r, walk.first)]_chatListVars

(* A chat counts as archived if archiving it was the last thing a client   *)
(* did to it, and not if it was taken back or the chat was marked since,   *)
(* unless the two have the same time, the archive has no time, or a mark   *)
(* had none (accounts_chats.go:83-93, search_actions.go:586-592).          *)
ArchivedAsWanted ==
  \A r \in Rooms \ untimed :
    remote[r].done \notin {ByOrder, remote[r].unread} =>
      (EffectiveArchived(remote[r]) <=> r \in wanted)
=============================================================================
