--------------------------- MODULE WsDomainEvents ---------------------------
(***************************************************************************)
(* How one gomuks sync becomes domain events: a translation of             *)
(* mapSyncCompleteToDomainEvents (internal/server/ws_events.go).  A sync   *)
(* is a record                                                             *)
(*   [isSync : BOOLEAN,         is it a SyncComplete with content?         *)
(*    left   : Seq(chat),       LeftRooms, in order                        *)
(*    rooms  : [chat -> room]]  Rooms, a Go map: its order is random       *)
(* a room has [touched : BOOLEAN, events : set of timeline events], where  *)
(* touched stands for new metadata, state, account data or timeline rows,  *)
(* and an event has [kind, id, relatesTo, replaces, redacted].             *)
(***************************************************************************)
EXTENDS Naturals, Sequences, FiniteSets

NoID == "no-id"

Content == {"message", "sticker", "reaction"}
RoomState == {"member", "name", "avatar", "topic"}

(* A redaction event itself is never content, a redacted one neither.      *)
IsContent(e) == e.kind \in Content /\ ~e.redacted
IsRoomState(e) == e.kind \in RoomState /\ ~e.redacted

(* A reaction or an edit changes the message it relates to.                *)
UpsertTarget(e) ==
  IF e.relatesTo # NoID /\ (e.kind = "reaction" \/ e.replaces)
  THEN e.relatesTo ELSE e.id

UpsertedIDs(room) ==
  {UpsertTarget(e) : e \in {x \in room.events : IsContent(x)}} \ {NoID}

DeletedIDs(room) ==
  LET redactions == {e \in room.events : e.kind = "redaction"}
      redacted   == {e \in room.events \ redactions : e.redacted}
  IN ({e.relatesTo : e \in redactions} \union {e.id : e \in redacted}) \ {NoID}

ChatTouched(room) ==
  room.touched \/ \E e \in room.events : IsContent(e) \/ IsRoomState(e)

Event(type, chat, ids) == [type |-> type, chatID |-> chat, ids |-> ids]
When(condition, event) == IF condition THEN <<event>> ELSE <<>>

(* One room: the chat, then its new messages, then the deleted ones.       *)
RoomEvents(chat, room) ==
  When(ChatTouched(room), Event("chat.upserted", chat, {chat}))
  \o When(UpsertedIDs(room) # {}, Event("message.upserted", chat, UpsertedIDs(room)))
  \o When(DeletedIDs(room) # {}, Event("message.deleted", chat, DeletedIDs(room)))

LeftEvents(left) ==
  [i \in DOMAIN left |-> Event("chat.deleted", left[i], {left[i]})]

(* The orders in which a Go map of these rooms may be ranged over.         *)
RangeOrders(chats) ==
  {s \in [1..Cardinality(chats) -> chats] : \A c \in chats : \E i \in DOMAIN s : s[i] = c}

(* The events of the rooms of s in that order, one after the other.        *)
ConcatRooms(s, rooms) ==
  LET upTo[n \in 0..Len(s)] ==
        IF n = 0 THEN <<>> ELSE upTo[n - 1] \o RoomEvents(s[n], rooms[s[n]])
  IN upTo[Len(s)]

(* Every sequence of domain events one sync may produce.                   *)
DomainEventOrders(sync) ==
  {LeftEvents(sync.left) \o ConcatRooms(s, sync.rooms) :
     s \in RangeOrders(DOMAIN sync.rooms)}
=============================================================================
