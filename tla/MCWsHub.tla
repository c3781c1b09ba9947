------------------------------ MODULE MCWsHub ------------------------------
(* Small instances of the hub: two clients, two chats, and syncs that post *)
(* a message, with or without new metadata, or are no sync at all.         *)
EXTENDS WsHub

CONSTANTS c1, c2, a, b, m1

Room(touched, events) == [touched |-> touched, events |-> events]
Message(id) ==
  [kind |-> "message", id |-> id, relatesTo |-> NoID, replaces |-> FALSE, redacted |-> FALSE]
Sync(left, rooms) == [isSync |-> TRUE, left |-> left, rooms |-> rooms]
NotSync == [isSync |-> FALSE, left |-> <<>>, rooms |-> [c \in {} |-> Room(FALSE, {})]]

(* A post makes two events, chat.upserted and message.upserted.            *)
Post == Sync(<<>>, [c \in {a} |-> Room(TRUE, {Message(m1)})])
OneMessage == Sync(<<>>, [c \in {a} |-> Room(FALSE, {Message(m1)})])

Subscribe(chats) == [kind |-> "subscribe", chats |-> chats]
Binary == [kind |-> "binary", chats |-> {}]

MCClients == {c1, c2}
MCBodies == {"v1"}
MCSyncs == {Post}
MCPayloads == {Subscribe({a}), Subscribe({b, Blank})}
MCLiveSyncs == {OneMessage, NotSync}
MCLivePayloads == {Subscribe({Wildcard}), Subscribe({Wildcard, b}), Binary}
MCMaxPayloads == [c \in MCClients |-> IF c = c1 THEN 2 ELSE 1]
MCLiveMaxPayloads == [c \in MCClients |-> IF c = c1 THEN 1 ELSE 0]
=============================================================================
