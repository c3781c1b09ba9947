------------------------------- MODULE WsHub -------------------------------
(***************************************************************************)
(* The realtime hub of internal/server/ws_events.go behind /v1/ws.         *)
(*                                                                         *)
(* Three kinds of goroutines share it.  The gomuks sync pipeline calls the *)
(* listener, which puts an event in a bounded queue or drops it.  One run  *)
(* goroutine takes syncs from the queue, maps them to domain events and    *)
(* writes each to the clients subscribed to its chat.  One reader per      *)
(* websocket opens the client, handles its commands, and closes it.        *)
(*                                                                         *)
(* A critical section under hub.mu is one action.  A write is not: the     *)
(* writer waits for the client's writeMu, holds it while the transport     *)
(* sends (up to the write timeout), and after a failure unregisters the    *)
(* client and then closes its transport, each a step of its own.           *)
(***************************************************************************)
EXTENDS WsDomainEvents

CONSTANTS
  Clients,               (* the websocket connections that may be made     *)
  Hub,                   (* the run goroutine, as a writer                 *)
  Wildcard,              (* "*"                                            *)
  Blank,                 (* a chat ID that trims to nothing                *)
  Syncs,                 (* what gomuks may emit                           *)
  Payloads,              (* what clients may send, see PayloadKinds        *)
  Bodies,                (* contents a hydrated message may have           *)
  QueueSize,             (* wsEventQueueSize                               *)
  MaxSyncs,              (* bound on what gomuks emits in a behaviour      *)
  MaxPayloads            (* bound on what each client sends                *)

ASSUME HubAssumption ==
  /\ Hub \notin Clients
  /\ QueueSize \in Nat \ {0}
  /\ MaxSyncs \in Nat
  /\ MaxPayloads \in [Clients -> Nat]

VARIABLES
  clients,               (* hub.clients: the registered connections        *)
  chatIDs,               (* state.chatIDs of each client                   *)
  seq,                   (* state.seq of each client                       *)
  eventQueue,            (* hub.eventQueue                                 *)
  hub,                   (* the run goroutine: pc, events left, targets    *)
  reader,                (* the reader of each connection: pc, payload     *)
  out,                   (* the write each goroutine is in                 *)
  conn,                  (* the transport of each connection               *)
  wire,                  (* what each peer has received, in order          *)
  recent,                (* fingerprints inside the debounce window        *)
  verdict,               (* what dropDuplicate last returned               *)
  log,                   (* history: events fanned out, with the targets   *)
  closeCalls,            (* history: calls of client.close                 *)
  received,              (* history: payloads read from each connection    *)
  emitted                (* history: events gomuks has emitted             *)

streamVars == <<seq, log>>
windowState == <<recent, verdict>>
vars == <<clients, chatIDs, seq, eventQueue, hub, reader, out, conn, wire,
          recent, verdict, log, closeCalls, received, emitted>>

(* A payload is binary, malformed (any of the rejected shapes), or a       *)
(* subscriptions.set with the chat IDs as they were sent.                  *)
PayloadKinds == {"binary", "malformed", "subscribe"}

NoBody == "none"

Writers == Clients \union {Hub}
NoWrite == [phase |-> "none"]
NotProcessing == [pc |-> "idle", events |-> <<>>, targets |-> {}]
Reader(pc) == [pc |-> pc, chats |-> {}]

EventTypes == {"chat.upserted", "chat.deleted", "message.upserted", "message.deleted"}
Chats == UNION {p.chats : p \in Payloads}

(* A sync lists the rooms that were left, and maps finitely many rooms.    *)
ASSUME SyncsAssumption ==
  \A s \in Syncs : s.isSync =>
    /\ s.left \in Seq({s.left[i] : i \in DOMAIN s.left})
    /\ IsFiniteSet(DOMAIN s.rooms)

(* The domain events of the syncs.                                         *)
Events ==
  UNION {UNION {{o[i] : i \in DOMAIN o} : o \in DomainEventOrders(s)}
           : s \in {x \in Syncs : x.isSync}}

Fingerprints == [event : Events, body : Bodies \union {NoBody}]

Window == INSTANCE DebounceWindow

Init ==
  /\ clients = {}
  /\ chatIDs = [c \in Clients |-> {}]
  /\ seq = [c \in Clients |-> 0]
  /\ eventQueue = <<>>
  /\ hub = NotProcessing
  /\ reader = [c \in Clients |-> Reader("new")]
  /\ out = [w \in Writers |-> NoWrite]
  /\ conn = [c \in Clients |-> "up"]
  /\ wire = [c \in Clients |-> <<>>]
  /\ Window!WindowInit
  /\ log = <<>>
  /\ closeCalls = [c \in Clients |-> 0]
  /\ received = [c \in Clients |-> 0]
  /\ emitted = 0
-----------------------------------------------------------------------------
(* Writing to a client.                                                    *)

WriteTo(c, msg) == [phase |-> "lock", to |-> c, msg |-> msg]
UnregisterOf(c) == [phase |-> "unregister", to |-> c]
Ready == [type |-> "ready"]
Error == [type |-> "error"]
Ack(chats) == [type |-> "subscriptions.updated", chats |-> chats]

(* Mutant of MutexFree: a failed send leaves writeMu locked.               *)
LeftLocked(c) ==
  /\ conn[c] = "up"
  /\ \A w \in Writers : out[w].phase = "send" => out[w].to # c

(* writeMu of c is held by whoever is sending to it.                       *)
MutexFree(c) == \A w \in Writers : out[w].phase = "send" => out[w].to # c

BeginSend(w) ==
  /\ out[w].phase = "lock"
  /\ MutexFree(out[w].to)
  /\ out' = [out EXCEPT ![w].phase = "send"]
  /\ UNCHANGED <<clients, chatIDs, streamVars, eventQueue, hub, reader, conn, wire,
                 windowState, closeCalls, received, emitted>>

SendOK(w) ==
  /\ out[w].phase = "send"
  /\ conn[out[w].to] = "up"
  /\ wire' = [wire EXCEPT ![out[w].to] = Append(@, out[w].msg)]
  /\ out' = [out EXCEPT ![w] = NoWrite]
  /\ UNCHANGED <<clients, chatIDs, streamVars, eventQueue, hub, reader, conn,
                 windowState, closeCalls, received, emitted>>

(* The transport is gone, or the write timeout expires, which breaks it.   *)
SendFail(w) ==
  /\ out[w].phase = "send"
  /\ conn' = [conn EXCEPT ![out[w].to] = "gone"]
  /\ out' = [out EXCEPT ![w] = UnregisterOf(out[w].to)]
  /\ UNCHANGED <<clients, chatIDs, streamVars, eventQueue, hub, reader, wire,
                 windowState, closeCalls, received, emitted>>

(* Mutant of Unregister: the client is closed without looking it up.       *)
CloseAnyway(w) ==
  /\ out[w].phase = "unregister"
  /\ clients' = clients \ {out[w].to}
  /\ out' = [out EXCEPT ![w] = [phase |-> "close", to |-> out[w].to]]
  /\ UNCHANGED <<chatIDs, streamVars, eventQueue, hub, reader, conn, wire,
                 windowState, closeCalls, received, emitted>>

(* Only the caller that finds the client in the map closes its transport.  *)
Unregister(w) ==
  /\ out[w].phase = "unregister"
  /\ clients' = clients \ {out[w].to}
  /\ out' = [out EXCEPT ![w] = IF out[w].to \in clients
                               THEN [phase |-> "close", to |-> out[w].to]
                               ELSE NoWrite]
  /\ UNCHANGED <<chatIDs, streamVars, eventQueue, hub, reader, conn, wire,
                 windowState, closeCalls, received, emitted>>

CloseTransport(w) ==
  /\ out[w].phase = "close"
  /\ conn' = [conn EXCEPT ![out[w].to] = "gone"]
  /\ closeCalls' = [closeCalls EXCEPT ![out[w].to] = @ + 1]
  /\ out' = [out EXCEPT ![w] = NoWrite]
  /\ UNCHANGED <<clients, chatIDs, streamVars, eventQueue, hub, reader, wire,
                 windowState, received, emitted>>

WriteStep(w) ==
  BeginSend(w) \/ SendOK(w) \/ SendFail(w) \/ Unregister(w) \/ CloseTransport(w)
-----------------------------------------------------------------------------
(* The reader of a connection.                                             *)

(* Mutant of Open: a client starts with every chat subscribed.             *)
OpenSubscribed(c) ==
  /\ reader[c].pc = "new"
  /\ clients' = clients \union {c}
  /\ chatIDs' = [chatIDs EXCEPT ![c] = {Wildcard}]
  /\ reader' = [reader EXCEPT ![c] = Reader("reading")]
  /\ out' = [out EXCEPT ![c] = WriteTo(c, Ready)]
  /\ UNCHANGED <<streamVars, eventQueue, hub, conn, wire, windowState,
                 closeCalls, received, emitted>>

(* open: register the client without subscriptions, then write ready.      *)
Open(c) ==
  /\ reader[c].pc = "new"
  /\ clients' = clients \union {c}
  /\ chatIDs' = [chatIDs EXCEPT ![c] = {}]
  /\ reader' = [reader EXCEPT ![c] = Reader("reading")]
  /\ out' = [out EXCEPT ![c] = WriteTo(c, Ready)]
  /\ UNCHANGED <<streamVars, eventQueue, hub, conn, wire, windowState,
                 closeCalls, received, emitted>>

(* wsEvents reads only between two writes of its own.                      *)
CanRead(c) == reader[c].pc = "reading" /\ out[c].phase = "none"

Trimmed(chats) == chats \ {Blank}

(* normalizeWSChatIDs: the wildcard cannot be combined with anything.      *)
ValidChatIDs(chats) == Wildcard \in chats => chats = {Wildcard}

(* A text message is handed to processRawPayload.                          *)
ReadText(c) ==
  /\ CanRead(c)
  /\ conn[c] = "up"
  /\ received[c] < MaxPayloads[c]
  /\ \E p \in Payloads :
       /\ p.kind # "binary"
       /\ reader' = [reader EXCEPT
            ![c] = IF p.kind = "subscribe" /\ ValidChatIDs(Trimmed(p.chats))
                   THEN [pc |-> "valid", chats |-> Trimmed(p.chats)]
                   ELSE Reader("invalid")]
  /\ received' = [received EXCEPT ![c] = @ + 1]
  /\ UNCHANGED <<clients, chatIDs, streamVars, eventQueue, hub, out, conn, wire,
                 windowState, closeCalls, emitted>>

(* A binary message is answered by the reader itself, without writeMu, and *)
(* whether the answer gets through or not.                                 *)
ReadBinary(c) ==
  /\ CanRead(c)
  /\ conn[c] = "up"
  /\ received[c] < MaxPayloads[c]
  /\ \E p \in Payloads : p.kind = "binary"
  /\ \/ wire' = [wire EXCEPT ![c] = Append(@, Error)] /\ UNCHANGED conn
     \/ conn' = [conn EXCEPT ![c] = "gone"] /\ UNCHANGED wire
  /\ received' = [received EXCEPT ![c] = @ + 1]
  /\ UNCHANGED <<clients, chatIDs, streamVars, eventQueue, hub, reader, out,
                 windowState, closeCalls, emitted>>

(* Mutant of LookUp: a rejected payload is dropped without an answer.      *)
LookUpSilently(c) ==
  /\ reader[c].pc \in {"valid", "invalid"}
  /\ IF reader[c].pc = "valid" /\ c \in clients
     THEN reader' = [reader EXCEPT ![c].pc = "subscribe"] /\ UNCHANGED out
     ELSE IF c \in clients
          THEN reader' = [reader EXCEPT ![c] = Reader("reading")] /\ UNCHANGED out
          ELSE /\ reader' = [reader EXCEPT ![c] = Reader("closing")]
               /\ out' = [out EXCEPT ![c] = UnregisterOf(c)]
  /\ UNCHANGED <<clients, chatIDs, streamVars, eventQueue, hub, conn, wire,
                 windowState, closeCalls, received, emitted>>

(* The client is looked up first: the run goroutine may have dropped it,   *)
(* and then the reader gives up.                                           *)
LookUp(c) ==
  /\ reader[c].pc \in {"valid", "invalid"}
  /\ IF c \notin clients
     THEN /\ reader' = [reader EXCEPT ![c] = Reader("closing")]
          /\ out' = [out EXCEPT ![c] = UnregisterOf(c)]
     ELSE IF reader[c].pc = "valid"
          THEN /\ reader' = [reader EXCEPT ![c].pc = "subscribe"]
               /\ UNCHANGED out
          ELSE /\ reader' = [reader EXCEPT ![c] = Reader("reading")]
               /\ out' = [out EXCEPT ![c] = WriteTo(c, Error)]
  /\ UNCHANGED <<clients, chatIDs, streamVars, eventQueue, hub, conn, wire,
                 windowState, closeCalls, received, emitted>>

(* Mutant of SetSubscriptions: the new chats are added to the old ones.    *)
AddSubscriptions(c) ==
  /\ reader[c].pc = "subscribe"
  /\ chatIDs' = [chatIDs EXCEPT ![c] = @ \union reader[c].chats]
  /\ out' = [out EXCEPT ![c] = WriteTo(c, Ack(reader[c].chats))]
  /\ reader' = [reader EXCEPT ![c] = Reader("reading")]
  /\ UNCHANGED <<clients, streamVars, eventQueue, hub, conn, wire, windowState,
                 closeCalls, received, emitted>>

(* setSubscriptions skips a client that is no longer registered; the       *)
(* answer is written in any case.                                          *)
SetSubscriptions(c) ==
  /\ reader[c].pc = "subscribe"
  /\ chatIDs' = [chatIDs EXCEPT ![c] = IF c \in clients THEN reader[c].chats ELSE @]
  /\ out' = [out EXCEPT ![c] = WriteTo(c, Ack(reader[c].chats))]
  /\ reader' = [reader EXCEPT ![c] = Reader("reading")]
  /\ UNCHANGED <<clients, streamVars, eventQueue, hub, conn, wire, windowState,
                 closeCalls, received, emitted>>

(* Mutant of ReadFails: the reader returns without closing its client.     *)
ReturnOnly(c) ==
  /\ CanRead(c)
  /\ conn[c] = "gone"
  /\ reader' = [reader EXCEPT ![c] = Reader("closing")]
  /\ UNCHANGED <<clients, chatIDs, streamVars, eventQueue, hub, out, conn, wire,
                 windowState, closeCalls, received, emitted>>

(* Read fails once the transport is gone; the deferred Close unregisters.  *)
ReadFails(c) ==
  /\ CanRead(c)
  /\ conn[c] = "gone"
  /\ reader' = [reader EXCEPT ![c] = Reader("closing")]
  /\ out' = [out EXCEPT ![c] = UnregisterOf(c)]
  /\ UNCHANGED <<clients, chatIDs, streamVars, eventQueue, hub, conn, wire,
                 windowState, closeCalls, received, emitted>>

PeerGone(c) ==
  /\ reader[c].pc # "new"
  /\ conn[c] = "up"
  /\ conn' = [conn EXCEPT ![c] = "gone"]
  /\ UNCHANGED <<clients, chatIDs, streamVars, eventQueue, hub, reader, out, wire,
                 windowState, closeCalls, received, emitted>>

ReaderStep(c) == LookUp(c) \/ SetSubscriptions(c) \/ ReadFails(c)
-----------------------------------------------------------------------------
(* The gomuks listener and the run goroutine.                              *)

(* The listener is added by the first open; it never blocks gomuks.        *)
Emit ==
  /\ \E c \in Clients : reader[c].pc # "new"
  /\ emitted < MaxSyncs
  /\ emitted' = emitted + 1
  /\ \E s \in Syncs :
       eventQueue' = IF Len(eventQueue) < QueueSize THEN Append(eventQueue, s)
                                                    ELSE eventQueue
  /\ UNCHANGED <<clients, chatIDs, streamVars, hub, reader, out, conn, wire,
                 windowState, closeCalls, received>>

(* The select of run takes an event.  Anything but a sync is ignored.      *)
Dequeue ==
  /\ hub.pc = "idle"
  /\ eventQueue # <<>>
  /\ eventQueue' = Tail(eventQueue)
  /\ IF Head(eventQueue).isSync
     THEN \E order \in DomainEventOrders(Head(eventQueue)) :
            hub' = [pc |-> IF order = <<>> THEN "idle" ELSE "event",
                    events |-> order, targets |-> {}]
     ELSE UNCHANGED hub
  /\ UNCHANGED <<clients, chatIDs, streamVars, reader, out, conn, wire,
                 windowState, closeCalls, received, emitted>>

IsSubscribed(chats, chat) == Wildcard \in chats \/ chat \in chats
SubscribedTargets(chat) == {c \in clients : IsSubscribed(chatIDs[c], chat)}

(* The hub goes on with the events after the current one.                  *)
NextEvent ==
  [pc |-> IF Len(hub.events) > 1 THEN "event" ELSE "idle",
   events |-> Tail(hub.events), targets |-> {}]

(* The targets of the next domain event, as subscribed at this moment.     *)
(* The duplicate window has moved on since the last event was decided.     *)
Snapshot ==
  /\ hub.pc = "event"
  /\ hub.events # <<>>
  /\ LET targets == SubscribedTargets(Head(hub.events).chatID)
     IN IF targets = {}
        THEN hub' = NextEvent /\ UNCHANGED windowState
        ELSE /\ hub' = [hub EXCEPT !.pc = "decide", !.targets = targets]
             /\ Window!Expire
  /\ UNCHANGED <<clients, chatIDs, streamVars, eventQueue, reader, out, conn, wire,
                 closeCalls, received, emitted>>

(* Messages are read back from the database, which may fail or find none.  *)
HydrateFails ==
  /\ hub.pc = "decide"
  /\ Head(hub.events).type = "message.upserted"
  /\ hub' = NextEvent
  /\ UNCHANGED <<clients, chatIDs, streamVars, eventQueue, reader, out, conn, wire,
                 windowState, closeCalls, received, emitted>>

(* The event, with what was hydrated, is delivered unless it is a          *)
(* duplicate of a recent one, whoever that one was delivered to.           *)
Decide ==
  /\ hub.pc = "decide"
  /\ LET e == Head(hub.events)
     IN \E body \in IF e.type = "message.upserted" THEN Bodies ELSE {NoBody} :
          Window!Offer([event |-> e, body |-> body])
  /\ IF verdict' = "drop"
     THEN hub' = NextEvent /\ UNCHANGED log
     ELSE /\ hub' = [hub EXCEPT !.pc = "fanout"]
          /\ log' = Append(log, [event |-> Head(hub.events), targets |-> hub.targets])
  /\ UNCHANGED <<clients, chatIDs, seq, eventQueue, reader, out, conn, wire,
                 closeCalls, received, emitted>>

(* Mutant of DomainMessage: the counter is read before it is increased.    *)
NumberedFromZero(e, n) ==
  [type |-> e.type, seq |-> n - 1, chatID |-> e.chatID, ids |-> e.ids]

DomainMessage(e, n) == [type |-> e.type, seq |-> n, chatID |-> e.chatID, ids |-> e.ids]

(* One target after the other, each counted whether the write succeeds.    *)
FanOut ==
  /\ hub.pc = "fanout"
  /\ out[Hub].phase = "none"
  /\ \E c \in hub.targets :
       /\ seq' = [seq EXCEPT ![c] = @ + 1]
       /\ out' = [out EXCEPT ![Hub] = WriteTo(c, DomainMessage(Head(hub.events), seq[c] + 1))]
       /\ hub' = [hub EXCEPT !.targets = @ \ {c}]
  /\ UNCHANGED <<clients, chatIDs, log, eventQueue, reader, conn, wire, windowState,
                 closeCalls, received, emitted>>

FanOutDone ==
  /\ hub.pc = "fanout"
  /\ out[Hub].phase = "none"
  /\ hub.targets = {}
  /\ hub' = NextEvent
  /\ UNCHANGED <<clients, chatIDs, streamVars, eventQueue, reader, out, conn, wire,
                 windowState, closeCalls, received, emitted>>

(* The select of run takes a keepalive tick.  It pings the clients one by  *)
(* one, each for up to the ping timeout, and does nothing about a failure: *)
(* all it changes is that the queue is not served meanwhile.               *)
Keepalive ==
  /\ hub.pc = "idle"
  /\ \E c \in Clients : reader[c].pc # "new"
  /\ hub' = [hub EXCEPT !.pc = "ping"]
  /\ UNCHANGED <<clients, chatIDs, streamVars, eventQueue, reader, out, conn, wire,
                 windowState, closeCalls, received, emitted>>

PingsDone ==
  /\ hub.pc = "ping"
  /\ hub' = NotProcessing
  /\ UNCHANGED <<clients, chatIDs, streamVars, eventQueue, reader, out, conn, wire,
                 windowState, closeCalls, received, emitted>>

RunStep ==
  Snapshot \/ HydrateFails \/ Decide \/ FanOut \/ FanOutDone \/ PingsDone
-----------------------------------------------------------------------------
Next ==
  \/ Emit \/ Dequeue \/ Keepalive \/ RunStep
  \/ \E w \in Writers : WriteStep(w)
  \/ \E c \in Clients :
       Open(c) \/ ReadText(c) \/ ReadBinary(c) \/ PeerGone(c) \/ ReaderStep(c)

Spec == Init /\ [][Next]_vars

(* Goroutines are scheduled, and every send and ping ends by its timeout.  *)
(* The queue needs strong fairness: a select with several ready cases      *)
(* picks one at random, so ticks cannot win over the queue for ever.       *)
Fairness ==
  /\ WF_vars(RunStep)
  /\ SF_vars(Dequeue)
  /\ \A w \in Writers : WF_vars(WriteStep(w))
  /\ \A c \in Clients : WF_vars(ReaderStep(c))

FairSpec == Spec /\ Fairness
-----------------------------------------------------------------------------
(* Properties.                                                             *)

IsEvent(m) == m.type \in EventTypes
IsAck(m) == m.type = "subscriptions.updated"

Phases == {"none", "lock", "send", "unregister", "close"}

TypeOK ==
  /\ clients \subseteq Clients
  /\ chatIDs \in [Clients -> SUBSET (Chats \ {Blank})]
  /\ \A c \in Clients : ValidChatIDs(chatIDs[c])
  /\ seq \in [Clients -> Nat]
  /\ Len(eventQueue) <= QueueSize
  /\ hub.pc \in {"idle", "event", "decide", "fanout", "ping"}
  /\ hub.targets \subseteq Clients
  /\ \A c \in Clients :
       reader[c].pc \in {"new", "reading", "valid", "invalid", "subscribe", "closing"}
  /\ \A w \in Writers : out[w].phase \in Phases
  /\ conn \in [Clients -> {"up", "gone"}]
  /\ Window!WindowTypeOK
  /\ closeCalls \in [Clients -> Nat]

(* ready is the first message every client receives and is sent once: no   *)
(* event can overtake it, although the client is registered, and visible   *)
(* to the run goroutine, before it is written (ws_events.go:231-246).      *)
ReadyFirst ==
  \A c \in Clients : \A i \in DOMAIN wire[c] : wire[c][i].type = "ready" <=> i = 1

(* Where the events are that a client has received, the log entries it was *)
(* a target of, and how far an index is in a set of them.                  *)
EventsAt(c) == {i \in DOMAIN wire[c] : IsEvent(wire[c][i])}
Due(c) == {k \in DOMAIN log : c \in log[k].targets}
Rank(k, S) == Cardinality({j \in S : j <= k})

Carries(m, event) ==
  m.type = event.type /\ m.chatID = event.chatID /\ m.ids = event.ids

(* The stream a client receives is what was fanned out to it: the accepted *)
(* events it was a target of, in that order and none left out, numbered    *)
(* from 1 without gaps; only the last may still be under way, and only a   *)
(* dead connection may be behind (ws_events.go:298-314).                   *)
StreamIsLog ==
  \A c \in Clients :
    /\ \A i \in EventsAt(c) :
         /\ wire[c][i].seq = Rank(i, EventsAt(c))
         /\ \E k \in Due(c) : /\ Rank(k, Due(c)) = wire[c][i].seq
                             /\ Carries(wire[c][i], log[k].event)
    /\ conn[c] = "up" =>
         \/ Cardinality(EventsAt(c)) = Cardinality(Due(c))
         \/ hub.pc = "fanout" /\ Cardinality(EventsAt(c)) + 1 = Cardinality(Due(c))

NoAck(s, first, last) == \A k \in first..last : ~IsAck(s[k])

(* The last answer to subscriptions.set before index i asks for the chat.  *)
AckedBefore(s, i, chat) ==
  \E j \in 1..(i - 1) :
    IsAck(s[j]) /\ NoAck(s, j + 1, i - 1) /\ IsSubscribed(s[j].chats, chat)

(* The next answer from index i on does.                                   *)
AckedNext(s, i, chat) ==
  \E j \in i..Len(s) :
    IsAck(s[j]) /\ NoAck(s, i, j - 1) /\ IsSubscribed(s[j].chats, chat)

(* No event since the last answer before index i.                          *)
NoEventSince(s, i) ==
  \A j \in 1..(i - 1) : IsEvent(s[j]) => ~NoAck(s, j, i - 1)

Answering(c) == out[c].phase \in {"lock", "send"} /\ IsAck(out[c].msg)

(* Once a change of subscriptions is acknowledged, at most one event of    *)
(* the old subscriptions still arrives: the one whose targets were chosen  *)
(* before.  Every other event belongs to the acknowledged subscriptions or *)
(* to the ones being set, whose answer comes next, or is being written, or *)
(* was lost with the connection (ws_events.go:279, 298-313, 588-593).      *)
StaleAtMostOnce ==
  \A c \in Clients : \A i \in EventsAt(c) :
    \/ AckedBefore(wire[c], i, wire[c][i].chatID)
    \/ AckedNext(wire[c], i, wire[c][i].chatID)
    \/ /\ NoAck(wire[c], i, Len(wire[c]))
       /\ Answering(c) \/ conn[c] = "gone"
       /\ IsSubscribed(chatIDs[c], wire[c][i].chatID)
    \/ NoEventSince(wire[c], i)

(* However many goroutines find a client dead, its transport is closed at  *)
(* most once, and only after it has left the map (ws_events.go:258-266).   *)
ClosedOnce ==
  \A c \in Clients :
    /\ closeCalls[c] <= 1
    /\ closeCalls[c] = 1 => c \notin clients

(* What is in the queue is processed, however slow or dead the clients are *)
(* and however often the keepalive ticks (ws_events.go:181-197).           *)
QueueDrained == []<>(eventQueue = <<>> /\ hub.pc = "idle")

(* A client whose transport is gone is removed and closed, and its reader  *)
(* ends: no connection leaks (ws_events.go:366-368, 474-480).              *)
DeadClientForgotten ==
  \A c \in Clients :
    (reader[c].pc # "new" /\ conn[c] = "gone") ~>
      (c \notin clients /\ closeCalls[c] = 1 /\ reader[c].pc = "closing")

(* Every payload read from a live connection is answered, with an error or *)
(* the new subscriptions (ws_events.go:481-494, 497-595).                  *)
Answers(c) == Len(SelectSeq(wire[c], LAMBDA m : IsAck(m) \/ m.type = "error"))
PayloadsAnswered ==
  \A c \in Clients : \A n \in 1..MaxPayloads[c] :
    received[c] = n ~> (conn[c] = "gone" \/ Answers(c) >= n)
=============================================================================
