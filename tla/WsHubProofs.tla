---------------------------- MODULE WsHubProofs ----------------------------
(***************************************************************************)
(* Proofs about WsHub, for any clients, syncs, payloads and bounds.        *)
(*                                                                         *)
(* Shape types what TypeOK leaves open: the messages under way, the events *)
(* left to the hub, the payload a reader works on.  Closing strengthens    *)
(* ClosedOnce: the one goroutine that closes a client took it out of the   *)
(* map, and no client comes back.  Greeting strengthens ReadyFirst: while  *)
(* ready is being written nobody else can have chosen the client.          *)
(* Orderly says whose writes are whose, Streaming how the counters, the    *)
(* log and the wires go together, Timeliness by which subscriptions each   *)
(* event came.                                                             *)
(***************************************************************************)
EXTENDS WsHub, FiniteSetTheorems, TLAPS

Kept == Chats \ {Blank}

Messages ==
  {Ready, Error} \union {Ack(chats) : chats \in SUBSET Kept}
    \union {DomainMessage(e, n) : e \in Events, n \in Nat}

Writes ==
  {NoWrite} \union [phase : {"lock", "send"}, to : Clients, msg : Messages]
            \union [phase : {"unregister", "close"}, to : Clients]

HubStates ==
  [pc : {"idle", "event", "decide", "fanout", "ping"},
   events : Seq(Events), targets : SUBSET Clients]

ReaderStates ==
  [pc : {"new", "reading", "valid", "invalid", "subscribe", "closing"},
   chats : {chats \in SUBSET Kept : ValidChatIDs(chats)}]

Shape ==
  /\ clients \subseteq Clients
  /\ chatIDs \in [Clients -> {chats \in SUBSET Kept : ValidChatIDs(chats)}]
  /\ seq \in [Clients -> Nat]
  /\ eventQueue \in Seq(Syncs) /\ Len(eventQueue) <= QueueSize
  /\ hub \in HubStates
  /\ hub.pc \in {"event", "decide", "fanout"} => hub.events # <<>>
  /\ reader \in [Clients -> ReaderStates]
  /\ out \in [Writers -> Writes]
  /\ conn \in [Clients -> {"up", "gone"}]
  /\ wire \in [Clients -> Seq(Messages)]
  /\ Window!WindowTypeOK
  /\ closeCalls \in [Clients -> Nat]

ClosingBy(w, c) == out[w].phase = "close" /\ out[w].to = c

Closing ==
  \A c \in Clients :
    /\ closeCalls[c] <= 1
    /\ reader[c].pc = "new" => c \notin clients /\ closeCalls[c] = 0
    /\ c \in clients => closeCalls[c] = 0
    /\ \A w \in Writers : ClosingBy(w, c) =>
         /\ c \notin clients
         /\ closeCalls[c] = 0
         /\ reader[c].pc # "new"
         /\ \A v \in Writers : ClosingBy(v, c) => v = w

WritingTo(w, c) == out[w].phase \in {"lock", "send"} /\ out[w].to = c

(* open is still writing ready to c.                                       *)
Pending(c) == WritingTo(c, c) /\ out[c].msg.type = "ready"

Greeted(c) ==
  /\ reader[c].pc = "new" \/ Pending(c) =>
       /\ wire[c] = <<>>
       /\ chatIDs[c] = {}
       /\ c \notin hub.targets
       /\ \A w \in Writers : WritingTo(w, c) => w = c
  /\ reader[c].pc = "new" => out[c].phase = "none"
  /\ Pending(c) => reader[c].pc = "reading"
  /\ \A w \in Writers : WritingTo(w, c) /\ out[w].msg.type = "ready" => w = c
  /\ reader[c].pc # "new" /\ ~Pending(c) /\ wire[c] = <<>> => conn[c] = "gone"
  /\ \A i \in DOMAIN wire[c] : wire[c][i].type = "ready" <=> i = 1

Greeting == \A c \in Clients : Greeted(c)
-----------------------------------------------------------------------------
(* Domain events.  A sync becomes a sequence of events of the four types:  *)
(* an induction over its rooms, in any order of the map, which rests on    *)
(* there being a least counterexample.                                     *)

LEMMA LeastNat ==
  ASSUME NEW T, T \subseteq Nat, T # {}
  PROVE  \E x \in T : \A y \in T : x <= y
<1> DEFINE Below(x) == 0..x
           W == {Below(x) : x \in T}
           R == StrictSubsetOrdering(Nat)
<1>1. \A x \in T : Below(x) \in SUBSET Nat /\ IsFiniteSet(Below(x))
  <2> SUFFICES ASSUME NEW x \in T PROVE 0..x \in SUBSET Nat /\ IsFiniteSet(0..x)
    OBVIOUS
  <2>1. 0 \in Int /\ x \in Int
    OBVIOUS
  <2>2. IsFiniteSet(0..x)
    BY <2>1, FS_Interval
  <2> QED BY <2>2
<1>2. W \subseteq FiniteSubsetsOf(Nat) /\ W # {}
  BY <1>1 DEF FiniteSubsetsOf
<1>3. IsWellFoundedOn(R, FiniteSubsetsOf(Nat))
  BY FS_StrictSubsetOrderingWellFounded
<1> HIDE DEF W, R
<1>4. PICK w \in W : \A v \in W : ~(<<v, w>> \in R)
  BY <1>2, <1>3, WFMin
<1>5. PICK x \in T : w = Below(x)
  BY <1>4 DEF W
<1>6. ASSUME NEW y \in T, y < x PROVE FALSE
  <2>1. Below(y) \in W
    BY DEF W
  <2>2. Below(y) \subseteq Below(x) /\ x \in Below(x) /\ x \notin Below(y)
    BY <1>6
  <2>3. <<Below(y), Below(x)>> \in (SUBSET Nat) \X (SUBSET Nat)
    BY <1>1
  <2> HIDE DEF Below
  <2>4. <<Below(y), Below(x)>> \in R
    BY <2>2, <2>3 DEF R, StrictSubsetOrdering
  <2> QED BY <1>4, <1>5, <2>1, <2>4
<1>7. \A y \in T : y \in Nat /\ x \in Nat /\ ~(y < x)
  BY <1>6
<1> QED BY <1>7

(* The concatenation of the first n of these sequences, by recursion.      *)
LEMMA ConcatExists ==
  ASSUME NEW n \in Nat, NEW step
  PROVE  \E g : g = [k \in 0..n |-> IF k = 0 THEN <<>> ELSE g[k - 1] \o step[k]]
<1> DEFINE Fits(g, k) == g = [i \in 0..k |-> IF i = 0 THEN <<>> ELSE g[i - 1] \o step[i]]
           Bad == {k \in Nat : ~(\E g : Fits(g, k))}
<1> SUFFICES ASSUME Bad # {} PROVE FALSE
  BY DEF Bad
<1> HIDE DEF Bad
<1>1. Bad \subseteq Nat
  BY DEF Bad
<1>2. PICK k \in Bad : \A j \in Bad : k <= j
  BY <1>1, LeastNat
<1>3. CASE k = 0
  <2>1. Fits([i \in 0..0 |-> <<>>], 0)
    <3>1. \A i \in 0..0 : i = 0
      OBVIOUS
    <3> QED BY <3>1
  <2> HIDE DEF Fits
  <2> QED BY <1>3, <2>1 DEF Bad
<1>4. CASE k # 0
  <2>1. k - 1 \in Nat /\ k \in Nat /\ ~(k <= k - 1)
    BY <1>1, <1>4
  <2>2. k - 1 \notin Bad
    BY <1>2, <2>1
  <2>3. PICK g : Fits(g, k - 1)
    <3> HIDE DEF Fits
    <3> QED BY <2>1, <2>2 DEF Bad
  <2> DEFINE h == [i \in 0..k |-> IF i = k THEN g[k - 1] \o step[k] ELSE g[i]]
  <2>4. \A i \in 0..(k - 1) : g[i] = IF i = 0 THEN <<>> ELSE g[i - 1] \o step[i]
    BY <2>3
  <2>5. \A i \in 0..k : i = k \/ i \in 0..(k - 1)
    BY <2>1
  <2>6. \A i \in 0..k : i # 0 => i - 1 \in 0..k /\ i - 1 # k
    BY <2>1
  <2>7. \A i \in 0..k : h[i] = IF i = 0 THEN <<>> ELSE h[i - 1] \o step[i]
    BY <1>4, <2>1, <2>4, <2>5, <2>6
  <2>8. DOMAIN h = 0..k /\ h = [i \in 0..k |-> h[i]]
    OBVIOUS
  <2> HIDE DEF h
  <2>9. Fits(h, k)
    BY <2>7, <2>8
  <2> HIDE DEF Fits
  <2> QED BY <1>2, <2>9 DEF Bad
<1> QED BY <1>3, <1>4

LEMMA ConcatIsSeq ==
  ASSUME NEW n \in Nat, NEW T, NEW step, \A k \in 1..n : step[k] \in Seq(T),
         NEW g, g = [k \in 0..n |-> IF k = 0 THEN <<>> ELSE g[k - 1] \o step[k]]
  PROVE  g[n] \in Seq(T)
<1> DEFINE Bad == {k \in 0..n : g[k] \notin Seq(T)}
<1>1. \A k \in 0..n : g[k] = IF k = 0 THEN <<>> ELSE g[k - 1] \o step[k]
  OBVIOUS
<1>2. Bad \subseteq Nat
  OBVIOUS
<1>3. ASSUME Bad # {} PROVE FALSE
  <2> HIDE DEF Bad
  <2>1. PICK k \in Bad : \A j \in Bad : k <= j
    BY <1>2, <1>3, LeastNat
  <2>2. k \in 0..n /\ g[k] \notin Seq(T)
    BY <2>1 DEF Bad
  <2>3. k # 0
    BY <1>1, <2>2
  <2>4. k - 1 \in 0..n /\ k \in 1..n /\ ~(k <= k - 1)
    BY <2>2, <2>3
  <2>5. g[k - 1] \in Seq(T)
    BY <2>1, <2>4 DEF Bad
  <2>6. g[k] = g[k - 1] \o step[k]
    BY <1>1, <2>2, <2>3
  <2>7. step[k] \in Seq(T)
    BY <2>4
  <2>8. g[k - 1] \o step[k] \in Seq(T)
    BY <2>5, <2>7
  <2> QED BY <2>2, <2>6, <2>8
<1> QED BY <1>3

ChatsOf(s) == DOMAIN s.rooms \union {s.left[i] : i \in DOMAIN s.left}

EventsOf(s) ==
  {Event(type, chat, ids) :
     type \in EventTypes, chat \in ChatsOf(s),
     ids \in {{c} : c \in ChatsOf(s)}
              \union {UpsertedIDs(s.rooms[c]) : c \in DOMAIN s.rooms}
              \union {DeletedIDs(s.rooms[c]) : c \in DOMAIN s.rooms}}

LEMMA RoomEventsTyped ==
  ASSUME NEW s, NEW c \in DOMAIN s.rooms
  PROVE  RoomEvents(c, s.rooms[c]) \in Seq(EventsOf(s))
<1> DEFINE T == EventsOf(s)
<1>1. /\ Event("chat.upserted", c, {c}) \in T
      /\ Event("message.upserted", c, UpsertedIDs(s.rooms[c])) \in T
      /\ Event("message.deleted", c, DeletedIDs(s.rooms[c])) \in T
  BY DEF EventsOf, ChatsOf, EventTypes
<1> HIDE DEF T
<1>2. \A b \in BOOLEAN, e \in T : When(b, e) \in Seq(T)
  BY DEF When
<1>3. /\ When(ChatTouched(s.rooms[c]), Event("chat.upserted", c, {c})) \in Seq(T)
      /\ When(UpsertedIDs(s.rooms[c]) # {},
              Event("message.upserted", c, UpsertedIDs(s.rooms[c]))) \in Seq(T)
      /\ When(DeletedIDs(s.rooms[c]) # {},
              Event("message.deleted", c, DeletedIDs(s.rooms[c]))) \in Seq(T)
  BY <1>1 DEF When
<1> QED BY <1>3 DEF RoomEvents, T

LEMMA ConcatRoomsTyped ==
  ASSUME NEW s, IsFiniteSet(DOMAIN s.rooms), NEW o \in RangeOrders(DOMAIN s.rooms)
  PROVE  ConcatRooms(o, s.rooms) \in Seq(EventsOf(s))
<1>1. PICK n \in Nat : n = Cardinality(DOMAIN s.rooms)
  BY FS_CardinalityType
<1>2. o \in [1..n -> DOMAIN s.rooms]
  BY <1>1 DEF RangeOrders
<1>3. Len(o) = n
  BY <1>2
<1> DEFINE step == [k \in 1..n |-> RoomEvents(o[k], s.rooms[o[k]])]
           Good(g) == g = [k \in 0..n |-> IF k = 0 THEN <<>> ELSE g[k - 1] \o step[k]]
           Upto == CHOOSE g : g = [k \in 0..n |-> IF k = 0 THEN <<>>
                                ELSE g[k - 1] \o RoomEvents(o[k], s.rooms[o[k]])]
<1>4. \A k \in 1..n : step[k] = RoomEvents(o[k], s.rooms[o[k]]) /\ o[k] \in DOMAIN s.rooms
  BY <1>2
<1>5. \A k \in 1..n : step[k] \in Seq(EventsOf(s))
  BY <1>4, RoomEventsTyped
<1>6. \E g : Good(g)
  <2> HIDE DEF step
  <2> QED BY ConcatExists
<1>7. \A g : Good(g) <=> g = [k \in 0..n |-> IF k = 0 THEN <<>>
                                ELSE g[k - 1] \o RoomEvents(o[k], s.rooms[o[k]])]
  <2> SUFFICES ASSUME NEW g
               PROVE  [k \in 0..n |-> IF k = 0 THEN <<>> ELSE g[k - 1] \o step[k]]
                        = [k \in 0..n |-> IF k = 0 THEN <<>>
                                ELSE g[k - 1] \o RoomEvents(o[k], s.rooms[o[k]])]
    OBVIOUS
  <2>1. \A k \in 0..n : k # 0 => step[k] = RoomEvents(o[k], s.rooms[o[k]])
    BY <1>4
  <2> HIDE DEF step
  <2> QED BY <2>1
<1>8. Good(Upto)
  <2>1. PICK g : g = [k \in 0..n |-> IF k = 0 THEN <<>>
                                ELSE g[k - 1] \o RoomEvents(o[k], s.rooms[o[k]])]
    BY <1>6, <1>7
  <2>2. Upto = [k \in 0..n |-> IF k = 0 THEN <<>>
                                ELSE Upto[k - 1] \o RoomEvents(o[k], s.rooms[o[k]])]
    BY <2>1
  <2> HIDE DEF Upto, Good
  <2> QED BY <1>7, <2>2
<1>9. ConcatRooms(o, s.rooms) = Upto[n]
  BY <1>3 DEF ConcatRooms
<1> HIDE DEF Upto, step
<1>10. Upto[n] \in Seq(EventsOf(s))
  BY <1>5, <1>8, ConcatIsSeq
<1> QED BY <1>9, <1>10

LEMMA EventsFacts ==
  /\ \A s \in Syncs : s.isSync => DomainEventOrders(s) \subseteq Seq(Events)
  /\ \A e \in Events : e.type \in EventTypes
<1>1. ASSUME NEW s \in Syncs, s.isSync, NEW o \in DomainEventOrders(s)
      PROVE  o \in Seq(EventsOf(s))
  <2>1. PICK r \in RangeOrders(DOMAIN s.rooms) :
          o = LeftEvents(s.left) \o ConcatRooms(r, s.rooms)
    BY DEF DomainEventOrders
  <2>2. s.left \in Seq({s.left[i] : i \in DOMAIN s.left}) /\ IsFiniteSet(DOMAIN s.rooms)
    BY <1>1, SyncsAssumption
  <2>3. LeftEvents(s.left) \in Seq(EventsOf(s))
    <3>1. PICK n \in Nat : DOMAIN s.left = 1..n
      BY <2>2
    <3>2. ASSUME NEW i \in 1..n
          PROVE  Event("chat.deleted", s.left[i], {s.left[i]}) \in EventsOf(s)
      <4>1. s.left[i] \in ChatsOf(s)
        BY <3>1 DEF ChatsOf
      <4>2. "chat.deleted" \in EventTypes
        BY DEF EventTypes
      <4> QED BY <4>1, <4>2 DEF EventsOf
    <3>3. LeftEvents(s.left) = [i \in 1..n |-> Event("chat.deleted", s.left[i], {s.left[i]})]
      BY <3>1 DEF LeftEvents
    <3>4. LeftEvents(s.left) \in [1..n -> EventsOf(s)]
      <4> HIDE <2>1
      <4> QED BY <3>2, <3>3
    <3> QED BY <3>4
  <2>4. ConcatRooms(r, s.rooms) \in Seq(EventsOf(s))
    BY <2>2, ConcatRoomsTyped
  <2> QED BY <2>1, <2>3, <2>4
<1>2. ASSUME NEW s \in Syncs, s.isSync, NEW o \in DomainEventOrders(s)
      PROVE  o \in Seq(Events)
  <2>1. \A i \in DOMAIN o : o[i] \in Events
    BY <1>2 DEF Events
  <2>2. o \in Seq(EventsOf(s))
    BY <1>1, <1>2
  <2>3. PICK n \in Nat : DOMAIN o = 1..n /\ o = [i \in 1..n |-> o[i]]
    BY <2>2
  <2> QED BY <2>1, <2>3
<1>3. ASSUME NEW e \in Events PROVE e.type \in EventTypes
  <2>1. PICK s \in Syncs : /\ s.isSync
                           /\ \E o \in DomainEventOrders(s) : \E i \in DOMAIN o : e = o[i]
    BY DEF Events
  <2>2. PICK o \in DomainEventOrders(s) : \E i \in DOMAIN o : e = o[i]
    BY <2>1
  <2>3. o \in Seq(EventsOf(s))
    BY <1>1, <2>1
  <2>4. e \in EventsOf(s)
    BY <2>2, <2>3
  <2>5. PICK type \in EventTypes : \E chat, ids : e = Event(type, chat, ids)
    BY <2>4 DEF EventsOf
  <2> QED BY <2>5 DEF Event
<1> QED BY <1>2, <1>3
-----------------------------------------------------------------------------
(* Messages.                                                               *)

LEMMA MessageTypes ==
  /\ Ready \in Messages /\ Ready.type = "ready"
  /\ Error \in Messages /\ Error.type # "ready"
  /\ \A chats \in SUBSET Kept : Ack(chats) \in Messages /\ Ack(chats).type # "ready"
  /\ \A e \in Events, n \in Nat :
       DomainMessage(e, n) \in Messages /\ DomainMessage(e, n).type # "ready"
<1>1. \A e \in Events : e.type # "ready"
  BY EventsFacts DEF EventTypes
<1>2. /\ Ready \in Messages /\ Ready.type = "ready"
      /\ Error \in Messages /\ Error.type # "ready"
  BY DEF Messages, Ready, Error
<1>3. ASSUME NEW chats \in SUBSET Kept
      PROVE  Ack(chats) \in Messages /\ Ack(chats).type # "ready"
  <2>1. Ack(chats) \in Messages BY DEF Messages
  <2>2. Ack(chats).type = "subscriptions.updated" BY DEF Ack
  <2> QED BY <2>1, <2>2
<1>4. ASSUME NEW e \in Events, NEW n \in Nat
      PROVE  DomainMessage(e, n) \in Messages /\ DomainMessage(e, n).type # "ready"
  <2>1. DomainMessage(e, n) \in Messages BY DEF Messages
  <2>2. DomainMessage(e, n).type = e.type BY DEF DomainMessage
  <2> QED BY <1>1, <2>1, <2>2
<1> QED BY <1>2, <1>3, <1>4

LEMMA WriteFacts ==
  /\ NoWrite \in Writes /\ NoWrite.phase = "none"
  /\ \A c \in Clients, m \in Messages :
       /\ WriteTo(c, m) \in Writes
       /\ WriteTo(c, m).phase = "lock"
       /\ WriteTo(c, m).to = c
       /\ WriteTo(c, m).msg = m
  /\ \A c \in Clients :
       /\ UnregisterOf(c) \in Writes
       /\ UnregisterOf(c).phase = "unregister"
       /\ [phase |-> "close", to |-> c] \in Writes
  /\ \A o \in Writes :
       /\ o.phase \in {"lock", "send"} => o.to \in Clients /\ o.msg \in Messages
       /\ o.phase \in {"unregister", "close"} => o.to \in Clients
       /\ o.phase = "lock" => [o EXCEPT !.phase = "send"] \in Writes
       /\ o.phase = "lock" =>
            /\ [o EXCEPT !.phase = "send"].phase = "send"
            /\ [o EXCEPT !.phase = "send"].to = o.to
            /\ [o EXCEPT !.phase = "send"].msg = o.msg
       /\ o.phase \in Phases
BY DEF Writes, NoWrite, WriteTo, UnregisterOf, Phases

LEMMA SelfWriter == Hub \in Writers /\ Clients \subseteq Writers /\ Hub \notin Clients
BY HubAssumption DEF Writers
-----------------------------------------------------------------------------
(* Types.                                                                  *)

LEMMA InitShape == Init => Shape
<1> SUFFICES ASSUME Init PROVE Shape OBVIOUS
<1> USE HubAssumption
<1>1. {} \in {chats \in SUBSET Kept : ValidChatIDs(chats)}
  BY DEF ValidChatIDs
<1>2. reader \in [Clients -> ReaderStates]
  BY <1>1 DEF Init, Reader, ReaderStates
<1>3. out \in [Writers -> Writes]
  BY WriteFacts DEF Init
<1>4. hub \in HubStates /\ hub.pc = "idle"
  BY DEF Init, NotProcessing, HubStates
<1>5. eventQueue \in Seq(Syncs) /\ Len(eventQueue) <= QueueSize
  BY DEF Init
<1>6. chatIDs \in [Clients -> {chats \in SUBSET Kept : ValidChatIDs(chats)}]
  BY <1>1 DEF Init
<1>7. /\ clients \subseteq Clients
      /\ seq \in [Clients -> Nat]
      /\ conn \in [Clients -> {"up", "gone"}]
      /\ closeCalls \in [Clients -> Nat]
      /\ wire \in [Clients -> Seq(Messages)]
  BY DEF Init
<1>8. Window!WindowTypeOK
  BY DEF Init, Window!WindowInit, Window!WindowTypeOK, Window!Verdicts
<1> QED BY <1>2, <1>3, <1>4, <1>5, <1>6, <1>7, <1>8 DEF Shape

(* What the five steps of a write do to the shape.                         *)
LEMMA ShapeWrite ==
  ASSUME Shape, NEW w \in Writers, WriteStep(w)
  PROVE  Shape'
<1> USE SelfWriter, WriteFacts DEF Shape
<1>1. CASE BeginSend(w)
  <2>1. out' \in [Writers -> Writes]
    <3>1. out' = [out EXCEPT ![w] = [out[w] EXCEPT !.phase = "send"]]
      BY <1>1 DEF BeginSend
    <3> QED BY <1>1, <3>1 DEF BeginSend
  <2> QED BY <1>1, <2>1 DEF BeginSend, streamVars, windowState, Window!WindowTypeOK
<1>2. CASE SendOK(w)
  <2>1. out[w].to \in Clients /\ out[w].msg \in Messages
    BY <1>2 DEF SendOK
  <2>2. wire' \in [Clients -> Seq(Messages)] /\ out' \in [Writers -> Writes]
    BY <1>2, <2>1 DEF SendOK
  <2> QED BY <1>2, <2>2 DEF SendOK, streamVars, windowState, Window!WindowTypeOK
<1>3. CASE SendFail(w)
  <2>1. out[w].to \in Clients
    BY <1>3 DEF SendFail
  <2>2. conn' \in [Clients -> {"up", "gone"}] /\ out' \in [Writers -> Writes]
    BY <1>3, <2>1 DEF SendFail
  <2> QED BY <1>3, <2>2 DEF SendFail, streamVars, windowState, Window!WindowTypeOK
<1>4. CASE Unregister(w)
  <2>1. out[w].to \in Clients
    BY <1>4 DEF Unregister
  <2>2. clients' \subseteq Clients /\ out' \in [Writers -> Writes]
    BY <1>4, <2>1 DEF Unregister
  <2> QED BY <1>4, <2>2 DEF Unregister, streamVars, windowState, Window!WindowTypeOK
<1>5. CASE CloseTransport(w)
  <2>1. out[w].to \in Clients
    BY <1>5 DEF CloseTransport
  <2>2. /\ conn' \in [Clients -> {"up", "gone"}] /\ out' \in [Writers -> Writes]
        /\ closeCalls' \in [Clients -> Nat]
    BY <1>5, <2>1 DEF CloseTransport
  <2> QED BY <1>5, <2>2 DEF CloseTransport, streamVars, windowState, Window!WindowTypeOK
<1> QED BY <1>1, <1>2, <1>3, <1>4, <1>5 DEF WriteStep

ConnectionStep(c) ==
  Open(c) \/ ReadText(c) \/ ReadBinary(c) \/ PeerGone(c) \/ ReaderStep(c)

LEMMA ReaderFacts ==
  /\ \A pc \in {"reading", "invalid", "closing"} :
       Reader(pc) \in ReaderStates /\ Reader(pc).pc = pc
  /\ {} \in SUBSET Kept /\ ValidChatIDs({})
  /\ \A r \in ReaderStates :
       /\ r.chats \in SUBSET Kept
       /\ ValidChatIDs(r.chats)
       /\ [r EXCEPT !.pc = "subscribe"] \in ReaderStates
       /\ [r EXCEPT !.pc = "subscribe"].pc = "subscribe"
  /\ \A p \in Payloads : Trimmed(p.chats) \in SUBSET Kept
  /\ \A chats \in SUBSET Kept : ValidChatIDs(chats) =>
       [pc |-> "valid", chats |-> chats] \in ReaderStates
<1>1. \A p \in Payloads : Trimmed(p.chats) \in SUBSET Kept
  BY DEF Trimmed, Kept, Chats
<1>2. ASSUME NEW r \in ReaderStates
      PROVE  /\ r.chats \in SUBSET Kept
             /\ ValidChatIDs(r.chats)
             /\ [r EXCEPT !.pc = "subscribe"] \in ReaderStates
             /\ [r EXCEPT !.pc = "subscribe"].pc = "subscribe"
  BY DEF ReaderStates
<1>3. {} \in SUBSET Kept /\ ValidChatIDs({})
  BY DEF ValidChatIDs
<1>4. ASSUME NEW pc \in {"reading", "invalid", "closing"}
      PROVE  Reader(pc) \in ReaderStates /\ Reader(pc).pc = pc
  BY <1>3 DEF ReaderStates, Reader
<1>5. ASSUME NEW chats \in SUBSET Kept, ValidChatIDs(chats)
      PROVE  [pc |-> "valid", chats |-> chats] \in ReaderStates
  BY <1>5 DEF ReaderStates
<1> QED BY <1>1, <1>2, <1>3, <1>4, <1>5

(* What the reader of a connection, or its peer, does to the shape.        *)
LEMMA ShapeConnection ==
  ASSUME Shape, NEW c \in Clients, ConnectionStep(c)
  PROVE  Shape'
<1> USE SelfWriter, WriteFacts, ReaderFacts, MessageTypes DEF Shape
<1>1. CASE Open(c)
  <2>1. /\ clients' \subseteq Clients
        /\ chatIDs' \in [Clients -> {chats \in SUBSET Kept : ValidChatIDs(chats)}]
        /\ reader' \in [Clients -> ReaderStates]
        /\ out' \in [Writers -> Writes]
    BY <1>1 DEF Open
  <2> QED BY <1>1, <2>1 DEF Open, streamVars, windowState, Window!WindowTypeOK
<1>2. CASE ReadText(c)
  <2>1. PICK p \in Payloads :
          reader' = [reader EXCEPT
            ![c] = IF p.kind = "subscribe" /\ ValidChatIDs(Trimmed(p.chats))
                   THEN [pc |-> "valid", chats |-> Trimmed(p.chats)]
                   ELSE Reader("invalid")]
    BY <1>2 DEF ReadText
  <2>2. reader' \in [Clients -> ReaderStates]
    BY <2>1
  <2> QED BY <1>2, <2>2 DEF ReadText, streamVars, windowState, Window!WindowTypeOK
<1>3. CASE ReadBinary(c)
  <2>1. /\ conn' \in [Clients -> {"up", "gone"}]
        /\ wire' \in [Clients -> Seq(Messages)]
    <3>1. CASE wire' = [wire EXCEPT ![c] = Append(@, Error)] /\ UNCHANGED conn
      <4>1. Append(wire[c], Error) \in Seq(Messages)
        OBVIOUS
      <4> QED BY <3>1, <4>1
    <3>2. CASE conn' = [conn EXCEPT ![c] = "gone"] /\ UNCHANGED wire
      BY <3>2
    <3> QED BY <1>3, <3>1, <3>2 DEF ReadBinary
  <2> QED BY <1>3, <2>1 DEF ReadBinary, streamVars, windowState, Window!WindowTypeOK
<1>4. CASE PeerGone(c)
  <2>1. conn' \in [Clients -> {"up", "gone"}]
    BY <1>4 DEF PeerGone
  <2> QED BY <1>4, <2>1 DEF PeerGone, streamVars, windowState, Window!WindowTypeOK
<1>5. CASE LookUp(c)
  <2>1. /\ reader' \in [Clients -> ReaderStates]
        /\ out' \in [Writers -> Writes]
    <3>1. CASE c \notin clients
      <4>1. /\ reader' = [reader EXCEPT ![c] = Reader("closing")]
            /\ out' = [out EXCEPT ![c] = UnregisterOf(c)]
        BY <1>5, <3>1 DEF LookUp
      <4>2. Reader("closing") \in ReaderStates /\ UnregisterOf(c) \in Writes
        OBVIOUS
      <4> QED BY <4>1, <4>2
    <3>2. CASE c \in clients /\ reader[c].pc = "valid"
      <4>1. reader' = [reader EXCEPT ![c] = [reader[c] EXCEPT !.pc = "subscribe"]]
        BY <1>5, <3>2 DEF LookUp
      <4> QED BY <1>5, <3>2, <4>1 DEF LookUp
    <3>3. CASE c \in clients /\ reader[c].pc # "valid"
      <4>1. /\ reader' = [reader EXCEPT ![c] = Reader("reading")]
            /\ out' = [out EXCEPT ![c] = WriteTo(c, Error)]
        BY <1>5, <3>3 DEF LookUp
      <4>2. Reader("reading") \in ReaderStates /\ WriteTo(c, Error) \in Writes
        OBVIOUS
      <4> QED BY <4>1, <4>2
    <3> QED BY <3>1, <3>2, <3>3
  <2> QED BY <1>5, <2>1 DEF LookUp, streamVars, windowState, Window!WindowTypeOK
<1>6. CASE SetSubscriptions(c)
  <2>1. reader[c] \in ReaderStates
    OBVIOUS
  <2>2. chatIDs' \in [Clients -> {chats \in SUBSET Kept : ValidChatIDs(chats)}]
    BY <1>6, <2>1 DEF SetSubscriptions
  <2>3. /\ reader' \in [Clients -> ReaderStates]
        /\ out' \in [Writers -> Writes]
    BY <1>6, <2>1 DEF SetSubscriptions
  <2> QED BY <1>6, <2>2, <2>3 DEF SetSubscriptions, streamVars, windowState, Window!WindowTypeOK
<1>7. CASE ReadFails(c)
  <2>1. /\ reader' \in [Clients -> ReaderStates]
        /\ out' \in [Writers -> Writes]
    BY <1>7 DEF ReadFails
  <2> QED BY <1>7, <2>1 DEF ReadFails, streamVars, windowState, Window!WindowTypeOK
<1> QED BY <1>1, <1>2, <1>3, <1>4, <1>5, <1>6, <1>7 DEF ConnectionStep, ReaderStep

(* Steps that write to nobody and touch no client.                         *)
QuietStep ==
  Emit \/ Dequeue \/ Keepalive \/ Snapshot \/ HydrateFails \/ Decide \/ FanOutDone
    \/ PingsDone

perClient == <<clients, chatIDs, seq, reader, out, conn, wire, closeCalls>>

LEMMA QuietFrame == QuietStep => UNCHANGED perClient
<1>1. Emit => UNCHANGED perClient BY DEF Emit, perClient, streamVars
<1>2. Dequeue => UNCHANGED perClient BY DEF Dequeue, perClient, streamVars
<1>3. Keepalive => UNCHANGED perClient BY DEF Keepalive, perClient, streamVars
<1>4. Snapshot => UNCHANGED perClient BY DEF Snapshot, perClient, streamVars
<1>5. HydrateFails => UNCHANGED perClient BY DEF HydrateFails, perClient, streamVars
<1>6. Decide => UNCHANGED perClient BY DEF Decide, perClient, streamVars
<1>7. FanOutDone => UNCHANGED perClient BY DEF FanOutDone, perClient, streamVars
<1>8. PingsDone => UNCHANGED perClient BY DEF PingsDone, perClient, streamVars
<1> QED BY <1>1, <1>2, <1>3, <1>4, <1>5, <1>6, <1>7, <1>8 DEF QuietStep

LEMMA NextEventShape ==
  ASSUME Shape, hub.events # <<>>
  PROVE  /\ NextEvent \in HubStates
         /\ NextEvent.pc \in {"event", "decide", "fanout"} => NextEvent.events # <<>>
         /\ NextEvent.targets = {}
<1>1. hub.events \in Seq(Events)
  BY DEF Shape, HubStates
<1>2. Tail(hub.events) \in Seq(Events) /\ Len(Tail(hub.events)) = Len(hub.events) - 1
  BY <1>1
<1>3. ASSUME Len(hub.events) > 1 PROVE Tail(hub.events) # <<>>
  <2> DEFINE n == Len(hub.events)
  <2>0. n \in Nat /\ n > 1
    BY <1>1, <1>3
  <2>1. n - 1 # 0
    <3> HIDE DEF n
    <3> QED BY <2>0
  <2>2. Len(<<>>) = 0
    OBVIOUS
  <2> QED BY <1>2, <2>1, <2>2
<1> QED BY <1>2, <1>3 DEF NextEvent, HubStates

(* Where the run goroutine goes, and for whom it chose the event.          *)
LEMMA HubMoves ==
  ASSUME Shape, QuietStep
  PROVE  /\ hub' \in HubStates
         /\ hub'.pc \in {"event", "decide", "fanout"} => hub'.events # <<>>
         /\ \A c \in hub'.targets :
              c \in hub.targets \/ (c \in clients /\ chatIDs[c] # {})
<1> USE DEF Shape
<1>1. CASE Emit
  BY <1>1 DEF Emit
<1>2. CASE Dequeue
  <2>1. CASE Head(eventQueue).isSync
    <3>1. Head(eventQueue) \in Syncs
      BY <1>2 DEF Dequeue
    <3>2. PICK order \in DomainEventOrders(Head(eventQueue)) :
            hub' = [pc |-> IF order = <<>> THEN "idle" ELSE "event",
                    events |-> order, targets |-> {}]
      BY <1>2, <2>1 DEF Dequeue
    <3>3. order \in Seq(Events)
      BY <2>1, <3>1, EventsFacts
    <3> QED BY <3>2, <3>3 DEF HubStates
  <2>2. CASE ~Head(eventQueue).isSync
    BY <1>2, <2>2 DEF Dequeue
  <2> QED BY <2>1, <2>2
<1>3. CASE Keepalive
  <2>1. hub' = [hub EXCEPT !.pc = "ping"]
    BY <1>3 DEF Keepalive
  <2> QED BY <2>1 DEF HubStates
<1>4. CASE Snapshot
  <2>1. hub.events # <<>>
    BY <1>4 DEF Snapshot
  <2>2. CASE hub' = NextEvent
    BY <2>1, <2>2, NextEventShape
  <2>3. CASE hub' = [hub EXCEPT !.pc = "decide",
                        !.targets = SubscribedTargets(Head(hub.events).chatID)]
    <3>1. \A c \in SubscribedTargets(Head(hub.events).chatID) :
            c \in clients /\ chatIDs[c] # {}
      BY DEF SubscribedTargets, IsSubscribed
    <3>2. SubscribedTargets(Head(hub.events).chatID) \in SUBSET Clients
      BY DEF SubscribedTargets
    <3> QED BY <2>1, <2>3, <3>1, <3>2 DEF HubStates
  <2> QED BY <1>4, <2>2, <2>3 DEF Snapshot
<1>5. CASE HydrateFails
  <2>1. hub.events # <<>> /\ hub' = NextEvent
    BY <1>5 DEF HydrateFails
  <2> QED BY <2>1, NextEventShape
<1>6. CASE Decide
  <2>1. hub.events # <<>>
    BY <1>6 DEF Decide
  <2>2. CASE hub' = NextEvent
    BY <2>1, <2>2, NextEventShape
  <2>3. CASE hub' = [hub EXCEPT !.pc = "fanout"]
    BY <2>1, <2>3 DEF HubStates
  <2> QED BY <1>6, <2>2, <2>3 DEF Decide
<1>7. CASE FanOutDone
  <2>1. hub.events # <<>> /\ hub' = NextEvent
    BY <1>7 DEF FanOutDone
  <2> QED BY <2>1, NextEventShape
<1>8. CASE PingsDone
  <2>1. hub' = NotProcessing
    BY <1>8 DEF PingsDone
  <2> QED BY <2>1 DEF NotProcessing, HubStates
<1> QED
  BY <1>1, <1>2, <1>3, <1>4, <1>5, <1>6, <1>7, <1>8 DEF QuietStep

LEMMA QueueMoves ==
  ASSUME Shape, QuietStep
  PROVE  /\ eventQueue' \in Seq(Syncs) /\ Len(eventQueue') <= QueueSize
         /\ (Window!WindowTypeOK)'
<1> USE HubAssumption DEF Shape
<1>1. CASE Emit
  <2>1. PICK s \in Syncs :
          eventQueue' = IF Len(eventQueue) < QueueSize THEN Append(eventQueue, s)
                                                       ELSE eventQueue
    BY <1>1 DEF Emit
  <2>2. Append(eventQueue, s) \in Seq(Syncs)
        /\ Len(Append(eventQueue, s)) = Len(eventQueue) + 1
    OBVIOUS
  <2>3. eventQueue' \in Seq(Syncs) /\ Len(eventQueue') <= QueueSize
    BY <2>1, <2>2
  <2> QED BY <1>1, <2>3 DEF Emit, windowState, Window!WindowTypeOK
<1>2. CASE Dequeue
  <2>1. eventQueue # <<>> /\ eventQueue' = Tail(eventQueue)
    BY <1>2 DEF Dequeue
  <2>2. Tail(eventQueue) \in Seq(Syncs) /\ Len(Tail(eventQueue)) = Len(eventQueue) - 1
    BY <2>1
  <2>3. eventQueue' \in Seq(Syncs) /\ Len(eventQueue') <= QueueSize
    BY <2>1, <2>2
  <2> QED BY <1>2, <2>3 DEF Dequeue, windowState, Window!WindowTypeOK
<1>3. CASE Snapshot
  <2>1. eventQueue' = eventQueue /\ recent' \subseteq recent /\ verdict' = verdict
    BY <1>3 DEF Snapshot, windowState, Window!Expire
  <2> QED BY <2>1 DEF Window!WindowTypeOK
<1>4. CASE Decide
  <2>1. PICK body \in Bodies \union {NoBody} :
          Window!Offer([event |-> Head(hub.events), body |-> body])
    BY <1>4 DEF Decide
  <2>2. Head(hub.events) \in Events
    BY <1>4 DEF Decide, HubStates
  <2>3. [event |-> Head(hub.events), body |-> body] \in Fingerprints
    BY <2>2 DEF Fingerprints
  <2>4. (Window!WindowTypeOK)'
    BY <2>1, <2>3 DEF Window!Offer, Window!WindowTypeOK, Window!Verdicts
  <2> QED BY <1>4, <2>4 DEF Decide
<1>5. CASE Keepalive \/ HydrateFails \/ FanOutDone \/ PingsDone
  <2>1. UNCHANGED eventQueue /\ UNCHANGED windowState
    BY <1>5 DEF Keepalive, HydrateFails, FanOutDone, PingsDone
  <2> QED BY <2>1 DEF windowState, Window!WindowTypeOK
<1> QED BY <1>1, <1>2, <1>3, <1>4, <1>5 DEF QuietStep

(* The hub, about to write an event to one of its targets.                 *)
FanOutTo(c) ==
  /\ c \in hub.targets
  /\ seq' = [seq EXCEPT ![c] = @ + 1]
  /\ out' = [out EXCEPT ![Hub] = WriteTo(c, DomainMessage(Head(hub.events), seq[c] + 1))]
  /\ hub' = [hub EXCEPT !.targets = @ \ {c}]

LEMMA FanOutFacts ==
  ASSUME Shape, FanOut
  PROVE  /\ out[Hub].phase = "none"
         /\ \E c \in Clients, m \in Messages :
              /\ m.type # "ready"
              /\ c \in hub.targets
              /\ out' = [out EXCEPT ![Hub] = WriteTo(c, m)]
         /\ hub' \in HubStates
         /\ hub'.pc \in {"event", "decide", "fanout"} => hub'.events # <<>>
         /\ hub'.targets \subseteq hub.targets
         /\ seq' \in [Clients -> Nat]
         /\ UNCHANGED <<clients, chatIDs, eventQueue, reader, conn, wire, recent,
                        verdict, closeCalls>>
<1> USE DEF Shape
<1>1. PICK c \in hub.targets : FanOutTo(c)
  BY DEF FanOut, FanOutTo
<1>2. c \in Clients
  BY DEF HubStates
<1>3. Head(hub.events) \in Events
  BY DEF FanOut, HubStates
<1>4. seq[c] + 1 \in Nat
  BY <1>2
<1>5. /\ DomainMessage(Head(hub.events), seq[c] + 1) \in Messages
      /\ DomainMessage(Head(hub.events), seq[c] + 1).type # "ready"
  BY <1>3, <1>4, MessageTypes
<1>6. seq' \in [Clients -> Nat]
  BY <1>1, <1>2 DEF FanOutTo
<1>7. /\ hub' \in HubStates
      /\ hub'.pc \in {"event", "decide", "fanout"} => hub'.events # <<>>
      /\ hub'.targets \subseteq hub.targets
  BY <1>1 DEF FanOutTo, HubStates
<1>8. /\ out[Hub].phase = "none"
      /\ UNCHANGED <<clients, chatIDs, eventQueue, reader, conn, wire, recent,
                     verdict, closeCalls>>
  BY DEF FanOut, windowState
<1>9. out' = [out EXCEPT ![Hub] = WriteTo(c, DomainMessage(Head(hub.events), seq[c] + 1))]
  BY <1>1 DEF FanOutTo
<1> QED BY <1>2, <1>5, <1>6, <1>7, <1>8, <1>9

LEMMA NextCases ==
  Next => \/ QuietStep
          \/ FanOut
          \/ \E w \in Writers : WriteStep(w)
          \/ \E c \in Clients : ConnectionStep(c)
BY DEF Next, QuietStep, RunStep, ConnectionStep

LEMMA ShapeStep == Shape /\ [Next]_vars => Shape'
<1> SUFFICES ASSUME Shape, [Next]_vars PROVE Shape' OBVIOUS
<1>1. CASE QuietStep
  BY <1>1, QuietFrame, HubMoves, QueueMoves DEF Shape, perClient
<1>2. CASE FanOut
  <2>1. out' \in [Writers -> Writes]
    <3>1. PICK c \in Clients, m \in Messages :
            out' = [out EXCEPT ![Hub] = WriteTo(c, m)]
      BY <1>2, FanOutFacts
    <3>2. WriteTo(c, m) \in Writes
      BY WriteFacts
    <3> QED BY <3>1, <3>2 DEF Shape
  <2> QED BY <1>2, <2>1, FanOutFacts DEF Shape, Window!WindowTypeOK
<1>3. CASE \E w \in Writers : WriteStep(w)
  BY <1>3, ShapeWrite
<1>4. CASE \E c \in Clients : ConnectionStep(c)
  BY <1>4, ShapeConnection
<1>5. CASE UNCHANGED vars
  BY <1>5 DEF vars, Shape, Window!WindowTypeOK
<1> QED BY <1>1, <1>2, <1>3, <1>4, <1>5, NextCases

LEMMA ShapeTypes == Shape => TypeOK
<1> SUFFICES ASSUME Shape PROVE TypeOK OBVIOUS
<1>1. \A w \in Writers : out[w].phase \in Phases
  BY WriteFacts DEF Shape
<1>2. /\ hub.pc \in {"idle", "event", "decide", "fanout", "ping"}
      /\ hub.targets \subseteq Clients
  BY DEF Shape, HubStates
<1>3. \A c \in Clients :
        reader[c].pc \in {"new", "reading", "valid", "invalid", "subscribe", "closing"}
  BY DEF Shape, ReaderStates
<1> QED BY <1>1, <1>2, <1>3 DEF Shape, TypeOK, Kept

(* Every variable keeps its type: no client ever holds a blank chat ID or  *)
(* the wildcard together with another one, and the queue keeps its bound.  *)
THEOREM TypeCorrect == Spec => []TypeOK
BY InitShape, ShapeStep, ShapeTypes, PTL DEF Spec
-----------------------------------------------------------------------------
(* The transport is closed once.                                           *)

LEMMA InitClosing == Init => Closing
BY SelfWriter DEF Init, Closing, ClosingBy, NoWrite, Reader

(* Most steps make nobody close a client.                                  *)
LEMMA ClosingKept ==
  ASSUME Closing,
         closeCalls' = closeCalls,
         clients' \subseteq clients,
         \A c \in Clients : reader'[c].pc = "new" <=> reader[c].pc = "new",
         \A w \in Writers, c \in Clients : ClosingBy(w, c)' => ClosingBy(w, c)
  PROVE  Closing'
BY DEF Closing, ClosingBy

LEMMA ClosingWrite ==
  ASSUME Shape, Closing, NEW w \in Writers, WriteStep(w)
  PROVE  Closing'
<1> USE SelfWriter, WriteFacts
<1>0. out \in [Writers -> Writes] /\ closeCalls \in [Clients -> Nat]
  BY DEF Shape
<1>1. CASE BeginSend(w) \/ SendOK(w) \/ SendFail(w)
  <2>1. closeCalls' = closeCalls /\ clients' = clients /\ reader' = reader
    BY <1>1 DEF BeginSend, SendOK, SendFail
  <2>2. \A v \in Writers \ {w} : out'[v] = out[v]
    BY <1>0, <1>1 DEF BeginSend, SendOK, SendFail
  <2>3. out'[w].phase # "close"
    <3>1. CASE BeginSend(w)
      <4>1. out' = [out EXCEPT ![w] = [out[w] EXCEPT !.phase = "send"]]
        BY <3>1 DEF BeginSend
      <4>2. out'[w] = [out[w] EXCEPT !.phase = "send"] /\ out[w].phase = "lock"
        BY <1>0, <3>1, <4>1 DEF BeginSend
      <4> QED BY <1>0, <4>2
    <3>2. CASE SendOK(w)
      BY <1>0, <3>2 DEF SendOK
    <3>3. CASE SendFail(w)
      <4>1. out'[w] = UnregisterOf(out[w].to) /\ out[w].to \in Clients
        BY <1>0, <3>3 DEF SendFail
      <4> QED BY <4>1
    <3> QED BY <1>1, <3>1, <3>2, <3>3
  <2>4. \A v \in Writers, c \in Clients : ClosingBy(v, c)' => ClosingBy(v, c)
    BY <2>2, <2>3 DEF ClosingBy
  <2> QED BY <2>1, <2>4, ClosingKept
<1>2. CASE Unregister(w)
  <2> DEFINE t == out[w].to
  <2>1. t \in Clients
    BY <1>0, <1>2 DEF Unregister
  <2>2. /\ clients' = clients \ {t}
        /\ closeCalls' = closeCalls
        /\ reader' = reader
        /\ \A v \in Writers \ {w} : out'[v] = out[v]
        /\ out'[w] = IF t \in clients THEN [phase |-> "close", to |-> t] ELSE NoWrite
    BY <1>0, <1>2 DEF Unregister
  <2>3. CASE t \notin clients
    <3>1. \A v \in Writers, c \in Clients : ClosingBy(v, c)' => ClosingBy(v, c)
      BY <2>2, <2>3 DEF ClosingBy
    <3> QED BY <2>2, <3>1, ClosingKept
  <2>4. CASE t \in clients
    <3>1. closeCalls[t] = 0 /\ reader[t].pc # "new" /\ \A v \in Writers : ~ClosingBy(v, t)
      BY <2>1, <2>4 DEF Closing
    <3>2. \A v \in Writers, c \in Clients :
            ClosingBy(v, c)' => (v = w /\ c = t) \/ (v # w /\ ClosingBy(v, c))
      BY <2>2, <2>4 DEF ClosingBy
    <3> HIDE DEF t
    <3> QED BY <2>2, <3>1, <3>2 DEF Closing
  <2> QED BY <2>3, <2>4
<1>3. CASE CloseTransport(w)
  <2> DEFINE t == out[w].to
  <2>1. t \in Clients /\ ClosingBy(w, t)
    BY <1>0, <1>3 DEF CloseTransport, ClosingBy
  <2>2. /\ clients' = clients
        /\ closeCalls' = [closeCalls EXCEPT ![t] = @ + 1]
        /\ reader' = reader
        /\ \A v \in Writers \ {w} : out'[v] = out[v]
        /\ out'[w].phase = "none"
    BY <1>0, <1>3 DEF CloseTransport
  <2>3. /\ t \notin clients /\ closeCalls[t] = 0 /\ reader[t].pc # "new"
        /\ \A v \in Writers : ClosingBy(v, t) => v = w
    BY <2>1 DEF Closing
  <2>4. \A v \in Writers, c \in Clients : ClosingBy(v, c)' => v # w /\ ClosingBy(v, c)
    BY <2>2 DEF ClosingBy
  <2>5. closeCalls'[t] = 1 /\ \A c \in Clients \ {t} : closeCalls'[c] = closeCalls[c]
    BY <1>0, <2>1, <2>2, <2>3
  <2> HIDE DEF t
  <2> QED BY <2>2, <2>3, <2>4, <2>5 DEF Closing
<1> QED BY <1>1, <1>2, <1>3 DEF WriteStep

LEMMA ClosingConnection ==
  ASSUME Shape, Closing, NEW c \in Clients, ConnectionStep(c)
  PROVE  Closing'
<1> USE SelfWriter, WriteFacts, ReaderFacts, MessageTypes
<1>0. out \in [Writers -> Writes] /\ reader \in [Clients -> ReaderStates]
  BY DEF Shape
<1>1. CASE Open(c)
  <2>1. /\ clients' = clients \union {c}
        /\ closeCalls' = closeCalls
        /\ reader[c].pc = "new"
        /\ \A d \in Clients \ {c} : reader'[d] = reader[d]
        /\ reader'[c].pc = "reading"
        /\ \A v \in Writers \ {c} : out'[v] = out[v]
        /\ out'[c].phase = "lock"
    BY <1>0, <1>1 DEF Open
  <2>2. \A v \in Writers, d \in Clients : ClosingBy(v, d)' => ClosingBy(v, d) /\ d # c
    BY <2>1 DEF Closing, ClosingBy
  <2> QED BY <2>1, <2>2 DEF Closing
<1>2. CASE ReadText(c) \/ ReadBinary(c) \/ PeerGone(c) \/ ReaderStep(c)
  <2>1. /\ clients' = clients
        /\ closeCalls' = closeCalls
        /\ \A v \in Writers \ {c} : out'[v] = out[v]
        /\ \A d \in Clients \ {c} : reader'[d] = reader[d]
    BY <1>0, <1>2
       DEF ReadText, ReadBinary, PeerGone, ReaderStep, LookUp, SetSubscriptions, ReadFails
  <2>2. out'[c] = out[c] \/ out'[c].phase # "close"
    <3>1. CASE ReadText(c) \/ ReadBinary(c) \/ PeerGone(c)
      BY <3>1 DEF ReadText, ReadBinary, PeerGone
    <3>2. CASE LookUp(c)
      <4>1. out' = out \/ out'[c] = UnregisterOf(c) \/ out'[c] = WriteTo(c, Error)
        BY <1>0, <3>2 DEF LookUp
      <4> QED BY <4>1
    <3>3. CASE SetSubscriptions(c)
      <4>1. reader[c].chats \in SUBSET Kept
        BY <1>0
      <4>2. out'[c] = WriteTo(c, Ack(reader[c].chats))
        BY <1>0, <3>3 DEF SetSubscriptions
      <4> QED BY <4>1, <4>2
    <3>4. CASE ReadFails(c)
      <4>1. out'[c] = UnregisterOf(c)
        BY <1>0, <3>4 DEF ReadFails
      <4> QED BY <4>1
    <3> QED BY <1>2, <3>1, <3>2, <3>3, <3>4 DEF ReaderStep
  <2>3. reader'[c].pc = "new" <=> reader[c].pc = "new"
    <3>1. CASE ReadBinary(c) \/ PeerGone(c)
      BY <3>1 DEF ReadBinary, PeerGone
    <3>2. CASE ReadText(c)
      BY <1>0, <3>2 DEF ReadText, CanRead
    <3>3. CASE LookUp(c)
      BY <1>0, <3>3 DEF LookUp
    <3>4. CASE SetSubscriptions(c) \/ ReadFails(c)
      BY <1>0, <3>4 DEF SetSubscriptions, ReadFails, CanRead
    <3> QED BY <1>2, <3>1, <3>2, <3>3, <3>4 DEF ReaderStep
  <2>4. \A v \in Writers, d \in Clients : ClosingBy(v, d)' => ClosingBy(v, d)
    BY <2>1, <2>2 DEF ClosingBy
  <2> QED BY <2>1, <2>3, <2>4, ClosingKept
<1> QED BY <1>1, <1>2 DEF ConnectionStep

LEMMA ClosingStep == Shape /\ Closing /\ [Next]_vars => Closing'
<1> SUFFICES ASSUME Shape, Closing, [Next]_vars PROVE Closing' OBVIOUS
<1>1. CASE QuietStep
  BY <1>1, QuietFrame DEF Closing, ClosingBy, perClient
<1>2. CASE FanOut
  <2>1. /\ UNCHANGED <<clients, reader, closeCalls>>
        /\ \A v \in Writers \ {Hub} : out'[v] = out[v]
        /\ out'[Hub].phase = "lock"
    BY <1>2, FanOutFacts, WriteFacts, SelfWriter DEF Shape
  <2>2. \A v \in Writers, d \in Clients : ClosingBy(v, d)' => ClosingBy(v, d)
    BY <2>1 DEF ClosingBy
  <2> QED BY <2>1, <2>2, ClosingKept
<1>3. CASE \E w \in Writers : WriteStep(w)
  BY <1>3, ClosingWrite
<1>4. CASE \E c \in Clients : ConnectionStep(c)
  BY <1>4, ClosingConnection
<1>5. CASE UNCHANGED vars
  BY <1>5 DEF vars, Closing, ClosingBy
<1> QED BY <1>1, <1>2, <1>3, <1>4, <1>5, NextCases

(* A transport is closed at most once, by the one goroutine that took its  *)
(* client out of the map, however many found it dead.                      *)
THEOREM CloseOnce == Spec => []ClosedOnce
<1>1. Closing => ClosedOnce
  BY DEF Closing, ClosedOnce
<1> QED BY <1>1, InitShape, ShapeStep, InitClosing, ClosingStep, PTL DEF Spec
-----------------------------------------------------------------------------
(* ready comes first.                                                      *)

LEMMA InitGreeting == Init => Greeting
<1> SUFFICES ASSUME Init, NEW c \in Clients PROVE Greeted(c)
  BY DEF Greeting
<1>1. \A w \in Writers : out[w].phase = "none"
  BY DEF Init, NoWrite
<1>2. reader[c].pc = "new" /\ wire[c] = <<>> /\ chatIDs[c] = {} /\ hub.targets = {}
  BY DEF Init, Reader, NotProcessing
<1> QED BY <1>1, <1>2, SelfWriter DEF Greeted, Pending, WritingTo

(* A step that sends c nothing, starts no ready and chooses c for an event *)
(* only if c has subscriptions.                                            *)
LEMMA GreetedKept ==
  ASSUME NEW c \in Clients, Greeted(c),
         wire'[c] = wire[c],
         conn[c] = "gone" => conn'[c] = "gone",
         c \in hub'.targets => c \in hub.targets \/ chatIDs[c] # {},
         reader'[c].pc = "new" <=> reader[c].pc = "new",
         reader[c].pc = "new" \/ Pending(c) => chatIDs'[c] = {},
         Pending(c)' <=> Pending(c),
         Pending(c) => reader'[c].pc = reader[c].pc,
         reader[c].pc = "new" => out'[c] = out[c],
         \A w \in Writers : WritingTo(w, c)' =>
           \/ WritingTo(w, c) /\ out'[w].msg = out[w].msg
           \/ out'[w].msg.type # "ready" /\ reader[c].pc # "new" /\ ~Pending(c)
  PROVE  Greeted(c)'
<1>1. ASSUME (reader[c].pc = "new" \/ Pending(c))'
      PROVE  /\ wire'[c] = <<>> /\ chatIDs'[c] = {} /\ c \notin hub'.targets
             /\ \A w \in Writers : WritingTo(w, c)' => w = c
  <2>1. reader[c].pc = "new" \/ Pending(c)
    BY <1>1
  <2> QED BY <2>1 DEF Greeted
<1>2. reader'[c].pc = "new" => out'[c].phase = "none"
  BY DEF Greeted
<1>3. Pending(c)' => reader'[c].pc = "reading"
  BY DEF Greeted
<1>4. \A w \in Writers : WritingTo(w, c)' /\ out'[w].msg.type = "ready" => w = c
  BY DEF Greeted
<1>5. reader'[c].pc # "new" /\ ~Pending(c)' /\ wire'[c] = <<>> => conn'[c] = "gone"
  BY DEF Greeted
<1>6. \A i \in DOMAIN wire'[c] : wire'[c][i].type = "ready" <=> i = 1
  BY DEF Greeted
<1> QED BY <1>1, <1>2, <1>3, <1>4, <1>5, <1>6 DEF Greeted

(* A message that is not ready, received after the first one.              *)
LEMMA GreetedMore ==
  ASSUME NEW c \in Clients, Greeted(c), wire[c] \in Seq(Messages),
         NEW m \in Messages, m.type # "ready",
         reader[c].pc # "new", ~Pending(c), conn[c] = "up",
         wire'[c] = Append(wire[c], m),
         reader'[c].pc = reader[c].pc, ~Pending(c)',
         \A w \in Writers : WritingTo(w, c)' =>
           WritingTo(w, c) /\ out'[w].msg = out[w].msg
  PROVE  Greeted(c)'
<1>1. wire[c] # <<>>
  BY DEF Greeted
<1>2. /\ Len(wire[c]) \in Nat /\ Len(wire[c]) # 0
      /\ DOMAIN wire[c] = 1..Len(wire[c])
      /\ DOMAIN wire'[c] = 1..(Len(wire[c]) + 1)
      /\ \A i \in 1..Len(wire[c]) : wire'[c][i] = wire[c][i]
      /\ wire'[c][Len(wire[c]) + 1] = m
  BY <1>1
<1>3. wire'[c] # <<>>
  BY <1>2
<1>4. \A i \in DOMAIN wire'[c] : wire'[c][i].type = "ready" <=> i = 1
  <2> SUFFICES ASSUME NEW i \in DOMAIN wire'[c]
               PROVE  wire'[c][i].type = "ready" <=> i = 1
    OBVIOUS
  <2>1. CASE i \in 1..Len(wire[c])
    BY <1>2, <2>1 DEF Greeted
  <2>2. CASE i = Len(wire[c]) + 1
    <3>1. i # 1
      BY <1>2, <2>2
    <3> QED BY <1>2, <2>2, <3>1
  <2> QED BY <1>2, <2>1, <2>2
<1> QED BY <1>3, <1>4 DEF Greeted

LEMMA GreetingWrite ==
  ASSUME Shape, Greeting, NEW w \in Writers, WriteStep(w)
  PROVE  Greeting'
<1> USE SelfWriter, WriteFacts
<1>0. /\ out \in [Writers -> Writes] /\ wire \in [Clients -> Seq(Messages)]
      /\ conn \in [Clients -> {"up", "gone"}]
  BY DEF Shape
<1> SUFFICES ASSUME NEW c \in Clients PROVE Greeted(c)'
  BY DEF Greeting
<1> DEFINE t == out[w].to
<1>1. Greeted(c)
  BY DEF Greeting
<1>2. /\ UNCHANGED <<chatIDs, reader, hub>>
      /\ \A v \in Writers \ {w} : out'[v] = out[v]
  BY <1>0 DEF WriteStep, BeginSend, SendOK, SendFail, Unregister, CloseTransport
<1>3. \A v \in Writers \ {w} : /\ WritingTo(v, c)' <=> WritingTo(v, c)
                               /\ out'[v].msg = out[v].msg
  BY <1>2 DEF WritingTo
<1>4. reader[c].pc = "new" => w # c
  BY <1>1 DEF Greeted, WriteStep, BeginSend, SendOK, SendFail, Unregister, CloseTransport
<1>5. CASE BeginSend(w)
  <2>1. out' = [out EXCEPT ![w] = [out[w] EXCEPT !.phase = "send"]]
    BY <1>5 DEF BeginSend
  <2>2. out'[w] = [out[w] EXCEPT !.phase = "send"] /\ out[w].phase = "lock"
    BY <1>0, <1>5, <2>1 DEF BeginSend
  <2>3. WritingTo(w, c)' <=> WritingTo(w, c)
    BY <1>0, <2>2 DEF WritingTo
  <2>4. out'[w].msg = out[w].msg
    BY <1>0, <2>2
  <2>5. Pending(c)' <=> Pending(c)
    BY <1>3, <2>3, <2>4 DEF Pending
  <2>6. wire' = wire /\ conn' = conn
    BY <1>5 DEF BeginSend
  <2> QED BY <1>1, <1>2, <1>3, <1>4, <2>3, <2>4, <2>5, <2>6, GreetedKept
             DEF Greeted, Pending
<1>6. CASE Unregister(w) \/ CloseTransport(w)
  <2>1. ~WritingTo(w, c) /\ ~WritingTo(w, c)'
    <3>1. out[w].phase \in {"unregister", "close"} /\ t \in Clients
      BY <1>0, <1>6 DEF Unregister, CloseTransport
    <3>2. out'[w] = NoWrite \/ out'[w].phase = "close"
      BY <1>0, <1>6 DEF Unregister, CloseTransport
    <3> QED BY <3>1, <3>2 DEF WritingTo
  <2>2. Pending(c)' <=> Pending(c)
    BY <1>3, <2>1 DEF Pending
  <2>3. wire' = wire /\ (conn[c] = "gone" => conn'[c] = "gone")
    BY <1>0, <1>6 DEF Unregister, CloseTransport
  <2> QED BY <1>1, <1>2, <1>3, <1>4, <2>1, <2>2, <2>3, GreetedKept
             DEF Greeted, Pending
<1>7. CASE (SendOK(w) \/ SendFail(w)) /\ t # c
  <2>1. ~WritingTo(w, c) /\ ~WritingTo(w, c)'
    <3>1. out'[w] = NoWrite \/ out'[w] = UnregisterOf(t)
      BY <1>0, <1>7 DEF SendOK, SendFail
    <3>2. t \in Clients
      BY <1>0, <1>7 DEF SendOK, SendFail
    <3>3. out'[w].phase \notin {"lock", "send"}
      BY <3>1, <3>2
    <3> QED BY <1>7, <3>3 DEF WritingTo
  <2>2. Pending(c)' <=> Pending(c)
    BY <1>3, <2>1 DEF Pending
  <2>3. wire'[c] = wire[c] /\ conn'[c] = conn[c]
    BY <1>0, <1>7 DEF SendOK, SendFail
  <2> QED BY <1>1, <1>2, <1>3, <1>4, <2>1, <2>2, <2>3, GreetedKept
             DEF Greeted, Pending
<1>8. CASE SendFail(w) /\ t = c
  <2>1. conn'[c] = "gone" /\ wire' = wire
    BY <1>0, <1>8 DEF SendFail
  <2>2. out'[w] = UnregisterOf(c)
    BY <1>0, <1>8 DEF SendFail
  <2>3. ~WritingTo(w, c)'
    BY <2>2 DEF WritingTo
  <2>4. Pending(c)' => Pending(c)
    BY <1>3, <2>3 DEF Pending
  <2>5. reader'[c].pc = "new" => out'[c] = out[c]
    BY <1>2, <1>4
  <2> QED BY <1>1, <1>2, <1>3, <2>1, <2>3, <2>4, <2>5 DEF Greeted
<1>9. CASE SendOK(w) /\ t = c
  <2>1. /\ WritingTo(w, c) /\ ~WritingTo(w, c)'
        /\ conn[c] = "up" /\ conn' = conn
        /\ out[w].msg \in Messages
        /\ wire'[c] = Append(wire[c], out[w].msg)
    BY <1>0, <1>9 DEF SendOK, WritingTo
  <2>2. ~Pending(c)'
    <3>1. CASE w = c
      BY <2>1, <3>1 DEF Pending
    <3>2. CASE w # c
      BY <1>1, <1>3, <2>1, <3>2 DEF Greeted, Pending
    <3> QED BY <3>1, <3>2
  <2>3. reader[c].pc # "new"
    BY <1>1, <1>4, <2>1 DEF Greeted
  <2>4. CASE out[w].msg.type = "ready"
    <3>1. w = c /\ Pending(c)
      BY <1>1, <2>1, <2>4 DEF Greeted, Pending
    <3>2. wire[c] = <<>>
      BY <1>1, <3>1 DEF Greeted
    <3>3. wire'[c] = <<out[w].msg>>
      BY <2>1, <3>2
    <3>4. /\ wire'[c] # <<>>
          /\ \A i \in DOMAIN wire'[c] : wire'[c][i].type = "ready" <=> i = 1
      BY <2>4, <3>3
    <3> QED BY <1>1, <1>2, <1>3, <2>1, <2>2, <2>3, <3>4 DEF Greeted
  <2>5. CASE out[w].msg.type # "ready"
    <3>1. ~Pending(c)
      BY <1>1, <2>1, <2>5 DEF Greeted, Pending
    <3>2. \A v \in Writers : WritingTo(v, c)' =>
            WritingTo(v, c) /\ out'[v].msg = out[v].msg
      BY <1>3, <2>1
    <3>3. wire[c] \in Seq(Messages)
      BY <1>0
    <3> HIDE DEF t
    <3> QED BY <1>1, <1>2, <2>1, <2>2, <2>3, <2>5, <3>1, <3>2, <3>3, GreetedMore
  <2> QED BY <2>4, <2>5
<1> QED BY <1>5, <1>6, <1>7, <1>8, <1>9 DEF WriteStep

(* A step of the reader or the peer of one connection leaves the others.   *)
LEMMA GreetingElsewhere ==
  ASSUME NEW c \in Clients, NEW d \in Clients \ {c}, Greeted(d),
         UNCHANGED hub,
         wire'[d] = wire[d], conn'[d] = conn[d], chatIDs'[d] = chatIDs[d],
         reader'[d] = reader[d],
         \A w \in Writers \ {c} : out'[w] = out[w],
         ~WritingTo(c, d)'
  PROVE  Greeted(d)'
<1>1. \A w \in Writers : WritingTo(w, d)' => WritingTo(w, d) /\ out'[w].msg = out[w].msg
  BY DEF WritingTo
<1>2. out'[d] = out[d] /\ (Pending(d)' <=> Pending(d))
  BY SelfWriter DEF Pending, WritingTo
<1> QED BY <1>1, <1>2, GreetedKept DEF Greeted

LEMMA GreetingConnection ==
  ASSUME Shape, Greeting, NEW c \in Clients, ConnectionStep(c)
  PROVE  Greeting'
<1> USE SelfWriter, WriteFacts, ReaderFacts, MessageTypes
<1>0. /\ out \in [Writers -> Writes] /\ wire \in [Clients -> Seq(Messages)]
      /\ conn \in [Clients -> {"up", "gone"}] /\ reader \in [Clients -> ReaderStates]
      /\ DOMAIN chatIDs = Clients
  BY DEF Shape
<1>1. Greeted(c)
  BY DEF Greeting
<1>2. /\ UNCHANGED hub
      /\ \A w \in Writers \ {c} : out'[w] = out[w]
      /\ \A d \in Clients \ {c} : /\ wire'[d] = wire[d] /\ conn'[d] = conn[d]
                                  /\ chatIDs'[d] = chatIDs[d] /\ reader'[d] = reader[d]
  BY <1>0
     DEF ConnectionStep, Open, ReadText, ReadBinary, PeerGone, ReaderStep, LookUp,
         SetSubscriptions, ReadFails
<1>3. /\ out'[c] = out[c] \/ (\A d \in Clients \ {c} : ~WritingTo(c, d)')
      /\ Greeted(c)'
  <2>1. CASE Open(c)
    <3>1. /\ reader[c].pc = "new" /\ reader'[c].pc = "reading"
          /\ out'[c] = WriteTo(c, Ready)
          /\ chatIDs'[c] = {} /\ wire' = wire
      BY <1>0, <2>1 DEF Open
    <3>2. /\ WritingTo(c, c)' /\ Pending(c)'
          /\ \A d \in Clients \ {c} : ~WritingTo(c, d)'
      BY <3>1 DEF WritingTo, Pending
    <3>3. \A w \in Writers \ {c} : ~WritingTo(w, c)'
      BY <1>1, <1>2, <3>1 DEF Greeted, WritingTo
    <3> QED BY <1>1, <1>2, <3>1, <3>2, <3>3 DEF Greeted
  <2>2. CASE ReadText(c)
    <3>1. /\ out' = out /\ wire' = wire /\ conn' = conn /\ chatIDs' = chatIDs
          /\ reader[c].pc = "reading" /\ out[c].phase = "none"
          /\ reader'[c].pc # "new"
      BY <1>0, <2>2 DEF ReadText, CanRead
    <3>2. ~Pending(c) /\ ~Pending(c)'
      BY <3>1 DEF Pending, WritingTo
    <3>3. \A w \in Writers : WritingTo(w, c)' =>
            WritingTo(w, c) /\ out'[w].msg = out[w].msg
      BY <3>1 DEF WritingTo
    <3> QED BY <1>1, <1>2, <3>1, <3>2, <3>3, GreetedKept
  <2>3. CASE ReadBinary(c)
    <3>1. /\ out' = out /\ chatIDs' = chatIDs /\ reader' = reader
          /\ reader[c].pc = "reading" /\ out[c].phase = "none" /\ conn[c] = "up"
          /\ \/ wire'[c] = Append(wire[c], Error)
             \/ wire' = wire /\ conn'[c] = "gone"
      BY <1>0, <2>3 DEF ReadBinary, CanRead
    <3>2. ~Pending(c) /\ ~Pending(c)'
      BY <3>1 DEF Pending, WritingTo
    <3>3. \A w \in Writers : WritingTo(w, c)' =>
            WritingTo(w, c) /\ out'[w].msg = out[w].msg
      BY <3>1 DEF WritingTo
    <3>4. CASE wire'[c] = Append(wire[c], Error)
      BY <1>0, <1>1, <3>1, <3>2, <3>3, <3>4, GreetedMore
    <3>5. CASE wire' = wire /\ conn'[c] = "gone"
      BY <1>1, <1>2, <3>1, <3>2, <3>3, <3>5, GreetedKept
    <3> QED BY <3>1, <3>4, <3>5
  <2>4. CASE PeerGone(c)
    <3>1. /\ out' = out /\ chatIDs' = chatIDs /\ reader' = reader /\ wire' = wire
          /\ conn'[c] = "gone"
      BY <1>0, <2>4 DEF PeerGone
    <3>2. /\ Pending(c)' <=> Pending(c)
          /\ \A w \in Writers : WritingTo(w, c)' =>
               WritingTo(w, c) /\ out'[w].msg = out[w].msg
      BY <3>1 DEF Pending, WritingTo
    <3> QED BY <1>1, <1>2, <3>1, <3>2, GreetedKept DEF Greeted
  <2>5. CASE LookUp(c) \/ SetSubscriptions(c) \/ ReadFails(c)
    <3>1. /\ wire' = wire /\ conn' = conn /\ (LookUp(c) \/ ReadFails(c) => chatIDs' = chatIDs)
          /\ reader[c].pc # "new" /\ reader'[c].pc # "new"
      BY <1>0, <2>5 DEF LookUp, SetSubscriptions, ReadFails, CanRead
    <3>2. ~Pending(c)
      BY <1>1, <2>5 DEF Greeted, Pending, WritingTo, LookUp, SetSubscriptions, ReadFails, CanRead
    <3>3. \/ out'[c] = out[c]
          \/ out'[c] = UnregisterOf(c)
          \/ out'[c] = WriteTo(c, Error)
          \/ out'[c] = WriteTo(c, Ack(reader[c].chats))
      BY <1>0, <2>5 DEF LookUp, SetSubscriptions, ReadFails
    <3>4. reader[c].chats \in SUBSET Kept
      BY <1>0
    <3>5. \/ out'[c] = out[c]
          \/ /\ \A d \in Clients \ {c} : ~WritingTo(c, d)'
             /\ WritingTo(c, c)' => out'[c].msg.type # "ready"
      <4>1. CASE out'[c] = UnregisterOf(c)
        BY <4>1 DEF WritingTo
      <4>2. ASSUME NEW m \in Messages, m.type # "ready", out'[c] = WriteTo(c, m)
            PROVE  /\ \A d \in Clients \ {c} : ~WritingTo(c, d)'
                   /\ WritingTo(c, c)' => out'[c].msg.type # "ready"
        BY <4>2 DEF WritingTo
      <4> QED BY <3>3, <3>4, <4>1, <4>2
    <3>6. ~Pending(c)'
      BY <3>2, <3>5 DEF Pending, WritingTo
    <3>7. \A w \in Writers : WritingTo(w, c)' =>
            \/ WritingTo(w, c) /\ out'[w].msg = out[w].msg
            \/ out'[w].msg.type # "ready" /\ reader[c].pc # "new" /\ ~Pending(c)
      BY <1>2, <3>1, <3>2, <3>5 DEF WritingTo
    <3> QED BY <1>1, <1>2, <3>1, <3>2, <3>5, <3>6, <3>7, GreetedKept
  <2> QED BY <2>1, <2>2, <2>3, <2>4, <2>5 DEF ConnectionStep, ReaderStep
<1>4. ASSUME NEW d \in Clients \ {c} PROVE Greeted(d)'
  <2>1. Greeted(d)
    BY DEF Greeting
  <2>2. CASE ~WritingTo(c, d)'
    BY <1>2, <2>1, <2>2, GreetingElsewhere
  <2>3. CASE out'[c] = out[c]
    <3>1. \A w \in Writers : WritingTo(w, d)' =>
            WritingTo(w, d) /\ out'[w].msg = out[w].msg
      BY <1>2, <2>3 DEF WritingTo
    <3>2. Pending(d)' <=> Pending(d)
      BY <1>2 DEF Pending, WritingTo
    <3> QED BY <1>2, <2>1, <3>1, <3>2, GreetedKept DEF Greeted
  <2> QED BY <1>3, <2>2, <2>3
<1> QED BY <1>3, <1>4 DEF Greeting

LEMMA GreetingStep == Shape /\ Greeting /\ [Next]_vars => Greeting'
<1> SUFFICES ASSUME Shape, Greeting, [Next]_vars PROVE Greeting' OBVIOUS
<1>1. CASE QuietStep
  <2> SUFFICES ASSUME NEW c \in Clients PROVE Greeted(c)' BY DEF Greeting
  <2>1. UNCHANGED perClient
    BY <1>1, QuietFrame
  <2>2. c \in hub'.targets => c \in hub.targets \/ chatIDs[c] # {}
    BY <1>1, HubMoves
  <2>3. /\ Pending(c)' <=> Pending(c)
        /\ \A w \in Writers : WritingTo(w, c)' =>
             WritingTo(w, c) /\ out'[w].msg = out[w].msg
    BY <2>1 DEF perClient, Pending, WritingTo
  <2>4. Greeted(c)
    BY DEF Greeting
  <2> QED BY <2>1, <2>2, <2>3, <2>4, GreetedKept DEF perClient, Greeted
<1>2. CASE FanOut
  <2> SUFFICES ASSUME NEW c \in Clients PROVE Greeted(c)' BY DEF Greeting
  <2>1. PICK d \in Clients, m \in Messages :
          /\ m.type # "ready"
          /\ d \in hub.targets
          /\ out' = [out EXCEPT ![Hub] = WriteTo(d, m)]
    BY <1>2, FanOutFacts
  <2>2. /\ out'[Hub] = WriteTo(d, m)
        /\ \A w \in Writers \ {Hub} : out'[w] = out[w]
    BY <2>1, SelfWriter DEF Shape
  <2>3. Greeted(c) /\ Greeted(d)
    BY DEF Greeting
  <2>4. reader[d].pc # "new" /\ ~Pending(d)
    BY <2>1, <2>3 DEF Greeted
  <2>5. out'[c] = out[c] /\ (Pending(c)' <=> Pending(c))
    BY <2>2, SelfWriter DEF Pending, WritingTo
  <2>6. WritingTo(Hub, c)' => c = d /\ out'[Hub].msg.type # "ready"
    BY <2>1, <2>2, WriteFacts DEF WritingTo
  <2>7. \A w \in Writers : WritingTo(w, c)' =>
          \/ WritingTo(w, c) /\ out'[w].msg = out[w].msg
          \/ out'[w].msg.type # "ready" /\ reader[c].pc # "new" /\ ~Pending(c)
    BY <2>2, <2>4, <2>6 DEF WritingTo
  <2>8. /\ UNCHANGED <<chatIDs, reader, conn, wire>>
        /\ hub'.targets \subseteq hub.targets
    BY <1>2, FanOutFacts
  <2> QED BY <2>3, <2>5, <2>7, <2>8, GreetedKept DEF Greeted
<1>3. CASE \E w \in Writers : WriteStep(w)
  BY <1>3, GreetingWrite
<1>4. CASE \E c \in Clients : ConnectionStep(c)
  BY <1>4, GreetingConnection
<1>5. CASE UNCHANGED vars
  BY <1>5 DEF vars, Greeting, Greeted, Pending, WritingTo
<1> QED BY <1>1, <1>2, <1>3, <1>4, <1>5, NextCases

(* Every client receives ready first, and once: until it was written the   *)
(* client has no subscriptions, so the run goroutine cannot choose it, and *)
(* its own reader answers nothing.                                         *)
THEOREM ReadyComesFirst == Spec => []ReadyFirst
<1>1. Greeting => ReadyFirst
  BY DEF Greeting, Greeted, ReadyFirst
<1> QED BY <1>1, InitShape, ShapeStep, InitGreeting, GreetingStep, PTL DEF Spec
-----------------------------------------------------------------------------
(* What the steps of a write and of a reader do, client by client.  The    *)
(* rest of this module reasons about these, not about the actions.         *)

WriteFrame(w) ==
  /\ out[w].to \in Clients
  /\ UNCHANGED <<chatIDs, seq, log, hub, reader>>
  /\ \A v \in Writers \ {w} : out'[v] = out[v]

Starts(w) ==
  /\ out[w].phase = "lock" /\ out'[w].phase = "send"
  /\ out'[w].to = out[w].to /\ out'[w].msg = out[w].msg
  /\ UNCHANGED <<wire, conn, clients>>

Delivers(w) ==
  /\ out[w].phase = "send" /\ out'[w].phase = "none"
  /\ out[w].msg \in Messages
  /\ conn[out[w].to] = "up"
  /\ wire'[out[w].to] = Append(wire[out[w].to], out[w].msg)
  /\ \A c \in Clients \ {out[w].to} : wire'[c] = wire[c]
  /\ UNCHANGED <<conn, clients>>

Breaks(w) ==
  /\ out[w].phase = "send" /\ out'[w].phase = "unregister" /\ out'[w].to = out[w].to
  /\ conn'[out[w].to] = "gone"
  /\ \A c \in Clients \ {out[w].to} : conn'[c] = conn[c]
  /\ UNCHANGED <<wire, clients>>

Removes(w) ==
  /\ out[w].phase = "unregister"
  /\ \/ out'[w].phase = "none"
     \/ out'[w].phase = "close" /\ out'[w].to = out[w].to
  /\ clients' = clients \ {out[w].to}
  /\ UNCHANGED <<wire, conn>>

Closes(w) ==
  /\ out[w].phase = "close" /\ out'[w].phase = "none"
  /\ conn'[out[w].to] = "gone"
  /\ \A c \in Clients \ {out[w].to} : conn'[c] = conn[c]
  /\ UNCHANGED <<wire, clients>>

LEMMA WriteEffects ==
  ASSUME Shape, NEW w \in Writers, WriteStep(w)
  PROVE  /\ WriteFrame(w)
         /\ Starts(w) \/ Delivers(w) \/ Breaks(w) \/ Removes(w) \/ Closes(w)
<1> USE SelfWriter, WriteFacts
<1>0. /\ out \in [Writers -> Writes] /\ wire \in [Clients -> Seq(Messages)]
      /\ conn \in [Clients -> {"up", "gone"}]
  BY DEF Shape
<1>1. out[w].to \in Clients
  BY <1>0 DEF WriteStep, BeginSend, SendOK, SendFail, Unregister, CloseTransport
<1>2. /\ UNCHANGED <<chatIDs, seq, log, hub, reader>>
      /\ \A v \in Writers \ {w} : out'[v] = out[v]
  BY <1>0 DEF WriteStep, BeginSend, SendOK, SendFail, Unregister, CloseTransport,
              streamVars
<1>3. CASE BeginSend(w)
  <2>1. out' = [out EXCEPT ![w] = [out[w] EXCEPT !.phase = "send"]]
    BY <1>3 DEF BeginSend
  <2>2. out'[w] = [out[w] EXCEPT !.phase = "send"] /\ out[w].phase = "lock"
    BY <1>0, <1>3, <2>1 DEF BeginSend
  <2>3. /\ out'[w].phase = "send" /\ out'[w].to = out[w].to
        /\ out'[w].msg = out[w].msg
    BY <1>0, <2>2
  <2>4. UNCHANGED <<wire, conn, clients>>
    BY <1>3 DEF BeginSend
  <2> QED BY <1>1, <1>2, <2>2, <2>3, <2>4 DEF WriteFrame, Starts
<1>4. CASE SendOK(w)
  <2>1. /\ out[w].phase = "send" /\ out'[w] = NoWrite /\ out[w].msg \in Messages
        /\ conn[out[w].to] = "up" /\ UNCHANGED <<conn, clients>>
    BY <1>0, <1>4 DEF SendOK
  <2>2. wire' = [wire EXCEPT ![out[w].to] = Append(@, out[w].msg)]
    BY <1>4 DEF SendOK
  <2>3. /\ wire'[out[w].to] = Append(wire[out[w].to], out[w].msg)
        /\ \A c \in Clients \ {out[w].to} : wire'[c] = wire[c]
    BY <1>0, <1>1, <2>2
  <2> QED BY <1>1, <1>2, <2>1, <2>3 DEF WriteFrame, Delivers
<1>5. CASE SendFail(w)
  <2>1. /\ out[w].phase = "send" /\ out'[w] = UnregisterOf(out[w].to)
        /\ UNCHANGED <<wire, clients>>
        /\ conn' = [conn EXCEPT ![out[w].to] = "gone"]
    BY <1>0, <1>5 DEF SendFail
  <2>2. out'[w].phase = "unregister" /\ out'[w].to = out[w].to
    BY <2>1 DEF UnregisterOf
  <2>3. /\ conn'[out[w].to] = "gone"
        /\ \A c \in Clients \ {out[w].to} : conn'[c] = conn[c]
    BY <1>0, <1>1, <2>1
  <2> QED BY <1>1, <1>2, <2>1, <2>2, <2>3 DEF WriteFrame, Breaks
<1>6. CASE Unregister(w)
  <2>1. /\ out[w].phase = "unregister" /\ clients' = clients \ {out[w].to}
        /\ UNCHANGED <<wire, conn>>
        /\ \/ out'[w] = NoWrite
           \/ out'[w] = [phase |-> "close", to |-> out[w].to]
    BY <1>0, <1>6 DEF Unregister
  <2> QED BY <1>1, <1>2, <2>1 DEF WriteFrame, Removes
<1>7. CASE CloseTransport(w)
  <2>1. /\ out[w].phase = "close" /\ out'[w] = NoWrite
        /\ UNCHANGED <<wire, clients>>
        /\ conn' = [conn EXCEPT ![out[w].to] = "gone"]
    BY <1>0, <1>7 DEF CloseTransport
  <2>2. /\ conn'[out[w].to] = "gone"
        /\ \A c \in Clients \ {out[w].to} : conn'[c] = conn[c]
    BY <1>0, <1>1, <2>1
  <2> QED BY <1>1, <1>2, <2>1, <2>2 DEF WriteFrame, Closes
<1> QED BY <1>3, <1>4, <1>5, <1>6, <1>7 DEF WriteStep

ReaderFrame(c) ==
  /\ UNCHANGED <<seq, log, hub>>
  /\ \A v \in Writers \ {c} : out'[v] = out[v]
  /\ \A d \in Clients \ {c} :
       /\ wire'[d] = wire[d] /\ conn'[d] = conn[d]
       /\ chatIDs'[d] = chatIDs[d] /\ reader'[d] = reader[d]
  /\ clients \subseteq clients' /\ clients' \subseteq clients \union {c}

Opens(c) ==
  /\ reader[c].pc = "new" /\ reader'[c].pc = "reading"
  /\ c \in clients'
  /\ chatIDs'[c] = {} /\ out'[c] = WriteTo(c, Ready)
  /\ wire'[c] = wire[c] /\ conn'[c] = conn[c]

Takes(c) ==
  /\ reader[c].pc = "reading" /\ reader'[c].pc \in {"valid", "invalid"}
  /\ out[c].phase = "none" /\ conn[c] = "up"
  /\ out'[c] = out[c] /\ wire'[c] = wire[c] /\ conn'[c] = conn[c]
  /\ chatIDs'[c] = chatIDs[c]

Refuses(c) ==
  /\ reader[c].pc = "reading" /\ reader'[c] = reader[c]
  /\ out[c].phase = "none" /\ conn[c] = "up"
  /\ out'[c] = out[c] /\ conn'[c] = conn[c] /\ chatIDs'[c] = chatIDs[c]
  /\ wire'[c] = Append(wire[c], Error)

Loses(c) ==
  /\ reader[c].pc # "new" /\ reader'[c] = reader[c]
  /\ conn[c] = "up" /\ conn'[c] = "gone"
  /\ out'[c] = out[c] /\ wire'[c] = wire[c] /\ chatIDs'[c] = chatIDs[c]

GivesUp(c) ==
  /\ reader[c].pc \in {"reading", "valid", "invalid"} /\ reader'[c].pc = "closing"
  /\ conn[c] = "gone" \/ c \notin clients
  /\ out'[c] = UnregisterOf(c)
  /\ wire'[c] = wire[c] /\ conn'[c] = conn[c] /\ chatIDs'[c] = chatIDs[c]

Accepts(c) ==
  /\ reader[c].pc = "valid" /\ reader'[c].pc = "subscribe"
  /\ out'[c] = out[c] /\ wire'[c] = wire[c] /\ conn'[c] = conn[c]
  /\ chatIDs'[c] = chatIDs[c]

Rejects(c) ==
  /\ reader[c].pc = "invalid" /\ reader'[c].pc = "reading"
  /\ out'[c] = WriteTo(c, Error)
  /\ wire'[c] = wire[c] /\ conn'[c] = conn[c] /\ chatIDs'[c] = chatIDs[c]

Subscribes(c) ==
  /\ reader[c].pc = "subscribe" /\ reader'[c].pc = "reading"
  /\ reader[c].chats \in SUBSET Kept
  /\ out'[c] = WriteTo(c, Ack(reader[c].chats))
  /\ c \in clients => chatIDs'[c] = reader[c].chats
  /\ c \notin clients => chatIDs'[c] = chatIDs[c]
  /\ wire'[c] = wire[c] /\ conn'[c] = conn[c]

LEMMA ReaderEffects ==
  ASSUME Shape, NEW c \in Clients, ConnectionStep(c)
  PROVE  /\ ReaderFrame(c)
         /\ \/ Opens(c) \/ Takes(c) \/ Refuses(c) \/ Loses(c) \/ GivesUp(c)
            \/ Accepts(c) \/ Rejects(c) \/ Subscribes(c)
<1> USE SelfWriter
<1>0. /\ out \in [Writers -> Writes] /\ wire \in [Clients -> Seq(Messages)]
      /\ conn \in [Clients -> {"up", "gone"}] /\ reader \in [Clients -> ReaderStates]
      /\ DOMAIN chatIDs = Clients
  BY DEF Shape
<1>1. ReaderFrame(c)
  BY <1>0
     DEF ReaderFrame, ConnectionStep, Open, ReadText, ReadBinary, PeerGone, ReaderStep,
         LookUp, SetSubscriptions, ReadFails, streamVars
<1>2. CASE Open(c)
  <2>1. Opens(c)
    BY <1>0, <1>2 DEF Open, Opens, Reader
  <2> QED BY <1>1, <2>1
<1>3. CASE ReadText(c)
  <2>1. PICK p \in Payloads :
          reader' = [reader EXCEPT
            ![c] = IF p.kind = "subscribe" /\ ValidChatIDs(Trimmed(p.chats))
                   THEN [pc |-> "valid", chats |-> Trimmed(p.chats)]
                   ELSE Reader("invalid")]
    BY <1>3 DEF ReadText
  <2>2. reader'[c].pc \in {"valid", "invalid"}
    BY <1>0, <2>1 DEF Reader
  <2>3. Takes(c)
    BY <1>3, <2>2 DEF ReadText, CanRead, Takes
  <2> QED BY <1>1, <2>3
<1>4. CASE ReadBinary(c)
  <2>1. /\ reader[c].pc = "reading" /\ reader' = reader /\ out[c].phase = "none"
        /\ conn[c] = "up" /\ out' = out /\ chatIDs' = chatIDs
    BY <1>4 DEF ReadBinary, CanRead
  <2>2. \/ wire' = [wire EXCEPT ![c] = Append(@, Error)] /\ UNCHANGED conn
        \/ conn' = [conn EXCEPT ![c] = "gone"] /\ UNCHANGED wire
    BY <1>4 DEF ReadBinary
  <2>3. \/ wire'[c] = Append(wire[c], Error) /\ conn'[c] = conn[c]
        \/ conn'[c] = "gone" /\ wire'[c] = wire[c]
    BY <1>0, <2>2
  <2>4. Refuses(c) \/ Loses(c)
    BY <2>1, <2>3 DEF Refuses, Loses
  <2> QED BY <1>1, <2>4
<1>5. CASE PeerGone(c)
  <2>1. Loses(c)
    BY <1>0, <1>5 DEF PeerGone, Loses
  <2> QED BY <1>1, <2>1
<1>6. CASE LookUp(c)
  <2>0. /\ reader[c].pc \in {"valid", "invalid"} /\ wire' = wire /\ conn' = conn
        /\ chatIDs' = chatIDs
    BY <1>6 DEF LookUp
  <2>1. CASE c \notin clients
    <3>1. reader'[c] = Reader("closing") /\ out'[c] = UnregisterOf(c)
      BY <1>0, <1>6, <2>1 DEF LookUp
    <3>2. GivesUp(c)
      BY <2>0, <2>1, <3>1 DEF GivesUp, Reader
    <3> QED BY <1>1, <3>2
  <2>2. CASE c \in clients /\ reader[c].pc = "valid"
    <3>1. reader' = [reader EXCEPT ![c].pc = "subscribe"] /\ out' = out
      BY <1>6, <2>2 DEF LookUp
    <3>2. reader'[c].pc = "subscribe"
      BY <1>0, <3>1 DEF ReaderStates
    <3>3. Accepts(c)
      BY <2>0, <2>2, <3>1, <3>2 DEF Accepts
    <3> QED BY <1>1, <3>3
  <2>3. CASE c \in clients /\ reader[c].pc # "valid"
    <3>1. reader'[c] = Reader("reading") /\ out'[c] = WriteTo(c, Error)
      BY <1>0, <1>6, <2>3 DEF LookUp
    <3>2. Rejects(c)
      BY <2>0, <2>3, <3>1 DEF Rejects, Reader
    <3> QED BY <1>1, <3>2
  <2> QED BY <2>1, <2>2, <2>3
<1>7. CASE SetSubscriptions(c)
  <2>1. reader[c].chats \in SUBSET Kept
    BY <1>0 DEF ReaderStates
  <2>2. /\ reader[c].pc = "subscribe" /\ wire' = wire /\ conn' = conn
        /\ reader'[c] = Reader("reading")
        /\ out'[c] = WriteTo(c, Ack(reader[c].chats))
        /\ chatIDs'[c] = IF c \in clients THEN reader[c].chats ELSE chatIDs[c]
    BY <1>0, <1>7 DEF SetSubscriptions
  <2>3. Subscribes(c)
    BY <2>1, <2>2 DEF Subscribes, Reader
  <2> QED BY <1>1, <2>3
<1>8. CASE ReadFails(c)
  <2>1. /\ reader[c].pc = "reading" /\ wire' = wire /\ conn' = conn
        /\ reader'[c] = Reader("closing") /\ chatIDs' = chatIDs /\ conn[c] = "gone"
        /\ out'[c] = UnregisterOf(c)
    BY <1>0, <1>8 DEF ReadFails, CanRead
  <2>2. GivesUp(c)
    BY <2>1 DEF GivesUp, Reader
  <2> QED BY <1>1, <2>2
<1> QED BY <1>2, <1>3, <1>4, <1>5, <1>6, <1>7, <1>8 DEF ConnectionStep, ReaderStep

(* The run goroutine.                                                      *)

Moves ==
  /\ hub.pc # "fanout" \/ (hub.targets = {} /\ out[Hub].phase = "none")
  /\ hub'.pc \in {"idle", "event", "ping"}
  /\ log' = log

Chooses ==
  /\ hub.pc = "event" /\ hub'.pc = "decide"
  /\ hub'.events = hub.events
  /\ \A c \in hub'.targets :
       c \in clients /\ IsSubscribed(chatIDs[c], Head(hub.events).chatID)
  /\ log' = log

Admits ==
  /\ hub.pc = "decide" /\ hub'.pc = "fanout"
  /\ hub'.events = hub.events /\ hub'.targets = hub.targets
  /\ log' = Append(log, [event |-> Head(hub.events), targets |-> hub.targets])

LEMMA NextEventMoves == NextEvent.pc \in {"event", "idle"}
BY DEF NextEvent

LEMMA QuietEffects ==
  ASSUME Shape, QuietStep
  PROVE  (hub' = hub /\ log' = log) \/ Moves \/ Chooses \/ Admits
<1>0. hub \in HubStates
  BY DEF Shape
<1>1. CASE Emit
  BY <1>1 DEF Emit, streamVars
<1>2. CASE Dequeue
  <2>1. hub.pc = "idle" /\ log' = log
    BY <1>2 DEF Dequeue, streamVars
  <2>2. hub' = hub \/ hub'.pc \in {"idle", "event"}
    BY <1>2 DEF Dequeue
  <2> QED BY <2>1, <2>2 DEF Moves
<1>3. CASE Keepalive
  <2>1. hub.pc = "idle" /\ log' = log /\ hub' = [hub EXCEPT !.pc = "ping"]
    BY <1>3 DEF Keepalive, streamVars
  <2>2. hub'.pc = "ping"
    BY <1>0, <2>1 DEF HubStates
  <2> QED BY <2>1, <2>2 DEF Moves
<1>4. CASE Snapshot
  <2>1. hub.pc = "event" /\ log' = log
    BY <1>4 DEF Snapshot, streamVars
  <2>2. CASE hub' = NextEvent
    BY <2>1, <2>2, NextEventMoves DEF Moves
  <2>3. CASE hub' = [hub EXCEPT !.pc = "decide",
                        !.targets = SubscribedTargets(Head(hub.events).chatID)]
    <3>1. /\ hub'.pc = "decide" /\ hub'.events = hub.events
          /\ hub'.targets = SubscribedTargets(Head(hub.events).chatID)
      BY <1>0, <2>3 DEF HubStates
    <3> QED BY <2>1, <3>1 DEF Chooses, SubscribedTargets
  <2> QED BY <1>4, <2>2, <2>3 DEF Snapshot
<1>5. CASE HydrateFails
  <2>1. hub.pc = "decide" /\ log' = log /\ hub' = NextEvent
    BY <1>5 DEF HydrateFails, streamVars
  <2> QED BY <2>1, NextEventMoves DEF Moves
<1>6. CASE Decide
  <2>1. hub.pc = "decide"
    BY <1>6 DEF Decide
  <2>2. CASE hub' = NextEvent /\ UNCHANGED log
    BY <2>1, <2>2, NextEventMoves DEF Moves
  <2>3. CASE /\ hub' = [hub EXCEPT !.pc = "fanout"]
             /\ log' = Append(log, [event |-> Head(hub.events), targets |-> hub.targets])
    <3>1. hub'.pc = "fanout" /\ hub'.events = hub.events /\ hub'.targets = hub.targets
      BY <1>0, <2>3 DEF HubStates
    <3> QED BY <2>1, <2>3, <3>1 DEF Admits
  <2> QED BY <1>6, <2>2, <2>3 DEF Decide
<1>7. CASE FanOutDone
  <2>1. /\ hub.targets = {} /\ out[Hub].phase = "none" /\ log' = log
        /\ hub' = NextEvent
    BY <1>7 DEF FanOutDone, streamVars
  <2> QED BY <2>1, NextEventMoves DEF Moves
<1>8. CASE PingsDone
  <2>1. hub.pc = "ping" /\ log' = log /\ hub' = NotProcessing
    BY <1>8 DEF PingsDone, streamVars
  <2>2. hub'.pc = "idle"
    BY <2>1 DEF NotProcessing
  <2> QED BY <2>1, <2>2 DEF Moves
<1> QED BY <1>1, <1>2, <1>3, <1>4, <1>5, <1>6, <1>7, <1>8 DEF QuietStep

(* The message that the run goroutine is about to write to c.              *)
NextMessage(c) == DomainMessage(Head(hub.events), seq[c] + 1)

FansTo(c) ==
  /\ hub.pc = "fanout" /\ hub'.pc = "fanout"
  /\ c \in hub.targets /\ hub'.targets = hub.targets \ {c}
  /\ hub'.events = hub.events
  /\ out[Hub].phase = "none" /\ out'[Hub] = WriteTo(c, NextMessage(c))
  /\ \A v \in Writers \ {Hub} : out'[v] = out[v]
  /\ seq'[c] = seq[c] + 1
  /\ \A d \in Clients \ {c} : seq'[d] = seq[d]
  /\ UNCHANGED <<clients, chatIDs, log, reader, conn, wire>>

LEMMA FanOutEffects ==
  ASSUME Shape, FanOut
  PROVE  \E c \in Clients : FansTo(c)
<1>0. /\ hub \in HubStates /\ out \in [Writers -> Writes] /\ Hub \in Writers
      /\ seq \in [Clients -> Nat]
  BY SelfWriter DEF Shape
<1>1. PICK c \in hub.targets : FanOutTo(c)
  BY DEF FanOut, FanOutTo
<1>2. c \in Clients
  BY <1>0 DEF HubStates
<1>3. /\ hub.pc = "fanout" /\ out[Hub].phase = "none"
      /\ UNCHANGED <<clients, chatIDs, log, reader, conn, wire>>
  BY DEF FanOut
<1>4. hub' = [hub EXCEPT !.targets = @ \ {c}]
  BY <1>1 DEF FanOutTo
<1>5. hub'.pc = "fanout" /\ hub'.events = hub.events /\ hub'.targets = hub.targets \ {c}
  BY <1>0, <1>3, <1>4 DEF HubStates
<1>6. /\ out'[Hub] = WriteTo(c, NextMessage(c))
      /\ \A v \in Writers \ {Hub} : out'[v] = out[v]
  BY <1>0, <1>1 DEF FanOutTo, NextMessage
<1>7. seq'[c] = seq[c] + 1 /\ \A d \in Clients \ {c} : seq'[d] = seq[d]
  BY <1>0, <1>1, <1>2 DEF FanOutTo
<1> QED BY <1>1, <1>2, <1>3, <1>5, <1>6, <1>7 DEF FansTo, FanOutTo
-----------------------------------------------------------------------------
(* Whose writes are whose.  Readers write to their own client only, and no *)
(* events; a client is taken out of the map only when its transport is     *)
(* gone; the run goroutine writes only while it fans out.                  *)

Outgoing(c) ==
  /\ out[c].phase # "none" =>
       out[c].to = c /\ reader[c].pc \in {"reading", "closing"}
  /\ out[c].phase \in {"lock", "send"} => ~IsEvent(out[c].msg)
  /\ \A w \in Writers :
       out[w].phase \in {"unregister", "close"} /\ out[w].to = c => conn[c] = "gone"
  /\ reader[c].pc # "new" /\ conn[c] = "up" => c \in clients

Orderly ==
  /\ \A c \in Clients : Outgoing(c)
  /\ out[Hub].phase # "none" => hub.pc = "fanout"

LEMMA MessageKinds ==
  /\ ~IsEvent(Ready) /\ ~IsEvent(Error) /\ ~IsAck(Ready) /\ ~IsAck(Error)
  /\ \A chats : IsAck(Ack(chats)) /\ ~IsEvent(Ack(chats)) /\ Ack(chats).chats = chats
  /\ \A e \in Events, n \in Nat :
       LET m == DomainMessage(e, n)
       IN IsEvent(m) /\ ~IsAck(m) /\ m.seq = n /\ Carries(m, e) /\ m.chatID = e.chatID
<1>1. /\ ~IsEvent(Ready) /\ ~IsEvent(Error) /\ ~IsAck(Ready) /\ ~IsAck(Error)
      /\ \A chats : IsAck(Ack(chats)) /\ ~IsEvent(Ack(chats)) /\ Ack(chats).chats = chats
  BY DEF IsEvent, IsAck, Ready, Error, Ack, EventTypes
<1>2. ASSUME NEW e \in Events, NEW n \in Nat
      PROVE  LET m == DomainMessage(e, n)
             IN IsEvent(m) /\ ~IsAck(m) /\ m.seq = n /\ Carries(m, e)
                  /\ m.chatID = e.chatID
  <2>1. e.type \in EventTypes /\ e.type # "subscriptions.updated"
    BY EventsFacts DEF EventTypes
  <2> QED BY <2>1 DEF DomainMessage, IsEvent, IsAck, Carries
<1> QED BY <1>1, <1>2

LEMMA InitOrderly == Init => Orderly
BY SelfWriter DEF Init, Orderly, Outgoing, NoWrite, Reader

LEMMA OrderlyStep == Shape /\ Orderly /\ [Next]_vars => Orderly'
<1> SUFFICES ASSUME Shape, Orderly, [Next]_vars PROVE Orderly' OBVIOUS
<1> USE SelfWriter
<1>0. conn \in [Clients -> {"up", "gone"}]
  BY DEF Shape
<1>1. CASE QuietStep
  <2>1. UNCHANGED perClient
    BY <1>1, QuietFrame
  <2>2. (hub' = hub /\ log' = log) \/ Moves \/ Chooses \/ Admits
    BY <1>1, QuietEffects
  <2>3. out[Hub].phase # "none" => hub'.pc = "fanout"
    BY <2>2 DEF Orderly, Moves, Chooses, Admits
  <2>4. ASSUME NEW c \in Clients PROVE Outgoing(c)'
    BY <2>1 DEF Orderly, Outgoing, perClient
  <2> QED BY <2>1, <2>3, <2>4 DEF Orderly, perClient
<1>2. CASE FanOut
  <2>1. PICK d \in Clients : FansTo(d)
    BY <1>2, FanOutEffects
  <2>2. out'[Hub].phase = "lock"
    BY <2>1 DEF FansTo, WriteTo
  <2>3. ASSUME NEW c \in Clients PROVE Outgoing(c)'
    <3>1. Outgoing(c)
      BY DEF Orderly
    <3>2. out'[c] = out[c]
      BY <2>1 DEF FansTo
    <3>3. ASSUME NEW w \in Writers, out'[w].phase \in {"unregister", "close"}
          PROVE  out'[w] = out[w]
      BY <2>1, <2>2, <3>3 DEF FansTo
    <3> QED BY <2>1, <3>1, <3>2, <3>3 DEF FansTo, Outgoing
  <2> QED BY <2>1, <2>3 DEF FansTo, Orderly
<1>3. CASE \E w \in Writers : WriteStep(w)
  <2>1. PICK w \in Writers :
          /\ WriteFrame(w)
          /\ Starts(w) \/ Delivers(w) \/ Breaks(w) \/ Removes(w) \/ Closes(w)
    BY <1>3, WriteEffects
  <2>2. ASSUME NEW c \in Clients PROVE Outgoing(c)'
    <3>1. Outgoing(c)
      BY DEF Orderly
    <3>2. conn[c] = "gone" => conn'[c] = "gone"
      BY <2>1 DEF WriteFrame, Starts, Delivers, Breaks, Removes, Closes
    <3>3. /\ out'[c].phase # "none" => out[c].phase # "none" /\ out'[c].to = out[c].to
          /\ out'[c].phase \in {"lock", "send"} =>
               out[c].phase \in {"lock", "send"} /\ out'[c].msg = out[c].msg
      BY <2>1 DEF WriteFrame, Starts, Delivers, Breaks, Removes, Closes
    <3>4. reader' = reader /\ clients' \subseteq clients
      BY <2>1 DEF WriteFrame, Starts, Delivers, Breaks, Removes, Closes
    <3>5. ASSUME NEW v \in Writers, out'[v].phase \in {"unregister", "close"},
                 out'[v].to = c
          PROVE  conn'[c] = "gone"
      <4>1. CASE v # w
        BY <2>1, <3>1, <3>2, <3>5, <4>1 DEF WriteFrame, Outgoing
      <4>2. CASE v = w
        BY <2>1, <3>1, <3>2, <3>5, <4>2
           DEF WriteFrame, Starts, Delivers, Breaks, Removes, Closes, Outgoing
      <4> QED BY <4>1, <4>2
    <3>6. reader[c].pc # "new" /\ conn'[c] = "up" => c \in clients'
      <4>1. CASE Removes(w) /\ out[w].to = c
        BY <2>1, <3>1, <4>1 DEF Removes, Outgoing
      <4>2. CASE ~(Removes(w) /\ out[w].to = c)
        <5>1. c \in clients => c \in clients'
          BY <2>1, <4>2 DEF Starts, Delivers, Breaks, Removes, Closes
        <5> QED BY <1>0, <3>1, <3>2, <5>1 DEF Outgoing
      <4> QED BY <4>1, <4>2
    <3> QED BY <3>1, <3>2, <3>3, <3>4, <3>5, <3>6 DEF Outgoing
  <2>3. out'[Hub].phase # "none" => out[Hub].phase # "none"
    BY <2>1 DEF WriteFrame, Starts, Delivers, Breaks, Removes, Closes
  <2> QED BY <2>1, <2>2, <2>3 DEF Orderly, WriteFrame
<1>4. CASE \E c \in Clients : ConnectionStep(c)
  <2>1. PICK d \in Clients :
          /\ ReaderFrame(d)
          /\ \/ Opens(d) \/ Takes(d) \/ Refuses(d) \/ Loses(d) \/ GivesUp(d)
             \/ Accepts(d) \/ Rejects(d) \/ Subscribes(d)
    BY <1>4, ReaderEffects
  <2>2. ASSUME NEW c \in Clients \ {d} PROVE Outgoing(c)'
    <3>1. Outgoing(c)
      BY DEF Orderly
    <3>2. out'[d].phase \in {"unregister", "close"} => out'[d].to = d \/ out'[d] = out[d]
      BY <2>1, WriteFacts, MessageTypes
         DEF Opens, Takes, Refuses, Loses, GivesUp, Accepts, Rejects, Subscribes,
             UnregisterOf
    <3>3. \A w \in Writers : out'[w].phase \in {"unregister", "close"} /\ out'[w].to = c
                              => out'[w] = out[w]
      BY <2>1, <3>2 DEF ReaderFrame
    <3> QED BY <2>1, <3>1, <3>3 DEF ReaderFrame, Outgoing
  <2>3. Outgoing(d)'
    <3>1. Outgoing(d)
      BY DEF Orderly
    <3>2. \A w \in Writers \ {d} : out'[w] = out[w]
      BY <2>1 DEF ReaderFrame
    <3>3. CASE Opens(d)
      <4>1. out'[d].phase = "lock" /\ out'[d].to = d /\ out'[d].msg = Ready
        BY <3>3 DEF Opens, WriteTo
      <4> QED BY <3>1, <3>2, <3>3, <4>1, MessageKinds DEF Opens, Outgoing
    <3>4. CASE Takes(d) \/ Refuses(d) \/ Loses(d) \/ Accepts(d)
      <4>1. out'[d] = out[d] /\ (conn[d] = "gone" => conn'[d] = "gone")
        BY <3>4 DEF Takes, Refuses, Loses, Accepts
      <4>2. out[d].phase # "none" => reader'[d].pc \in {"reading", "closing"}
        BY <3>1, <3>4 DEF Takes, Refuses, Loses, Accepts, Outgoing
      <4>3. reader'[d].pc # "new" /\ conn'[d] = "up" => d \in clients'
        BY <2>1, <3>1, <3>4 DEF ReaderFrame, Takes, Refuses, Loses, Accepts, Outgoing
      <4>4. \A w \in Writers : out'[w] = out[w]
        BY <3>2, <4>1
      <4> QED BY <3>1, <4>1, <4>2, <4>3, <4>4 DEF Outgoing
    <3>5. CASE GivesUp(d)
      <4>1. /\ out'[d].phase = "unregister" /\ out'[d].to = d
            /\ reader[d].pc # "new" /\ reader'[d].pc = "closing"
        BY <3>5 DEF GivesUp, UnregisterOf
      <4>2. conn[d] = "gone" /\ conn'[d] = "gone"
        BY <1>0, <3>1, <3>5 DEF GivesUp, Outgoing
      <4> QED BY <3>1, <3>2, <4>1, <4>2 DEF Outgoing
    <3>6. CASE Rejects(d) \/ Subscribes(d)
      <4>1. PICK m : out'[d] = WriteTo(d, m) /\ ~IsEvent(m)
        BY <3>6, MessageKinds DEF Rejects, Subscribes
      <4>2. out'[d].phase = "lock" /\ out'[d].to = d /\ out'[d].msg = m
        BY <4>1 DEF WriteTo
      <4>3. /\ reader[d].pc # "new" /\ reader'[d].pc = "reading" /\ conn'[d] = conn[d]
            /\ clients \subseteq clients'
        BY <2>1, <3>6 DEF Rejects, Subscribes, ReaderFrame
      <4> QED BY <3>1, <3>2, <4>1, <4>2, <4>3 DEF Outgoing
    <3> QED BY <2>1, <3>3, <3>4, <3>5, <3>6
  <2>4. Hub # d /\ out'[Hub] = out[Hub] /\ hub' = hub
    BY <2>1 DEF ReaderFrame
  <2> QED BY <2>2, <2>3, <2>4 DEF Orderly
<1>5. CASE UNCHANGED vars
  BY <1>5 DEF vars, Orderly, Outgoing
<1> QED BY <1>1, <1>2, <1>3, <1>4, <1>5, NextCases
-----------------------------------------------------------------------------
(* The stream a client receives.                                           *)

LEMMA RankFacts ==
  ASSUME NEW n \in Nat, NEW S \in SUBSET (1..n)
  PROVE  /\ Cardinality(S) \in Nat
         /\ Rank(n, S) = Cardinality(S)
         /\ Cardinality(S \union {n + 1}) = Cardinality(S) + 1
         /\ Rank(n + 1, S \union {n + 1}) = Cardinality(S) + 1
         /\ \A k \in 1..n : Rank(k, S \union {n + 1}) = Rank(k, S)
<1>1. IsFiniteSet(1..n)
  BY FS_Interval
<1>2. IsFiniteSet(S)
  BY <1>1, FS_Subset
<1>3. Cardinality(S) \in Nat
  BY <1>2, FS_CardinalityType
<1>4. n + 1 \notin S
  OBVIOUS
<1>5. Cardinality(S \union {n + 1}) = Cardinality(S) + 1
  BY <1>2, <1>4, FS_AddElement
<1>6. {j \in S : j <= n} = S
  <2>1. \A j \in S : j <= n
    OBVIOUS
  <2> QED BY <2>1
<1>7. {j \in S \union {n + 1} : j <= n + 1} = S \union {n + 1}
  <2>1. \A j \in S \union {n + 1} : j <= n + 1
    OBVIOUS
  <2> QED BY <2>1
<1>8. \A k \in 1..n : {j \in S \union {n + 1} : j <= k} = {j \in S : j <= k}
  OBVIOUS
<1> QED BY <1>3, <1>5, <1>6, <1>7, <1>8 DEF Rank

Entries == [event : Events, targets : SUBSET Clients]

Writing(c) == WritingTo(Hub, c)

(* The log entry being fanned out is the last one.                         *)
FansLast ==
  hub.pc = "fanout" =>
    /\ log # <<>>
    /\ log[Len(log)].event = Head(hub.events)
    /\ hub.targets \subseteq log[Len(log)].targets

(* seq counts what is due to c, but for the event that c still waits for.  *)
Counts(c) ==
  /\ Cardinality(Due(c)) =
       IF hub.pc = "fanout" /\ c \in hub.targets THEN seq[c] + 1 ELSE seq[c]
  /\ Writing(c) => /\ hub.pc = "fanout" /\ c \notin hub.targets
                   /\ Len(log) \in Due(c)
                   /\ out[Hub].msg = DomainMessage(Head(hub.events), seq[c])

(* A live peer has all of that but for what is being written.              *)
UpToDate(c) ==
  conn[c] = "up" =>
    Cardinality(EventsAt(c)) = IF Writing(c) THEN seq[c] - 1 ELSE seq[c]

FromLog(c, i) ==
  /\ wire[c][i].seq = Rank(i, EventsAt(c))
  /\ \E k \in Due(c) : /\ Rank(k, Due(c)) = wire[c][i].seq
                      /\ Carries(wire[c][i], log[k].event)

Streamed(c) == \A i \in EventsAt(c) : FromLog(c, i)

Streaming ==
  /\ log \in Seq(Entries)
  /\ FansLast
  /\ \A c \in Clients : Counts(c) /\ UpToDate(c) /\ Streamed(c)

LEMMA InitStreaming == Init => Streaming
<1> SUFFICES ASSUME Init PROVE Streaming OBVIOUS
<1>1. log = <<>> /\ log \in Seq(Entries)
  BY DEF Init
<1>2. hub.pc = "idle" /\ out[Hub].phase = "none"
  BY SelfWriter DEF Init, NotProcessing, NoWrite
<1>3. ASSUME NEW c \in Clients PROVE Counts(c) /\ UpToDate(c) /\ Streamed(c)
  <2>1. wire[c] = <<>> /\ seq[c] = 0
    BY DEF Init
  <2>2. EventsAt(c) = {} /\ Due(c) = {}
    BY <1>1, <2>1 DEF EventsAt, Due
  <2>3. ~Writing(c)
    BY <1>2 DEF Writing, WritingTo
  <2> QED BY <1>2, <2>1, <2>2, <2>3, FS_EmptySet DEF Counts, UpToDate, Streamed
<1> QED BY <1>1, <1>2, <1>3 DEF Streaming, FansLast

LEMMA StreamSets ==
  ASSUME Shape, log \in Seq(Entries), NEW c \in Clients
  PROVE  /\ Len(wire[c]) \in Nat /\ DOMAIN wire[c] = 1..Len(wire[c])
         /\ EventsAt(c) \in SUBSET (1..Len(wire[c]))
         /\ Len(log) \in Nat /\ DOMAIN log = 1..Len(log)
         /\ Due(c) \in SUBSET (1..Len(log))
         /\ seq[c] \in Nat
BY DEF Shape, EventsAt, Due

(* Neither the wire of c nor the log changes.                              *)
LEMMA StreamedKept ==
  ASSUME NEW c \in Clients, wire'[c] = wire[c], log' = log
  PROVE  EventsAt(c)' = EventsAt(c) /\ Due(c)' = Due(c) /\ (Streamed(c) => Streamed(c)')
<1>1. EventsAt(c)' = EventsAt(c) /\ Due(c)' = Due(c)
  BY DEF EventsAt, Due
<1> QED BY <1>1 DEF Streamed, FromLog

(* c receives something that is no event.                                  *)
LEMMA StreamedAside ==
  ASSUME Shape, log \in Seq(Entries), NEW c \in Clients, NEW m \in Messages, ~IsEvent(m),
         wire'[c] = Append(wire[c], m), log' = log
  PROVE  EventsAt(c)' = EventsAt(c) /\ Due(c)' = Due(c) /\ (Streamed(c) => Streamed(c)')
<1>1. /\ DOMAIN wire'[c] = 1..(Len(wire[c]) + 1)
      /\ \A i \in 1..Len(wire[c]) : wire'[c][i] = wire[c][i]
      /\ wire'[c][Len(wire[c]) + 1] = m
  BY DEF Shape
<1>2. EventsAt(c)' = EventsAt(c)
  BY <1>1, StreamSets DEF EventsAt
<1>3. Due(c)' = Due(c)
  BY DEF Due
<1>4. \A i \in EventsAt(c) : wire'[c][i] = wire[c][i]
  BY <1>1, StreamSets
<1> QED BY <1>2, <1>3, <1>4 DEF Streamed, FromLog

(* c receives the event it is due, the last of the log.                    *)
LEMMA StreamedMore ==
  ASSUME Shape, log \in Seq(Entries), NEW c \in Clients, Streamed(c),
         NEW m \in Messages, IsEvent(m),
         m.seq = Cardinality(Due(c)), Cardinality(EventsAt(c)) + 1 = Cardinality(Due(c)),
         Len(log) \in Due(c), Carries(m, log[Len(log)].event),
         wire'[c] = Append(wire[c], m), log' = log
  PROVE  /\ Cardinality(EventsAt(c)') = Cardinality(EventsAt(c)) + 1
         /\ Due(c)' = Due(c) /\ Streamed(c)'
<1>a. PICK n \in Nat : n = Len(wire[c])
  BY StreamSets
<1>0. /\ DOMAIN wire[c] = 1..n /\ EventsAt(c) \in SUBSET (1..n)
      /\ Len(log) \in Nat /\ Due(c) \in SUBSET (1..Len(log))
  BY <1>a, StreamSets
<1>1. /\ DOMAIN wire'[c] = 1..(n + 1)
      /\ \A i \in 1..n : wire'[c][i] = wire[c][i]
      /\ wire'[c][n + 1] = m
  BY <1>a DEF Shape
<1>2. EventsAt(c)' = EventsAt(c) \union {n + 1}
  BY <1>0, <1>1 DEF EventsAt
<1>3. Due(c)' = Due(c)
  BY DEF Due
<1>4. /\ Cardinality(EventsAt(c)') = Cardinality(EventsAt(c)) + 1
      /\ Rank(n + 1, EventsAt(c)') = Cardinality(EventsAt(c)) + 1
      /\ \A k \in 1..n : Rank(k, EventsAt(c)') = Rank(k, EventsAt(c))
  <2> DEFINE S == EventsAt(c)
  <2>1. S \in SUBSET (1..n)
    BY <1>0
  <2> HIDE DEF S
  <2>2. /\ Cardinality(S \union {n + 1}) = Cardinality(S) + 1
        /\ Rank(n + 1, S \union {n + 1}) = Cardinality(S) + 1
        /\ \A k \in 1..n : Rank(k, S \union {n + 1}) = Rank(k, S)
    BY <2>1, RankFacts
  <2> QED BY <1>2, <2>2 DEF S
<1>5. Rank(Len(log), Due(c)) = Cardinality(Due(c))
  BY <1>0, RankFacts
<1>6. ASSUME NEW i \in EventsAt(c) PROVE FromLog(c, i)'
  <2>1. FromLog(c, i) /\ i \in 1..n
    BY <1>0 DEF Streamed
  <2> QED BY <1>1, <1>3, <1>4, <2>1 DEF FromLog
<1>7. FromLog(c, n + 1)'
  <2>1. wire'[c][n + 1].seq = Rank(n + 1, EventsAt(c)')
    BY <1>1, <1>4
  <2>2. Rank(Len(log), Due(c)') = wire'[c][n + 1].seq /\ Len(log) \in Due(c)'
    BY <1>1, <1>3, <1>5
  <2>3. Carries(wire'[c][n + 1], log'[Len(log)].event)
    BY <1>1
  <2> QED BY <2>1, <2>2, <2>3 DEF FromLog
<1>8. \A i \in EventsAt(c)' : FromLog(c, i)'
  BY <1>2, <1>6, <1>7
<1> QED BY <1>3, <1>4, <1>8 DEF Streamed

(* The log grows by an entry with these targets.                           *)
LEMMA StreamedLog ==
  ASSUME Shape, log \in Seq(Entries), NEW c \in Clients, Streamed(c),
         NEW e \in Entries, log' = Append(log, e), wire'[c] = wire[c]
  PROVE  /\ EventsAt(c)' = EventsAt(c) /\ Streamed(c)'
         /\ c \notin e.targets => Due(c)' = Due(c)
         /\ c \in e.targets => Cardinality(Due(c)') = Cardinality(Due(c)) + 1
<1> DEFINE n == Len(log)
<1>0. n \in Nat /\ DOMAIN log = 1..n /\ Due(c) \in SUBSET (1..n)
  BY StreamSets
<1>1. /\ DOMAIN log' = 1..(n + 1)
      /\ \A k \in 1..n : log'[k] = log[k]
      /\ log'[n + 1] = e
  OBVIOUS
<1> HIDE DEF n
<1>2. EventsAt(c)' = EventsAt(c)
  BY DEF EventsAt
<1>3. c \notin e.targets => Due(c)' = Due(c)
  BY <1>0, <1>1 DEF Due
<1>4. c \in e.targets => Due(c)' = Due(c) \union {n + 1}
  BY <1>0, <1>1 DEF Due
<1>5. /\ Cardinality(Due(c) \union {n + 1}) = Cardinality(Due(c)) + 1
      /\ \A k \in 1..n : Rank(k, Due(c) \union {n + 1}) = Rank(k, Due(c))
  BY <1>0, RankFacts
<1>6. \A k \in Due(c) :
        k \in Due(c)' /\ Rank(k, Due(c)') = Rank(k, Due(c)) /\ log'[k] = log[k]
  BY <1>0, <1>1, <1>3, <1>4, <1>5
<1>7. ASSUME NEW i \in EventsAt(c) PROVE FromLog(c, i)'
  <2>1. FromLog(c, i)
    BY DEF Streamed
  <2>2. PICK k \in Due(c) : /\ Rank(k, Due(c)) = wire[c][i].seq
                           /\ Carries(wire[c][i], log[k].event)
    BY <2>1 DEF FromLog
  <2>3. /\ k \in Due(c)' /\ Rank(k, Due(c)') = wire'[c][i].seq
        /\ Carries(wire'[c][i], log'[k].event)
    BY <1>6, <2>2
  <2>4. wire'[c][i].seq = Rank(i, EventsAt(c)')
    BY <1>2, <2>1 DEF FromLog
  <2> QED BY <2>3, <2>4 DEF FromLog
<1> QED BY <1>2, <1>3, <1>4, <1>5, <1>7 DEF Streamed

StreamOf(c) == Counts(c) /\ UpToDate(c) /\ Streamed(c)

(* A step in which the hub stays where it is and starts nothing for c.     *)
LEMMA StreamKept ==
  ASSUME NEW c \in Clients, Counts(c), UpToDate(c), log' = log, seq'[c] = seq[c], hub' = hub,
         Due(c)' = Due(c), EventsAt(c)' = EventsAt(c), Streamed(c)',
         Writing(c)' => Writing(c) /\ out'[Hub].msg = out[Hub].msg,
         conn'[c] = "up" => conn[c] = "up" /\ (Writing(c) => Writing(c)')
  PROVE  StreamOf(c)'
<1>1. Counts(c)'
  BY DEF Counts
<1>2. UpToDate(c)'
  BY DEF UpToDate
<1> QED BY <1>1, <1>2 DEF StreamOf

LEMMA StreamingQuiet ==
  ASSUME Shape, Orderly, Streaming, QuietStep
  PROVE  Streaming'
<1>1. UNCHANGED perClient
  BY QuietFrame
<1>2. \A c \in Clients : /\ Writing(c)' <=> Writing(c)
                         /\ wire'[c] = wire[c] /\ seq'[c] = seq[c] /\ conn'[c] = conn[c]
                         /\ out' = out
  BY <1>1 DEF perClient, Writing, WritingTo
<1>3. log \in Seq(Entries) /\ FansLast /\ \A c \in Clients : Counts(c) /\ UpToDate(c) /\ Streamed(c)
  BY DEF Streaming
<1>4. ASSUME log' = log, NEW c \in Clients
      PROVE  Due(c)' = Due(c) /\ EventsAt(c)' = EventsAt(c) /\ Streamed(c)'
  BY <1>2, <1>3, <1>4, StreamedKept
<1>5. CASE hub' = hub /\ log' = log
  <2>1. ASSUME NEW c \in Clients PROVE StreamOf(c)'
    BY <1>2, <1>3, <1>4, <1>5, StreamKept
  <2> QED BY <1>3, <1>5, <2>1 DEF Streaming, StreamOf, FansLast
<1>6. CASE Moves \/ Chooses
  <2>1. hub'.pc # "fanout" /\ log' = log
    BY <1>6 DEF Moves, Chooses
  <2>2. ASSUME NEW c \in Clients PROVE StreamOf(c)'
    <3>1. ~Writing(c) /\ ~(hub.pc = "fanout" /\ c \in hub.targets)
      BY <1>3, <1>6 DEF Moves, Chooses, Counts, Writing, WritingTo
    <3>2. Counts(c)'
      BY <1>2, <1>3, <1>4, <2>1, <3>1 DEF Counts
    <3>3. UpToDate(c)'
      BY <1>2, <1>3, <1>4, <2>1, <3>1 DEF UpToDate
    <3> QED BY <1>4, <2>1, <3>2, <3>3 DEF StreamOf
  <2> QED BY <1>3, <2>1, <2>2 DEF Streaming, StreamOf, FansLast
<1>7. CASE Admits
  <2> DEFINE e == [event |-> Head(hub.events), targets |-> hub.targets]
  <2>1. /\ hub.pc = "decide" /\ hub'.pc = "fanout" /\ log' = Append(log, e)
        /\ hub'.events = hub.events /\ hub'.targets = hub.targets
    BY <1>7 DEF Admits
  <2>2. Head(hub.events) \in Events /\ hub.targets \in SUBSET Clients
    BY <2>1 DEF Shape, HubStates
  <2>3. e \in Entries /\ e.event = Head(hub.events) /\ e.targets = hub.targets
    BY <2>2 DEF Entries
  <2> HIDE DEF e
  <2>4. /\ log' \in Seq(Entries) /\ log' # <<>> /\ log'[Len(log')] = e
    BY <1>3, <2>1, <2>3
  <2>5. FansLast'
    BY <2>1, <2>3, <2>4 DEF FansLast
  <2>6. ASSUME NEW c \in Clients PROVE StreamOf(c)'
    <3>1. ~Writing(c) /\ Cardinality(Due(c)) = seq[c]
      BY <1>3, <2>1 DEF Counts
    <3>2. /\ EventsAt(c)' = EventsAt(c) /\ Streamed(c)'
          /\ c \notin hub.targets => Due(c)' = Due(c)
          /\ c \in hub.targets => Cardinality(Due(c)') = Cardinality(Due(c)) + 1
      BY <1>2, <1>3, <2>1, <2>3, StreamedLog
    <3>3. Counts(c)'
      BY <1>2, <2>1, <3>1, <3>2 DEF Counts
    <3>4. UpToDate(c)'
      BY <1>2, <1>3, <3>1, <3>2 DEF UpToDate
    <3> QED BY <3>2, <3>3, <3>4 DEF StreamOf
  <2> QED BY <2>4, <2>5, <2>6 DEF Streaming, StreamOf
<1> QED BY <1>5, <1>6, <1>7, QuietEffects

LEMMA StreamingFanOut ==
  ASSUME Shape, Orderly, Streaming, NEW d \in Clients, FansTo(d)
  PROVE  Streaming'
<1>1. log \in Seq(Entries) /\ FansLast /\ \A c \in Clients : Counts(c) /\ UpToDate(c) /\ Streamed(c)
  BY DEF Streaming
<1>2. /\ hub.pc = "fanout" /\ hub'.pc = "fanout" /\ log' = log /\ hub'.events = hub.events
      /\ hub'.targets = hub.targets \ {d} /\ d \in hub.targets /\ conn' = conn
      /\ out[Hub].phase = "none"
      /\ out'[Hub].phase = "lock" /\ out'[Hub].to = d /\ out'[Hub].msg = NextMessage(d)
  BY DEF FansTo, WriteTo
<1>3. FansLast'
  BY <1>1, <1>2 DEF FansLast
<1>4. ASSUME NEW c \in Clients PROVE StreamOf(c)'
  <2>1. Due(c)' = Due(c) /\ EventsAt(c)' = EventsAt(c) /\ Streamed(c)'
    BY <1>1, <1>2, StreamedKept DEF FansTo
  <2>2. ~Writing(c) /\ (Writing(c)' <=> c = d)
    BY <1>2 DEF Writing, WritingTo
  <2>3. seq[c] \in Nat /\ Len(log) \in Nat /\ DOMAIN log = 1..Len(log) /\ Len(log) # 0
    BY <1>1, <1>2, StreamSets DEF FansLast
  <2>4. CASE c = d
    <3>1. seq'[c] = seq[c] + 1 /\ out'[Hub].msg = DomainMessage(Head(hub'.events), seq'[c])
      BY <1>2, <2>4 DEF FansTo, NextMessage
    <3>2. Len(log) \in Due(c)
      BY <1>1, <1>2, <2>3, <2>4 DEF Due, FansLast
    <3>3. Cardinality(Due(c)) = seq[c] + 1 /\ c \notin hub'.targets
      BY <1>1, <1>2, <2>4 DEF Counts
    <3>4. Counts(c)'
      BY <1>2, <2>1, <3>1, <3>2, <3>3 DEF Counts
    <3>5. UpToDate(c)'
      BY <1>1, <1>2, <2>1, <2>2, <2>3, <2>4, <3>1 DEF UpToDate
    <3> QED BY <2>1, <3>4, <3>5 DEF StreamOf
  <2>5. CASE c # d
    <3>1. seq'[c] = seq[c] /\ (c \in hub'.targets <=> c \in hub.targets)
      BY <1>2, <2>5 DEF FansTo
    <3>2. Counts(c)'
      BY <1>1, <1>2, <2>1, <2>2, <2>5, <3>1 DEF Counts
    <3>3. UpToDate(c)'
      BY <1>1, <1>2, <2>1, <2>2, <2>5, <3>1 DEF UpToDate
    <3> QED BY <2>1, <3>2, <3>3 DEF StreamOf
  <2> QED BY <2>4, <2>5
<1> QED BY <1>1, <1>2, <1>3, <1>4 DEF Streaming, StreamOf

LEMMA StreamingWrite ==
  ASSUME Shape, Orderly, Streaming, NEW w \in Writers, WriteStep(w)
  PROVE  Streaming'
<1> USE SelfWriter
<1>1. log \in Seq(Entries) /\ FansLast /\ \A c \in Clients : Counts(c) /\ UpToDate(c) /\ Streamed(c)
  BY DEF Streaming
<1>2. /\ WriteFrame(w)
      /\ Starts(w) \/ Delivers(w) \/ Breaks(w) \/ Removes(w) \/ Closes(w)
  BY WriteEffects
<1>3. log' = log /\ hub' = hub /\ seq' = seq /\ out[w].to \in Clients
  BY <1>2 DEF WriteFrame
<1>4. ASSUME NEW c \in Clients PROVE StreamOf(c)'
  <2>1. Writing(c)' => Writing(c) /\ out'[Hub].msg = out[Hub].msg
    BY <1>2 DEF WriteFrame, Starts, Delivers, Breaks, Removes, Closes, Writing, WritingTo
  <2>2. CASE ~(Delivers(w) /\ out[w].to = c)
    <3>1. wire'[c] = wire[c]
      BY <1>2, <2>2 DEF Starts, Delivers, Breaks, Removes, Closes
    <3>2. Due(c)' = Due(c) /\ EventsAt(c)' = EventsAt(c) /\ Streamed(c)'
      BY <1>1, <1>3, <3>1, StreamedKept
    <3>3. conn'[c] = "up" => conn[c] = "up"
      BY <1>2 DEF Starts, Delivers, Breaks, Removes, Closes
    <3>4. conn'[c] = "up" /\ Writing(c) => Writing(c)'
      <4>1. CASE w # Hub
        BY <1>2, <4>1 DEF WriteFrame, Writing, WritingTo
      <4>2. CASE w = Hub
        BY <1>2, <2>2, <4>2
           DEF Starts, Delivers, Breaks, Removes, Closes, Writing, WritingTo
      <4> QED BY <4>1, <4>2
    <3> QED BY <1>1, <1>3, <2>1, <3>2, <3>3, <3>4, StreamKept
  <2>3. CASE Delivers(w) /\ out[w].to = c /\ w # Hub
    <3>1. w \in Clients
      BY <2>3 DEF Writers
    <3>2. w = c /\ ~IsEvent(out[w].msg) /\ out[w].msg \in Messages
      BY <2>3, <3>1 DEF Orderly, Outgoing, Delivers
    <3>3. wire'[c] = Append(wire[c], out[w].msg) /\ conn' = conn
      BY <2>3 DEF Delivers
    <3>4. Due(c)' = Due(c) /\ EventsAt(c)' = EventsAt(c) /\ Streamed(c)'
      BY <1>1, <1>3, <3>2, <3>3, StreamedAside
    <3>5. Writing(c) => Writing(c)'
      BY <1>2, <2>3 DEF WriteFrame, Writing, WritingTo
    <3> QED BY <1>1, <1>3, <2>1, <3>3, <3>4, <3>5, StreamKept
  <2>4. CASE Delivers(w) /\ out[w].to = c /\ w = Hub
    <3>1. /\ Writing(c) /\ ~Writing(c)' /\ conn[c] = "up" /\ conn' = conn
          /\ wire'[c] = Append(wire[c], out[Hub].msg) /\ out[Hub].msg \in Messages
      BY <2>4 DEF Delivers, Writing, WritingTo
    <3>2. /\ hub.pc = "fanout" /\ c \notin hub.targets /\ Len(log) \in Due(c)
          /\ out[Hub].msg = DomainMessage(Head(hub.events), seq[c])
          /\ Cardinality(Due(c)) = seq[c]
      BY <1>1, <3>1 DEF Counts
    <3>3. Head(hub.events) \in Events /\ seq[c] \in Nat
      BY <3>2 DEF Shape, HubStates
    <3>4. /\ IsEvent(out[Hub].msg) /\ out[Hub].msg.seq = seq[c]
          /\ Carries(out[Hub].msg, log[Len(log)].event)
      BY <1>1, <3>2, <3>3, MessageKinds DEF FansLast
    <3>5. Cardinality(EventsAt(c)) = seq[c] - 1
      BY <1>1, <3>1 DEF UpToDate
    <3>6. Cardinality(EventsAt(c)) + 1 = Cardinality(Due(c))
      BY <3>2, <3>3, <3>5
    <3>7. /\ Cardinality(EventsAt(c)') = Cardinality(EventsAt(c)) + 1
          /\ Due(c)' = Due(c) /\ Streamed(c)'
      BY <1>1, <1>3, <3>1, <3>2, <3>4, <3>6, StreamedMore
    <3>8. Counts(c)'
      BY <1>3, <3>1, <3>2, <3>7 DEF Counts
    <3>9. UpToDate(c)'
      BY <1>3, <3>1, <3>2, <3>6, <3>7 DEF UpToDate
    <3> QED BY <3>7, <3>8, <3>9 DEF StreamOf
  <2> QED BY <2>2, <2>3, <2>4
<1>5. FansLast'
  BY <1>1, <1>3 DEF FansLast
<1> QED BY <1>1, <1>3, <1>4, <1>5 DEF Streaming, StreamOf

LEMMA StreamingConnection ==
  ASSUME Shape, Orderly, Streaming, NEW d \in Clients, ConnectionStep(d)
  PROVE  Streaming'
<1> USE SelfWriter
<1>1. log \in Seq(Entries) /\ FansLast /\ \A c \in Clients : Counts(c) /\ UpToDate(c) /\ Streamed(c)
  BY DEF Streaming
<1>2. /\ ReaderFrame(d)
      /\ \/ Opens(d) \/ Takes(d) \/ Refuses(d) \/ Loses(d) \/ GivesUp(d)
         \/ Accepts(d) \/ Rejects(d) \/ Subscribes(d)
  BY ReaderEffects
<1>3. log' = log /\ hub' = hub /\ seq' = seq /\ out'[Hub] = out[Hub]
  BY <1>2 DEF ReaderFrame
<1>4. ASSUME NEW c \in Clients PROVE StreamOf(c)'
  <2>1. (Writing(c)' <=> Writing(c)) /\ out'[Hub].msg = out[Hub].msg
    BY <1>3 DEF Writing, WritingTo
  <2>2. conn'[c] = "up" => conn[c] = "up"
    BY <1>2 DEF ReaderFrame, Opens, Takes, Refuses, Loses, GivesUp, Accepts, Rejects,
                Subscribes
  <2>3. wire'[c] = wire[c] \/ wire'[c] = Append(wire[c], Error)
    BY <1>2 DEF ReaderFrame, Opens, Takes, Refuses, Loses, GivesUp, Accepts, Rejects,
                Subscribes
  <2>4. Due(c)' = Due(c) /\ EventsAt(c)' = EventsAt(c) /\ Streamed(c)'
    <3>1. CASE wire'[c] = wire[c]
      BY <1>1, <1>3, <3>1, StreamedKept
    <3>2. CASE wire'[c] = Append(wire[c], Error)
      <4>1. Error \in Messages /\ ~IsEvent(Error)
        BY MessageTypes, MessageKinds
      <4> QED BY <1>1, <1>3, <3>2, <4>1, StreamedAside
    <3> QED BY <2>3, <3>1, <3>2
  <2> QED BY <1>1, <1>3, <2>1, <2>2, <2>4, StreamKept
<1>5. FansLast'
  BY <1>1, <1>3 DEF FansLast
<1> QED BY <1>1, <1>3, <1>4, <1>5 DEF Streaming, StreamOf

LEMMA StreamingStep == Shape /\ Orderly /\ Streaming /\ [Next]_vars => Streaming'
<1> SUFFICES ASSUME Shape, Orderly, Streaming, [Next]_vars PROVE Streaming' OBVIOUS
<1>1. CASE QuietStep
  BY <1>1, StreamingQuiet
<1>2. CASE FanOut
  <2>1. PICK d \in Clients : FansTo(d)
    BY <1>2, FanOutEffects
  <2> QED BY <2>1, StreamingFanOut
<1>3. CASE \E w \in Writers : WriteStep(w)
  BY <1>3, StreamingWrite
<1>4. CASE \E c \in Clients : ConnectionStep(c)
  BY <1>4, StreamingConnection
<1>5. CASE UNCHANGED vars
  <2>1. hub' = hub /\ log' = log /\ seq' = seq /\ wire' = wire /\ out' = out /\ conn' = conn
    BY <1>5 DEF vars, streamVars
  <2>2. ASSUME NEW c \in Clients PROVE StreamOf(c)'
    <3>1. Counts(c) /\ UpToDate(c) /\ Streamed(c)
      BY DEF Streaming
    <3>2. Due(c)' = Due(c) /\ EventsAt(c)' = EventsAt(c) /\ Streamed(c)'
      BY <2>1, <3>1, StreamedKept
    <3>3. Writing(c)' <=> Writing(c)
      BY <2>1 DEF Writing, WritingTo
    <3> QED BY <2>1, <3>1, <3>2, <3>3, StreamKept
  <2> QED BY <2>1, <2>2 DEF Streaming, StreamOf, FansLast
<1> QED BY <1>1, <1>2, <1>3, <1>4, <1>5, NextCases

LEMMA StreamingIsLog == Shape /\ Streaming => StreamIsLog
<1> SUFFICES ASSUME Shape, Streaming, NEW c \in Clients
             PROVE  /\ \A i \in EventsAt(c) : FromLog(c, i)
                    /\ conn[c] = "up" =>
                         \/ Cardinality(EventsAt(c)) = Cardinality(Due(c))
                         \/ /\ hub.pc = "fanout"
                            /\ Cardinality(EventsAt(c)) + 1 = Cardinality(Due(c))
  BY DEF StreamIsLog, FromLog
<1>1. Counts(c) /\ UpToDate(c) /\ Streamed(c) /\ seq[c] \in Nat
  BY StreamSets DEF Streaming
<1> QED BY <1>1 DEF Counts, UpToDate, Streamed

(* A client receives exactly what was fanned out to it, in order and       *)
(* numbered without gaps: the log entry being fanned out is the last one,  *)
(* seq counts the entries with the client as a target, and the one message *)
(* under way is the only one a live peer may lack.                         *)
THEOREM StreamFollowsLog == Spec => []StreamIsLog
BY InitShape, ShapeStep, InitOrderly, OrderlyStep, InitStreaming, StreamingStep,
   StreamingIsLog, PTL DEF Spec
-----------------------------------------------------------------------------
(* Events of old subscriptions.                                            *)

(* chats are the last acknowledged ones.                                   *)
Holds(s, chats) ==
  \/ NoAck(s, 1, Len(s)) /\ chats = {}
  \/ \E j \in 1..Len(s) : IsAck(s[j]) /\ NoAck(s, j + 1, Len(s)) /\ s[j].chats = chats

(* What one more message changes.                                          *)
LEMMA AckFacts ==
  ASSUME NEW s \in Seq(Messages), NEW m \in Messages
  PROVE  LET n == Len(s)
             t == Append(s, m)
         IN /\ \A i \in 1..(n + 1) : \A chat :
                 /\ AckedBefore(s, i, chat) => AckedBefore(t, i, chat)
                 /\ NoEventSince(s, i) => NoEventSince(t, i)
            /\ \A i \in 1..n : \A chat :
                 /\ AckedNext(s, i, chat) => AckedNext(t, i, chat)
                 /\ NoAck(s, i, n) /\ IsAck(m) /\ IsSubscribed(m.chats, chat) =>
                      AckedNext(t, i, chat)
            /\ \A i \in 1..(n + 1) : NoAck(s, i, n) /\ ~IsAck(m) => NoAck(t, i, n + 1)
            /\ IsAck(m) => Holds(t, m.chats) /\ (~IsEvent(m) => NoEventSince(t, n + 2))
            /\ ~IsAck(m) => /\ \A chats : Holds(s, chats) => Holds(t, chats)
                            /\ \A chat : AckedBefore(s, n + 1, chat) => AckedBefore(t, n + 2, chat)
                            /\ ~IsEvent(m) /\ NoEventSince(s, n + 1) => NoEventSince(t, n + 2)
<1> DEFINE t == Append(s, m)
<1>0. PICK n \in Nat : n = Len(s)
  OBVIOUS
<1>1. Len(t) = n + 1 /\ (\A i \in 1..n : t[i] = s[i]) /\ t[n + 1] = m
  BY <1>0
<1> HIDE DEF t
<1>2. ASSUME NEW i \in 1..(n + 1), NEW chat
      PROVE  /\ AckedBefore(s, i, chat) => AckedBefore(t, i, chat)
             /\ NoEventSince(s, i) => NoEventSince(t, i)
  <2>1. \A j \in 1..(i - 1) : j \in 1..n /\ t[j] = s[j]
    BY <1>1
  <2>2. \A j \in 1..(i - 1) : NoAck(s, j + 1, i - 1) => NoAck(t, j + 1, i - 1)
    BY <2>1 DEF NoAck
  <2>3. \A j \in 1..(i - 1) : NoAck(t, j, i - 1) => NoAck(s, j, i - 1)
    BY <2>1 DEF NoAck
  <2>4. AckedBefore(s, i, chat) => AckedBefore(t, i, chat)
    BY <2>1, <2>2 DEF AckedBefore
  <2>5. NoEventSince(s, i) => NoEventSince(t, i)
    BY <2>1, <2>3 DEF NoEventSince
  <2> QED BY <2>4, <2>5
<1>3. ASSUME NEW i \in 1..n, NEW chat
      PROVE  /\ AckedNext(s, i, chat) => AckedNext(t, i, chat)
             /\ NoAck(s, i, n) /\ IsAck(m) /\ IsSubscribed(m.chats, chat) =>
                  AckedNext(t, i, chat)
  <2>1. ASSUME NEW j \in i..(n + 1), NoAck(s, i, j - 1) PROVE NoAck(t, i, j - 1)
    <3>1. \A k \in i..(j - 1) : k \in 1..n /\ t[k] = s[k]
      BY <1>1
    <3> QED BY <2>1, <3>1 DEF NoAck
  <2>2. ASSUME AckedNext(s, i, chat) PROVE AckedNext(t, i, chat)
    <3>1. PICK j \in i..n :
            IsAck(s[j]) /\ NoAck(s, i, j - 1) /\ IsSubscribed(s[j].chats, chat)
      BY <1>0, <2>2 DEF AckedNext
    <3>2. j \in i..(n + 1) /\ t[j] = s[j]
      BY <1>1, <3>1
    <3> QED BY <1>1, <2>1, <3>1, <3>2 DEF AckedNext
  <2>3. ASSUME NoAck(s, i, n), IsAck(m), IsSubscribed(m.chats, chat)
        PROVE  AckedNext(t, i, chat)
    <3>1. n + 1 \in i..(n + 1) /\ (n + 1) - 1 = n
      OBVIOUS
    <3>2. NoAck(t, i, (n + 1) - 1)
      BY <2>1, <2>3, <3>1
    <3> QED BY <1>1, <2>3, <3>1, <3>2 DEF AckedNext
  <2> QED BY <2>2, <2>3
<1>4. ASSUME NEW i \in 1..(n + 1), NoAck(s, i, n), ~IsAck(m)
      PROVE  NoAck(t, i, n + 1)
  BY <1>1, <1>4 DEF NoAck
<1>5. ASSUME IsAck(m)
      PROVE  Holds(t, m.chats) /\ (~IsEvent(m) => NoEventSince(t, n + 2))
  <2>1. n + 1 \in 1..Len(t) /\ NoAck(t, (n + 1) + 1, Len(t))
    BY <1>1 DEF NoAck
  <2>2. Holds(t, m.chats)
    BY <1>1, <1>5, <2>1 DEF Holds
  <2>3. \A j \in 1..((n + 2) - 1) : n + 1 \in j..((n + 2) - 1)
    OBVIOUS
  <2>4. NoEventSince(t, n + 2)
    BY <1>1, <1>5, <2>3 DEF NoEventSince, NoAck
  <2> QED BY <2>2, <2>4
<1>6. ASSUME ~IsAck(m)
      PROVE  /\ \A chats : Holds(s, chats) => Holds(t, chats)
             /\ \A chat : AckedBefore(s, n + 1, chat) => AckedBefore(t, n + 2, chat)
             /\ ~IsEvent(m) /\ NoEventSince(s, n + 1) => NoEventSince(t, n + 2)
  <2>1. \A i \in 1..(n + 1) : NoAck(s, i, n) => NoAck(t, i, n + 1)
    BY <1>4, <1>6
  <2>2. ASSUME NEW chats, Holds(s, chats) PROVE Holds(t, chats)
    <3>1. CASE NoAck(s, 1, Len(s)) /\ chats = {}
      <4>1. NoAck(t, 1, Len(t))
        BY <1>0, <1>1, <2>1, <3>1
      <4> QED BY <3>1, <4>1 DEF Holds
    <3>2. CASE \E j \in 1..Len(s) :
                 IsAck(s[j]) /\ NoAck(s, j + 1, Len(s)) /\ s[j].chats = chats
      <4>1. PICK j \in 1..n : IsAck(s[j]) /\ NoAck(s, j + 1, n) /\ s[j].chats = chats
        BY <1>0, <3>2
      <4>2. j + 1 \in 1..(n + 1) /\ j \in 1..Len(t) /\ t[j] = s[j]
        BY <1>1
      <4>3. NoAck(t, j + 1, Len(t))
        BY <1>1, <2>1, <4>1, <4>2
      <4> QED BY <4>1, <4>2, <4>3 DEF Holds
    <3> QED BY <2>2, <3>1, <3>2 DEF Holds
  <2>3. ASSUME NEW chat, AckedBefore(s, n + 1, chat) PROVE AckedBefore(t, n + 2, chat)
    <3>0. (n + 1) - 1 = n /\ (n + 2) - 1 = n + 1
      OBVIOUS
    <3>1. PICK j \in 1..n :
            IsAck(s[j]) /\ NoAck(s, j + 1, n) /\ IsSubscribed(s[j].chats, chat)
      BY <2>3, <3>0 DEF AckedBefore
    <3>2. j + 1 \in 1..(n + 1) /\ j \in 1..((n + 2) - 1) /\ t[j] = s[j]
      BY <1>1
    <3>3. NoAck(t, j + 1, (n + 2) - 1)
      BY <2>1, <3>0, <3>1, <3>2
    <3> QED BY <3>1, <3>2, <3>3 DEF AckedBefore
  <2>4. ASSUME ~IsEvent(m), NoEventSince(s, n + 1) PROVE NoEventSince(t, n + 2)
    <3>0. (n + 1) - 1 = n /\ (n + 2) - 1 = n + 1
      OBVIOUS
    <3> SUFFICES ASSUME NEW j \in 1..(n + 1), IsEvent(t[j]) PROVE ~NoAck(t, j, n + 1)
      BY <3>0 DEF NoEventSince
    <3>1. j \in 1..n /\ t[j] = s[j]
      BY <1>1, <2>4
    <3>2. ~NoAck(s, j, n)
      BY <2>4, <3>0, <3>1 DEF NoEventSince
    <3>3. PICK k \in j..n : IsAck(s[k])
      BY <3>2 DEF NoAck
    <3>4. k \in j..(n + 1) /\ t[k] = s[k]
      BY <1>1, <3>1, <3>3
    <3> QED BY <3>3, <3>4 DEF NoAck
  <2> QED BY <2>2, <2>3, <2>4
<1> QED BY <1>0, <1>2, <1>3, <1>4, <1>5, <1>6 DEF t

(* If no answer came since index i, the chats held are those of before.    *)
LEMMA HeldBefore ==
  ASSUME NEW s \in Seq(Messages), NEW chats, NEW chat, NEW i \in 1..(Len(s) + 1),
         Holds(s, chats), IsSubscribed(chats, chat), NoAck(s, i, Len(s))
  PROVE  AckedBefore(s, i, chat)
<1>0. PICK n \in Nat : n = Len(s)
  OBVIOUS
<1>1. chats # {}
  BY DEF IsSubscribed
<1>2. PICK j \in 1..n : IsAck(s[j]) /\ NoAck(s, j + 1, n) /\ s[j].chats = chats
  BY <1>0, <1>1 DEF Holds
<1>3. j \in 1..(i - 1)
  BY <1>0, <1>2 DEF NoAck
<1>4. NoAck(s, j + 1, i - 1)
  BY <1>0, <1>2, <1>3 DEF NoAck
<1> QED BY <1>2, <1>3, <1>4 DEF AckedBefore

(* c was chosen for the current event and has not received it yet.         *)
UnderWay(c) == (hub.pc \in {"decide", "fanout"} /\ c \in hub.targets) \/ Writing(c)

(* When it arrives, it is of the subscriptions acknowledged or being set,  *)
(* or the first since an answer.                                           *)
OnTime(c) ==
  \/ AckedBefore(wire[c], Len(wire[c]) + 1, Head(hub.events).chatID)
  \/ Answering(c) /\ IsSubscribed(chatIDs[c], Head(hub.events).chatID)
  \/ NoEventSince(wire[c], Len(wire[c]) + 1)

Placed(c, i) ==
  \/ AckedBefore(wire[c], i, wire[c][i].chatID)
  \/ AckedNext(wire[c], i, wire[c][i].chatID)
  \/ NoAck(wire[c], i, Len(wire[c])) /\ IsSubscribed(chatIDs[c], wire[c][i].chatID)
  \/ NoEventSince(wire[c], i)

Deciding(c) == reader[c].pc \in {"valid", "invalid", "subscribe"}

Timely(c) ==
  /\ Answering(c) /\ conn[c] = "up" => out[c].msg.chats = chatIDs[c]
  /\ ~Answering(c) /\ (conn[c] = "up" \/ Deciding(c)) => Holds(wire[c], chatIDs[c])
  /\ UnderWay(c) /\ conn[c] = "up" => OnTime(c)
  /\ \A i \in EventsAt(c) : Placed(c, i)

Timeliness == \A c \in Clients : Timely(c)

LEMMA InitTimeliness == Init => Timeliness
<1> SUFFICES ASSUME Init, NEW c \in Clients PROVE Timely(c)
  BY DEF Timeliness
<1>1. wire[c] = <<>> /\ chatIDs[c] = {} /\ hub.pc = "idle"
  BY DEF Init, NotProcessing
<1>2. ~Answering(c) /\ ~Writing(c)
  BY SelfWriter DEF Init, NoWrite, Answering, Writing, WritingTo
<1>3. Holds(wire[c], chatIDs[c])
  BY <1>1 DEF Holds, NoAck
<1>4. EventsAt(c) = {}
  BY <1>1 DEF EventsAt
<1> QED BY <1>1, <1>2, <1>3, <1>4 DEF Timely, UnderWay

(* A step that sends c nothing and leaves its subscriptions.               *)
LEMMA TimelyKept ==
  ASSUME NEW c \in Clients, Timely(c),
         wire'[c] = wire[c], chatIDs'[c] = chatIDs[c],
         conn'[c] = "up" => conn[c] = "up",
         conn'[c] = "up" => (Answering(c)' <=> Answering(c)),
         Answering(c)' /\ conn'[c] = "up" => out'[c].msg = out[c].msg,
         UnderWay(c)' /\ conn'[c] = "up" => UnderWay(c) /\ Head(hub.events)' = Head(hub.events),
         Deciding(c)' => ~Answering(c) /\ (conn[c] = "up" \/ Deciding(c))
  PROVE  Timely(c)'
<1>1. EventsAt(c)' = EventsAt(c)
  BY DEF EventsAt
<1>2. ASSUME NEW i \in EventsAt(c) PROVE Placed(c, i)'
  BY DEF Timely, Placed
<1>3. Answering(c)' /\ conn'[c] = "up" => out'[c].msg.chats = chatIDs'[c]
  BY DEF Timely
<1>4. ~Answering(c)' /\ (conn'[c] = "up" \/ Deciding(c)') => Holds(wire'[c], chatIDs'[c])
  BY DEF Timely
<1>5. UnderWay(c)' /\ conn'[c] = "up" => OnTime(c)'
  BY DEF Timely, OnTime
<1> QED BY <1>1, <1>2, <1>3, <1>4, <1>5 DEF Timely

(* c receives a message that is neither an event nor an answer.            *)
LEMMA TimelyAside ==
  ASSUME Shape, NEW c \in Clients, Timely(c),
         NEW m \in Messages, ~IsEvent(m), ~IsAck(m),
         wire'[c] = Append(wire[c], m), EventsAt(c)' = EventsAt(c),
         chatIDs'[c] = chatIDs[c], conn'[c] = conn[c], conn[c] = "up",
         ~Answering(c), ~Answering(c)',
         UnderWay(c)' => UnderWay(c) /\ Head(hub.events)' = Head(hub.events)
  PROVE  Timely(c)'
<1>a. wire[c] \in Seq(Messages)
  BY DEF Shape
<1>0. PICK n \in Nat : n = Len(wire[c]) /\ Len(wire'[c]) = n + 1
  BY <1>a
<1>1. wire[c] \in Seq(Messages) /\ EventsAt(c) \in SUBSET (1..n)
      /\ \A i \in 1..n : wire'[c][i] = wire[c][i]
  BY <1>0 DEF Shape, EventsAt
<1>2. /\ \A i \in 1..(n + 1) : \A chat :
           /\ AckedBefore(wire[c], i, chat) => AckedBefore(wire'[c], i, chat)
           /\ NoEventSince(wire[c], i) => NoEventSince(wire'[c], i)
      /\ \A i \in 1..n : \A chat : AckedNext(wire[c], i, chat) => AckedNext(wire'[c], i, chat)
      /\ \A i \in 1..(n + 1) : NoAck(wire[c], i, n) => NoAck(wire'[c], i, n + 1)
      /\ \A chats : Holds(wire[c], chats) => Holds(wire'[c], chats)
      /\ \A chat : AckedBefore(wire[c], n + 1, chat) => AckedBefore(wire'[c], n + 2, chat)
      /\ NoEventSince(wire[c], n + 1) => NoEventSince(wire'[c], n + 2)
  <2> DEFINE s == wire[c]
  <2>1. s \in Seq(Messages) /\ n = Len(s) /\ wire'[c] = Append(s, m)
    BY <1>0, <1>1
  <2> HIDE DEF s
  <2>2. /\ \A i \in 1..(n + 1) : \A chat :
             /\ AckedBefore(s, i, chat) => AckedBefore(Append(s, m), i, chat)
             /\ NoEventSince(s, i) => NoEventSince(Append(s, m), i)
        /\ \A i \in 1..n : \A chat : AckedNext(s, i, chat) => AckedNext(Append(s, m), i, chat)
        /\ \A i \in 1..(n + 1) : NoAck(s, i, n) => NoAck(Append(s, m), i, n + 1)
        /\ \A chats : Holds(s, chats) => Holds(Append(s, m), chats)
        /\ \A chat : AckedBefore(s, n + 1, chat) => AckedBefore(Append(s, m), n + 2, chat)
        /\ NoEventSince(s, n + 1) => NoEventSince(Append(s, m), n + 2)
    BY <2>1, AckFacts
  <2> QED BY <2>1, <2>2 DEF s
<1>3. ASSUME NEW i \in EventsAt(c) PROVE Placed(c, i)'
  <2>1. Placed(c, i) /\ i \in 1..n /\ wire'[c][i] = wire[c][i]
    BY <1>1 DEF Timely
  <2> QED BY <1>0, <1>2, <2>1 DEF Placed
<1>4. Holds(wire'[c], chatIDs'[c])
  BY <1>2 DEF Timely
<1>5. UnderWay(c)' => OnTime(c)'
  <2> SUFFICES ASSUME UnderWay(c)' PROVE OnTime(c)'
    OBVIOUS
  <2>1. OnTime(c) /\ Head(hub.events)' = Head(hub.events)
    BY DEF Timely
  <2>2. (n + 1) + 1 = n + 2
    OBVIOUS
  <2> QED BY <1>0, <1>2, <2>1, <2>2 DEF OnTime
<1> QED BY <1>3, <1>4, <1>5 DEF Timely

(* c receives the answer to its subscriptions.                             *)
LEMMA TimelyAnswer ==
  ASSUME Shape, NEW c \in Clients, Timely(c),
         NEW m \in Messages, ~IsEvent(m), IsAck(m), m.chats = chatIDs[c],
         wire'[c] = Append(wire[c], m), EventsAt(c)' = EventsAt(c),
         chatIDs'[c] = chatIDs[c], ~Answering(c)'
  PROVE  Timely(c)'
<1>a. wire[c] \in Seq(Messages)
  BY DEF Shape
<1>0. PICK n \in Nat : n = Len(wire[c]) /\ Len(wire'[c]) = n + 1
  BY <1>a
<1>1. wire[c] \in Seq(Messages) /\ EventsAt(c) \in SUBSET (1..n)
      /\ \A i \in 1..n : wire'[c][i] = wire[c][i]
  BY <1>0 DEF Shape, EventsAt
<1>2. /\ \A i \in 1..(n + 1) : \A chat :
           /\ AckedBefore(wire[c], i, chat) => AckedBefore(wire'[c], i, chat)
           /\ NoEventSince(wire[c], i) => NoEventSince(wire'[c], i)
      /\ \A i \in 1..n : \A chat :
           /\ AckedNext(wire[c], i, chat) => AckedNext(wire'[c], i, chat)
           /\ NoAck(wire[c], i, n) /\ IsSubscribed(m.chats, chat) =>
                AckedNext(wire'[c], i, chat)
      /\ Holds(wire'[c], m.chats)
      /\ NoEventSince(wire'[c], n + 2)
  <2> DEFINE s == wire[c]
  <2>1. s \in Seq(Messages) /\ n = Len(s) /\ wire'[c] = Append(s, m)
    BY <1>0, <1>1
  <2> HIDE DEF s
  <2>2. /\ \A i \in 1..(n + 1) : \A chat :
             /\ AckedBefore(s, i, chat) => AckedBefore(Append(s, m), i, chat)
             /\ NoEventSince(s, i) => NoEventSince(Append(s, m), i)
        /\ \A i \in 1..n : \A chat :
             /\ AckedNext(s, i, chat) => AckedNext(Append(s, m), i, chat)
             /\ NoAck(s, i, n) /\ IsSubscribed(m.chats, chat) =>
                  AckedNext(Append(s, m), i, chat)
        /\ Holds(Append(s, m), m.chats)
        /\ NoEventSince(Append(s, m), n + 2)
    BY <2>1, AckFacts
  <2> QED BY <2>1, <2>2 DEF s
<1>3. ASSUME NEW i \in EventsAt(c) PROVE Placed(c, i)'
  <2>1. Placed(c, i) /\ i \in 1..n /\ wire'[c][i] = wire[c][i]
    BY <1>1 DEF Timely
  <2> QED BY <1>0, <1>2, <2>1 DEF Placed
<1>4. NoEventSince(wire'[c], Len(wire'[c]) + 1)
  <2>1. (n + 1) + 1 = n + 2
    OBVIOUS
  <2> QED BY <1>0, <1>2, <2>1
<1> QED BY <1>2, <1>3, <1>4 DEF Timely, OnTime

(* c receives the event it was chosen for.                                 *)
LEMMA TimelyEvent ==
  ASSUME Shape, NEW c \in Clients, Timely(c),
         NEW m \in Messages, IsEvent(m), ~IsAck(m), m.chatID = Head(hub.events).chatID,
         UnderWay(c), conn[c] = "up",
         wire'[c] = Append(wire[c], m), chatIDs'[c] = chatIDs[c],
         ~UnderWay(c)', conn'[c] = conn[c], Deciding(c)' <=> Deciding(c),
         Answering(c)' <=> Answering(c), out'[c] = out[c]
  PROVE  Timely(c)'
<1>a. wire[c] \in Seq(Messages)
  BY DEF Shape
<1>0. PICK n \in Nat : n = Len(wire[c]) /\ Len(wire'[c]) = n + 1
  BY <1>a
<1>1. /\ wire[c] \in Seq(Messages)
      /\ DOMAIN wire[c] = 1..n /\ DOMAIN wire'[c] = 1..(n + 1)
      /\ wire'[c][n + 1] = m
      /\ \A i \in 1..n : wire'[c][i] = wire[c][i]
  BY <1>0 DEF Shape
<1>2. /\ \A i \in 1..(n + 1) : \A chat :
           /\ AckedBefore(wire[c], i, chat) => AckedBefore(wire'[c], i, chat)
           /\ NoEventSince(wire[c], i) => NoEventSince(wire'[c], i)
      /\ \A i \in 1..n : \A chat : AckedNext(wire[c], i, chat) => AckedNext(wire'[c], i, chat)
      /\ \A i \in 1..(n + 1) : NoAck(wire[c], i, n) => NoAck(wire'[c], i, n + 1)
      /\ \A chats : Holds(wire[c], chats) => Holds(wire'[c], chats)
  <2> DEFINE s == wire[c]
  <2>1. s \in Seq(Messages) /\ n = Len(s) /\ wire'[c] = Append(s, m)
    BY <1>0, <1>1
  <2> HIDE DEF s
  <2>2. /\ \A i \in 1..(n + 1) : \A chat :
             /\ AckedBefore(s, i, chat) => AckedBefore(Append(s, m), i, chat)
             /\ NoEventSince(s, i) => NoEventSince(Append(s, m), i)
        /\ \A i \in 1..n : \A chat : AckedNext(s, i, chat) => AckedNext(Append(s, m), i, chat)
        /\ \A i \in 1..(n + 1) : NoAck(s, i, n) => NoAck(Append(s, m), i, n + 1)
        /\ \A chats : Holds(s, chats) => Holds(Append(s, m), chats)
    BY <2>1, AckFacts
  <2> QED BY <2>1, <2>2 DEF s
<1>3. ASSUME NEW i \in EventsAt(c)' PROVE Placed(c, i)'
  <2>1. i \in 1..(n + 1)
    BY <1>1 DEF EventsAt
  <2>2. CASE i \in 1..n
    <3>1. wire'[c][i] = wire[c][i] /\ i \in EventsAt(c)
      BY <1>1, <2>2 DEF EventsAt
    <3>2. Placed(c, i)
      BY <3>1 DEF Timely
    <3> QED BY <1>0, <1>2, <2>2, <3>1, <3>2 DEF Placed
  <2>3. CASE i = n + 1
    <3>1. OnTime(c)
      BY DEF Timely
    <3>2. NoAck(wire[c], n + 1, n)
      BY DEF NoAck
    <3>3. NoAck(wire'[c], n + 1, n + 1)
      BY <1>2, <3>2
    <3>4. n + 1 \in 1..(n + 1)
      OBVIOUS
    <3> QED BY <1>0, <1>1, <1>2, <2>3, <3>1, <3>3, <3>4 DEF OnTime, Placed
  <2> QED BY <2>1, <2>2, <2>3
<1>4. ~Answering(c)' /\ (conn'[c] = "up" \/ Deciding(c)') => Holds(wire'[c], chatIDs'[c])
  BY <1>2 DEF Timely
<1>5. Answering(c)' /\ conn'[c] = "up" => out'[c].msg.chats = chatIDs'[c]
  BY DEF Timely
<1> QED BY <1>3, <1>4, <1>5 DEF Timely

LEMMA TimelyQuiet ==
  ASSUME Shape, Orderly, QuietStep, NEW c \in Clients, Timely(c)
  PROVE  Timely(c)'
<1>1. UNCHANGED perClient
  BY QuietFrame
<1>2. /\ wire'[c] = wire[c] /\ chatIDs'[c] = chatIDs[c] /\ conn'[c] = conn[c]
      /\ out' = out /\ reader' = reader
      /\ Answering(c)' <=> Answering(c)
      /\ Writing(c)' <=> Writing(c)
      /\ Deciding(c)' <=> Deciding(c)
  BY <1>1 DEF perClient, Answering, Writing, WritingTo, Deciding
<1>3. Outgoing(c) /\ (out[Hub].phase # "none" => hub.pc = "fanout")
  BY DEF Orderly
<1>4. Deciding(c) => ~Answering(c)
  BY <1>3 DEF Outgoing, Deciding, Answering
<1>5. CASE hub' = hub
  BY <1>2, <1>4, <1>5, TimelyKept DEF UnderWay
<1>6. CASE Moves
  <2>1. ~UnderWay(c)'
    BY <1>2, <1>3, <1>6 DEF Moves, UnderWay, Writing, WritingTo
  <2> QED BY <1>2, <1>4, <2>1, TimelyKept
<1>7. CASE Admits
  <2>1. UnderWay(c)' => UnderWay(c) /\ Head(hub.events)' = Head(hub.events)
    BY <1>2, <1>7 DEF Admits, UnderWay
  <2> QED BY <1>2, <1>4, <2>1, TimelyKept
<1>8. CASE Chooses
  <2>1. ~Writing(c) /\ hub.pc = "event" /\ Head(hub.events)' = Head(hub.events)
    BY <1>3, <1>8 DEF Chooses, Writing, WritingTo
  <2>2. UnderWay(c)' => IsSubscribed(chatIDs[c], Head(hub.events).chatID)
    BY <1>2, <1>8, <2>1 DEF Chooses, UnderWay
  <2>3. wire[c] \in Seq(Messages)
    BY DEF Shape
  <2>4. Len(wire[c]) \in Nat
    BY <2>3
  <2>5. Len(wire[c]) + 1 \in 1..(Len(wire[c]) + 1)
    BY <2>4
  <2>6. NoAck(wire[c], Len(wire[c]) + 1, Len(wire[c]))
    BY <2>4 DEF NoAck
  <2>7. ASSUME UnderWay(c)', conn[c] = "up" PROVE OnTime(c)
    <3>1. CASE Answering(c)
      BY <2>2, <2>7, <3>1 DEF OnTime
    <3>2. CASE ~Answering(c)
      <4>1. Holds(wire[c], chatIDs[c])
        BY <2>7, <3>2 DEF Timely
      <4>2. AckedBefore(wire[c], Len(wire[c]) + 1, Head(hub.events).chatID)
        BY <2>2, <2>3, <2>5, <2>6, <2>7, <4>1, HeldBefore
      <4> QED BY <4>2 DEF OnTime
    <3> QED BY <3>1, <3>2
  <2>8. OnTime(c) => OnTime(c)'
    BY <1>2, <2>1 DEF OnTime
  <2>9. EventsAt(c)' = EventsAt(c)
    BY <1>2 DEF EventsAt
  <2>10. \A i \in EventsAt(c) : Placed(c, i)'
    BY <1>2 DEF Placed, Timely
  <2> QED BY <1>2, <2>7, <2>8, <2>9, <2>10 DEF Timely
<1> QED BY <1>5, <1>6, <1>7, <1>8, QuietEffects

LEMMA TimelyFanOut ==
  ASSUME Shape, Orderly, NEW d \in Clients, FansTo(d), NEW c \in Clients, Timely(c)
  PROVE  Timely(c)'
<1>1. /\ wire'[c] = wire[c] /\ chatIDs'[c] = chatIDs[c] /\ conn'[c] = conn[c]
      /\ out'[c] = out[c] /\ reader' = reader
  BY SelfWriter DEF FansTo
<1>2. (Answering(c)' <=> Answering(c)) /\ (Deciding(c)' <=> Deciding(c))
  BY <1>1 DEF Answering, Deciding
<1>3. Deciding(c) => ~Answering(c)
  BY DEF Orderly, Outgoing, Deciding, Answering
<1>4. Writing(c)' => c = d
  BY DEF FansTo, Writing, WritingTo, WriteTo
<1>5. UnderWay(c)' => UnderWay(c) /\ Head(hub.events)' = Head(hub.events)
  BY <1>4 DEF FansTo, UnderWay
<1> QED BY <1>1, <1>2, <1>3, <1>5, TimelyKept

LEMMA TimelyWrite ==
  ASSUME Shape, Orderly, Streaming, NEW w \in Writers, WriteStep(w),
         NEW c \in Clients, Timely(c)
  PROVE  Timely(c)'
<1> USE SelfWriter
<1>1. /\ WriteFrame(w)
      /\ Starts(w) \/ Delivers(w) \/ Breaks(w) \/ Removes(w) \/ Closes(w)
  BY WriteEffects
<1>2. /\ hub' = hub /\ reader' = reader /\ chatIDs' = chatIDs
      /\ Deciding(c)' <=> Deciding(c)
  BY <1>1 DEF WriteFrame, Deciding
<1>3. Outgoing(c)
  BY DEF Orderly
<1>4. Deciding(c) => ~Answering(c)
  BY <1>3 DEF Outgoing, Deciding, Answering
<1>5. Writing(c)' => Writing(c)
  BY <1>1 DEF WriteFrame, Starts, Delivers, Breaks, Removes, Closes, Writing, WritingTo
<1>6. UnderWay(c)' => UnderWay(c) /\ Head(hub.events)' = Head(hub.events)
  BY <1>2, <1>5 DEF UnderWay
<1>7. conn'[c] = "up" => conn[c] = "up"
  BY <1>1 DEF Starts, Delivers, Breaks, Removes, Closes
<1>8. CASE ~(Delivers(w) /\ out[w].to = c)
  <2>1. wire'[c] = wire[c]
    BY <1>1, <1>8 DEF Starts, Delivers, Breaks, Removes, Closes
  <2>2. ASSUME conn'[c] = "up"
        PROVE  (Answering(c)' <=> Answering(c)) /\ (Answering(c)' => out'[c].msg = out[c].msg)
    <3>1. CASE w # c
      BY <1>1, <3>1 DEF WriteFrame, Answering
    <3>2. CASE w = c
      <4>1. out[w].phase # "none" => out[w].to = c
        BY <1>3, <3>2 DEF Outgoing
      <4> QED BY <1>1, <1>8, <2>2, <3>2, <4>1
              DEF Starts, Delivers, Breaks, Removes, Closes, Answering
    <3> QED BY <3>1, <3>2
  <2> QED BY <1>2, <1>4, <1>6, <1>7, <2>1, <2>2, TimelyKept DEF Timely
<1>9. CASE Delivers(w) /\ out[w].to = c /\ w # Hub
  <2>1. w \in Clients
    BY <1>9 DEF Writers
  <2>2. w = c /\ ~IsEvent(out[c].msg) /\ out[c].msg \in Messages
    BY <1>9, <2>1 DEF Orderly, Outgoing, Delivers
  <2>3. /\ wire'[c] = Append(wire[c], out[c].msg) /\ conn' = conn /\ conn[c] = "up"
        /\ out[c].phase = "send" /\ ~Answering(c)'
    BY <1>9, <2>2 DEF Delivers, Answering
  <2>4. EventsAt(c)' = EventsAt(c)
    <3>1. log \in Seq(Entries) /\ log' = log
      BY <1>1 DEF Streaming, WriteFrame
    <3> QED BY <2>2, <2>3, <3>1, StreamedAside
  <2>5. CASE IsAck(out[c].msg)
    <3>1. out[c].msg.chats = chatIDs[c]
      BY <2>3, <2>5 DEF Timely, Answering
    <3> QED BY <1>2, <2>2, <2>3, <2>4, <2>5, <3>1, TimelyAnswer
  <2>6. CASE ~IsAck(out[c].msg)
    <3>1. ~Answering(c)
      BY <2>6 DEF Answering
    <3> QED BY <1>2, <1>6, <2>2, <2>3, <2>4, <2>6, <3>1, TimelyAside
  <2> QED BY <2>5, <2>6
<1>10. CASE Delivers(w) /\ out[w].to = c /\ w = Hub
  <2>1. /\ Writing(c) /\ ~Writing(c)' /\ conn[c] = "up" /\ conn' = conn
        /\ wire'[c] = Append(wire[c], out[Hub].msg) /\ out[Hub].msg \in Messages
    BY <1>10 DEF Delivers, Writing, WritingTo
  <2>2. Counts(c) /\ seq[c] \in Nat
    BY StreamSets DEF Streaming
  <2>3. /\ hub.pc = "fanout" /\ c \notin hub.targets
        /\ out[Hub].msg = DomainMessage(Head(hub.events), seq[c])
    BY <2>1, <2>2 DEF Counts
  <2>4. Head(hub.events) \in Events
    BY <2>3 DEF Shape, HubStates
  <2>5. /\ IsEvent(out[Hub].msg) /\ ~IsAck(out[Hub].msg)
        /\ out[Hub].msg.chatID = Head(hub.events).chatID
    BY <2>2, <2>3, <2>4, MessageKinds
  <2>6. UnderWay(c) /\ ~UnderWay(c)'
    BY <1>2, <2>1, <2>3 DEF UnderWay
  <2>7. out'[c] = out[c] /\ (Answering(c)' <=> Answering(c))
    BY <1>1, <1>10 DEF WriteFrame, Answering
  <2> QED BY <1>2, <2>1, <2>5, <2>6, <2>7, TimelyEvent
<1> QED BY <1>8, <1>9, <1>10

LEMMA TimelyElsewhere ==
  ASSUME Shape, Orderly, NEW d \in Clients, ReaderFrame(d), NEW c \in Clients \ {d}, Timely(c)
  PROVE  Timely(c)'
<1>1. /\ wire'[c] = wire[c] /\ chatIDs'[c] = chatIDs[c] /\ conn'[c] = conn[c]
      /\ out'[c] = out[c] /\ reader'[c] = reader[c] /\ hub' = hub /\ out'[Hub] = out[Hub]
  BY SelfWriter DEF ReaderFrame
<1>2. /\ (Answering(c)' <=> Answering(c)) /\ (Deciding(c)' <=> Deciding(c))
      /\ (UnderWay(c)' <=> UnderWay(c))
  BY <1>1 DEF Answering, Deciding, UnderWay, Writing, WritingTo
<1>3. Deciding(c) => ~Answering(c)
  BY DEF Orderly, Outgoing, Deciding, Answering
<1> QED BY <1>1, <1>2, <1>3, TimelyKept

(* The answer is being written from now on: what the peer has was placed   *)
(* by the subscriptions of before.                                         *)
LEMMA TimelySubscribes ==
  ASSUME Shape, Orderly, NEW c \in Clients, ReaderFrame(c), Subscribes(c), Timely(c)
  PROVE  Timely(c)'
<1>1. Outgoing(c) /\ wire[c] \in Seq(Messages) /\ conn[c] \in {"up", "gone"}
  BY DEF Orderly, Shape
<1>2. Deciding(c) /\ ~Answering(c) /\ Holds(wire[c], chatIDs[c])
  BY <1>1 DEF Subscribes, Outgoing, Deciding, Answering, Timely
<1>3. /\ wire'[c] = wire[c] /\ conn'[c] = conn[c] /\ hub' = hub /\ out'[Hub] = out[Hub]
  BY SelfWriter DEF Subscribes, ReaderFrame
<1>4. Answering(c)' /\ out'[c].msg.chats = reader[c].chats
  BY MessageKinds DEF Subscribes, WriteTo, Answering
<1>5. conn[c] = "up" => chatIDs'[c] = reader[c].chats
  BY <1>1 DEF Outgoing, Subscribes
<1>6. (UnderWay(c)' <=> UnderWay(c)) /\ Head(hub.events)' = Head(hub.events)
  BY <1>3 DEF UnderWay, Writing, WritingTo
<1>7. OnTime(c) => OnTime(c)'
  BY <1>2, <1>3, <1>6 DEF OnTime
<1>8. EventsAt(c)' = EventsAt(c) /\ EventsAt(c) \in SUBSET (1..Len(wire[c]))
  BY <1>1, <1>3 DEF EventsAt
<1>9. ASSUME NEW i \in EventsAt(c) PROVE Placed(c, i)'
  <2>1. Placed(c, i) /\ i \in 1..(Len(wire[c]) + 1)
    BY <1>1, <1>8 DEF Timely
  <2>2. NoAck(wire[c], i, Len(wire[c])) /\ IsSubscribed(chatIDs[c], wire[c][i].chatID)
          => AckedBefore(wire[c], i, wire[c][i].chatID)
    BY <1>1, <1>2, <2>1, HeldBefore
  <2> QED BY <1>3, <2>1, <2>2 DEF Placed
<1> QED BY <1>3, <1>4, <1>5, <1>6, <1>7, <1>8, <1>9 DEF Timely

LEMMA TimelyOpens ==
  ASSUME Greeting, NEW c \in Clients, ReaderFrame(c), Opens(c)
  PROVE  Timely(c)'
<1>1. /\ wire[c] = <<>> /\ c \notin hub.targets
      /\ \A w \in Writers : WritingTo(w, c) => w = c
  BY DEF Greeting, Greeted, Opens
<1>2. wire'[c] = <<>> /\ chatIDs'[c] = {} /\ hub' = hub /\ out'[Hub] = out[Hub]
  BY <1>1, SelfWriter DEF Opens, ReaderFrame
<1>3. ~Answering(c)'
  BY MessageKinds DEF Opens, WriteTo, Answering
<1>4. ~UnderWay(c)'
  BY <1>1, <1>2, SelfWriter DEF UnderWay, Writing, WritingTo
<1>5. Holds(wire'[c], chatIDs'[c]) /\ EventsAt(c)' = {}
  BY <1>2 DEF Holds, NoAck, EventsAt
<1> QED BY <1>3, <1>4, <1>5 DEF Timely

LEMMA TimelyConnection ==
  ASSUME Shape, Orderly, Greeting, Streaming, NEW d \in Clients, ConnectionStep(d),
         NEW c \in Clients, Timely(c)
  PROVE  Timely(c)'
<1> USE SelfWriter
<1>1. /\ ReaderFrame(d)
      /\ \/ Opens(d) \/ Takes(d) \/ Refuses(d) \/ Loses(d) \/ GivesUp(d)
         \/ Accepts(d) \/ Rejects(d) \/ Subscribes(d)
  BY ReaderEffects
<1>2. CASE c # d
  BY <1>1, <1>2, TimelyElsewhere
<1>3. CASE c = d
  <2>1. hub' = hub /\ (Writing(c)' <=> Writing(c))
    BY <1>1, <1>3 DEF ReaderFrame, Writing, WritingTo
  <2>2. (UnderWay(c)' <=> UnderWay(c)) /\ Head(hub.events)' = Head(hub.events)
    BY <2>1 DEF UnderWay
  <2>3. Outgoing(c)
    BY DEF Orderly
  <2>4. CASE Opens(c)
    BY <1>1, <1>3, <2>4, TimelyOpens
  <2>5. CASE Subscribes(c)
    BY <1>1, <1>3, <2>5, TimelySubscribes
  <2>6. CASE Refuses(c)
    <3>1. ~Answering(c) /\ ~Answering(c)'
      BY <2>6 DEF Refuses, Answering
    <3>2. Error \in Messages /\ ~IsEvent(Error) /\ ~IsAck(Error)
      BY MessageTypes, MessageKinds
    <3>3. log \in Seq(Entries) /\ log' = log
      BY <1>1 DEF Streaming, ReaderFrame
    <3>4. EventsAt(c)' = EventsAt(c)
      BY <2>6, <3>2, <3>3, StreamedAside DEF Refuses
    <3> QED BY <2>2, <2>6, <3>1, <3>2, <3>4, TimelyAside DEF Refuses
  <2>7. CASE Takes(c) \/ Loses(c) \/ Accepts(c)
    <3>1. /\ wire'[c] = wire[c] /\ chatIDs'[c] = chatIDs[c] /\ out'[c] = out[c]
          /\ conn'[c] = "up" => conn[c] = "up"
          /\ Answering(c)' <=> Answering(c)
      BY <2>7 DEF Takes, Loses, Accepts, Answering
    <3>2. Deciding(c)' => ~Answering(c) /\ (conn[c] = "up" \/ Deciding(c))
      BY <2>3, <2>7 DEF Takes, Loses, Accepts, Outgoing, Deciding, Answering
    <3> QED BY <2>2, <3>1, <3>2, TimelyKept
  <2>8. CASE GivesUp(c) \/ Rejects(c)
    <3>1. /\ wire'[c] = wire[c] /\ chatIDs'[c] = chatIDs[c] /\ conn'[c] = conn[c]
          /\ ~Deciding(c)'
      BY <2>8 DEF GivesUp, Rejects, Deciding
    <3>2. ~Answering(c)'
      BY <2>8, MessageKinds DEF GivesUp, Rejects, Answering, WriteTo, UnregisterOf
    <3>3. conn[c] = "up" => ~Answering(c)
      <4>1. CASE Rejects(c)
        BY <2>3, <4>1 DEF Rejects, Outgoing, Answering
      <4>2. CASE GivesUp(c)
        BY <2>3, <4>2 DEF GivesUp, Outgoing
      <4> QED BY <2>8, <4>1, <4>2
    <3> QED BY <2>2, <3>1, <3>2, <3>3, TimelyKept
  <2> QED BY <1>1, <1>3, <2>4, <2>5, <2>6, <2>7, <2>8
<1> QED BY <1>2, <1>3

LEMMA TimelinessStep ==
  Shape /\ Orderly /\ Greeting /\ Streaming /\ Timeliness /\ [Next]_vars => Timeliness'
<1> SUFFICES ASSUME Shape, Orderly, Greeting, Streaming, Timeliness, [Next]_vars,
                    NEW c \in Clients
             PROVE  Timely(c)'
  BY DEF Timeliness
<1>0. Timely(c)
  BY DEF Timeliness
<1>1. CASE QuietStep
  BY <1>0, <1>1, TimelyQuiet
<1>2. CASE FanOut
  <2>1. PICK d \in Clients : FansTo(d)
    BY <1>2, FanOutEffects
  <2> QED BY <1>0, <2>1, TimelyFanOut
<1>3. CASE \E w \in Writers : WriteStep(w)
  BY <1>0, <1>3, TimelyWrite
<1>4. CASE \E d \in Clients : ConnectionStep(d)
  BY <1>0, <1>4, TimelyConnection
<1>5. CASE UNCHANGED vars
  <2>1. /\ hub' = hub /\ wire' = wire /\ out' = out /\ conn' = conn /\ chatIDs' = chatIDs
        /\ reader' = reader
    BY <1>5 DEF vars
  <2>2. /\ (Answering(c)' <=> Answering(c)) /\ (Deciding(c)' <=> Deciding(c))
        /\ (UnderWay(c)' <=> UnderWay(c))
    BY <2>1 DEF Answering, Deciding, UnderWay, Writing, WritingTo
  <2>3. Deciding(c) => ~Answering(c)
    BY DEF Orderly, Outgoing, Deciding, Answering
  <2> QED BY <1>0, <2>1, <2>2, <2>3, TimelyKept
<1> QED BY <1>1, <1>2, <1>3, <1>4, <1>5, NextCases

LEMMA TimelinessMeans == Shape /\ Timeliness => StaleAtMostOnce
<1> SUFFICES ASSUME Shape, Timeliness, NEW c \in Clients, NEW i \in EventsAt(c)
             PROVE  \/ AckedBefore(wire[c], i, wire[c][i].chatID)
                    \/ AckedNext(wire[c], i, wire[c][i].chatID)
                    \/ /\ NoAck(wire[c], i, Len(wire[c]))
                       /\ Answering(c) \/ conn[c] = "gone"
                       /\ IsSubscribed(chatIDs[c], wire[c][i].chatID)
                    \/ NoEventSince(wire[c], i)
  BY DEF StaleAtMostOnce
<1>1. Timely(c) /\ Placed(c, i) /\ conn[c] \in {"up", "gone"} /\ wire[c] \in Seq(Messages)
  BY DEF Timeliness, Timely, Shape
<1>2. i \in 1..(Len(wire[c]) + 1)
  BY <1>1 DEF EventsAt
<1>3. CASE Answering(c) \/ conn[c] = "gone"
  BY <1>1, <1>3 DEF Placed
<1>4. CASE ~Answering(c) /\ conn[c] = "up"
  <2>1. Holds(wire[c], chatIDs[c])
    BY <1>1, <1>4 DEF Timely
  <2>2. NoAck(wire[c], i, Len(wire[c])) /\ IsSubscribed(chatIDs[c], wire[c][i].chatID)
          => AckedBefore(wire[c], i, wire[c][i].chatID)
    BY <1>1, <1>2, <2>1, HeldBefore
  <2> QED BY <1>1, <2>2 DEF Placed
<1> QED BY <1>1, <1>3, <1>4

(* After a change of subscriptions is acknowledged at most one event of    *)
(* the old ones arrives: the run goroutine has at most one event under way *)
(* to a client, chosen by the subscriptions acknowledged then, or being    *)
(* set, and after any later answer it is the first event.                  *)
THEOREM AtMostOneStale == Spec => []StaleAtMostOnce
BY InitShape, ShapeStep, InitOrderly, OrderlyStep, InitGreeting, GreetingStep,
   InitStreaming, StreamingStep, InitTimeliness, TimelinessStep, TimelinessMeans,
   PTL DEF Spec
=============================================================================
